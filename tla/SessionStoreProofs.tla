------------------------- MODULE SessionStoreProofs -------------------------
(***************************************************************************)
(* Proofs about SessionStore, for any number of threads, sessions and      *)
(* transactions.                                                           *)
(***************************************************************************)
EXTENDS SessionStore, TLAPS

Entering == {"claimed", "acquiring", "acquired", "entered"}
Committing == {"committing", "validated"}
InTurn == {"ACTIVE", "COMMITTED", "FAILED"}

\* A thread inside a method owns the method's transaction, whose state and
\* lock flag say how far the method has come.
Call(t) ==
    /\ at[t] \in Entering => /\ doing[t] \in Txn
                             /\ owner[doing[t]] = {t}
                             /\ state[doing[t]] = "ENTERING"
                             /\ lockAcquired[doing[t]] <=> at[t] = "entered"
    /\ at[t] \in Committing => /\ doing[t] \in Txn
                               /\ owner[doing[t]] = {t}
                               /\ state[doing[t]] = "ACTIVE"
    /\ at[t] \in {"getting", "reading"} => asking[t] \in entries

\* What a transaction object's state says of its other fields.
Object(x) ==
    /\ state[x] # "ABSENT" => session[x] \in entries
    /\ state[x] \in {"ABSENT", "CREATED"} => owner[x] = {}
    /\ state[x] \in {"ABSENT", "CREATED", "CLOSED"} => ~lockAcquired[x]
    /\ state[x] \in InTurn => lockAcquired[x]
    /\ x \in stranded => state[x] \in InTurn \cup {"CLOSED"}

Calls == \A t \in Thread : Call(t)
Objects == \A x \in Txn : Object(x)

Inv1 == TypeOK /\ Calls /\ Objects

-----------------------------------------------------------------------------
(* Frames: a step of thread t in a method of transaction x leaves the      *)
(* other threads and the other transactions alone.                         *)

OthersStay(t) == /\ entries' = entries
                 /\ \A u \in Thread \ {t} : /\ at'[u] = at[u]
                                            /\ doing'[u] = doing[u]
                                            /\ asking'[u] = asking[u]
OtherTxnsStay(x) == \A y \in Txn \ {x} : /\ state'[y] = state[y]
                                         /\ owner'[y] = owner[y]
                                         /\ session'[y] = session[y]
                                         /\ lockAcquired'[y] = lockAcquired[y]
                                         /\ y \in stranded' <=> y \in stranded

\* No other thread is inside a method of a transaction that t owns or that
\* has no owner.
LEMMA Undisturbed ==
  ASSUME Inv1, NEW t \in Thread, NEW x \in Txn, owner[x] \subseteq {t},
         OthersStay(t), OtherTxnsStay(x), NEW u \in Thread \ {t}
  PROVE  Call(u)'
  <1>1. at[u] \in Entering \cup Committing =>
           /\ doing[u] \in Txn \ {x}
           /\ owner[doing[u]] = {u}
    BY DEF Inv1, Calls, Call
  <1> QED
    BY <1>1 DEF Inv1, Calls, Call, OthersStay, OtherTxnsStay, Entering,
                Committing

LEMMA CallsStep ==
  ASSUME Inv1, NEW t \in Thread, NEW x \in Txn, owner[x] \subseteq {t},
         OthersStay(t), OtherTxnsStay(x), Call(t)'
  PROVE  Calls'
  BY Undisturbed DEF Calls

LEMMA ObjectsStep ==
  ASSUME Inv1, NEW t \in Thread, OthersStay(t),
         NEW x \in Txn, OtherTxnsStay(x), Object(x)'
  PROVE  Objects'
  BY DEF Inv1, Objects, Object, OthersStay, OtherTxnsStay, InTurn

LEMMA TypeInit == Init => Inv1
  BY SessionStoreConstants
  DEF Init, Inv1, TypeOK, Calls, Call, Objects, Object, Context, TxnState,
      Place, Entering, Committing, InTurn

LEMMA DraftsTyped ==
  ASSUME TypeOK, NEW x \in Txn
  PROVE  Drafts(x) \subseteq Context
  <1> DEFINE c == captured[x]
             r == Record(turn[x], x)
             q == Record(turn[x] + 1, x)
  <1>1. c \in Seq(TurnRecord) /\ r \in TurnRecord /\ q \in TurnRecord
    <2>1. turn[x] \in Nat /\ turn[x] + 1 \in Nat
      BY DEF TypeOK
    <2> QED
      BY <2>1 DEF TypeOK, Context, TurnRecord, Record
  <1> HIDE DEF c, r, q
  <1>2. Append(c, r) \in Seq(TurnRecord) /\ Append(c, q) \in Seq(TurnRecord)
    BY <1>1
  <1>3. Append(Append(c, r), q) \in Seq(TurnRecord)
    BY <1>1, <1>2
  <1>4. ASSUME NEW i \in 1..Len(c)
        PROVE  Append([c EXCEPT ![i].by = x], r) \in Seq(TurnRecord)
    <2>1. [c[i] EXCEPT !.by = x] \in TurnRecord
      <3>1. c[i] \in TurnRecord
        BY <1>1
      <3> QED
        BY <3>1 DEF TurnRecord
    <2>2. [c EXCEPT ![i].by = x] \in Seq(TurnRecord)
      BY <1>1, <2>1
    <2> QED
      BY <1>1, <2>2
  <1> QED
    BY <1>1, <1>2, <1>3, <1>4 DEF Drafts, Context, c, r, q

LEMMA TypeStep ==
  ASSUME Inv1, [Next]_vars
  PROVE  Inv1'
  <1> USE SessionStoreConstants
      DEF Inv1, TxnState, Place, Entering, Committing, InTurn, entryVars,
          txnVars, threadVars, Return, Goto
  <1>1. ASSUME NEW t \in Thread, NEW s \in Session, Reset(t, s)
        PROVE  Inv1'
    BY <1>1 DEF Reset, Context, TypeOK, Calls, Call, Objects, Object
  <1>2. ASSUME NEW t \in Thread, NEW s \in Session, GetBegin(t, s)
        PROVE  Inv1'
    BY <1>2 DEF GetBegin, TypeOK, Calls, Call, Objects, Object
  <1>3. ASSUME NEW t \in Thread, NEW x \in Txn, NEW s \in Session,
               NEW n \in 1..MaxTurn, CreateTransaction(t, x, s, n)
        PROVE  Inv1'
    <2>1. /\ x \in Txn /\ owner[x] \subseteq {t}
          /\ state[x] # "ABSENT" => session[x] \in Session
      BY <1>3 DEF CreateTransaction, TypeOK, Calls, Call, Objects, Object
    <2>2. TypeOK'
      BY <1>3, <2>1 DEF CreateTransaction, TypeOK
    <2>3. OthersStay(t) /\ OtherTxnsStay(x)
      BY <1>3, <2>1 DEF CreateTransaction, TypeOK, OthersStay, OtherTxnsStay
    <2>4. Call(t)'
      BY <1>3, <2>1 DEF CreateTransaction, TypeOK, Call, Calls
    <2>5. Object(x)'
      BY <1>3, <2>1 DEF CreateTransaction, TypeOK, Objects, Object, Calls, Call
    <2> QED
      BY <2>1, <2>2, <2>3, <2>4, <2>5, CallsStep, ObjectsStep
  <1>4. ASSUME NEW t \in Thread, NEW x \in Txn, CloseUnentered(t, x)
        PROVE  Inv1'
    <2>1. /\ x \in Txn /\ owner[x] \subseteq {t}
          /\ state[x] # "ABSENT" => session[x] \in Session
      BY <1>4 DEF CloseUnentered, TypeOK, Calls, Call, Objects, Object
    <2>2. TypeOK'
      BY <1>4, <2>1 DEF CloseUnentered, TypeOK
    <2>3. OthersStay(t) /\ OtherTxnsStay(x)
      BY <1>4, <2>1 DEF CloseUnentered, TypeOK, OthersStay, OtherTxnsStay
    <2>4. Call(t)'
      BY <1>4, <2>1 DEF CloseUnentered, TypeOK, Call, Calls
    <2>5. Object(x)'
      BY <1>4, <2>1 DEF CloseUnentered, TypeOK, Objects, Object, Calls, Call
    <2> QED
      BY <2>1, <2>2, <2>3, <2>4, <2>5, CallsStep, ObjectsStep
  <1>5. ASSUME NEW t \in Thread, NEW x \in Txn, EnterClaim(t, x)
        PROVE  Inv1'
    <2>1. /\ x \in Txn /\ owner[x] \subseteq {t}
          /\ state[x] # "ABSENT" => session[x] \in Session
      BY <1>5 DEF EnterClaim, TypeOK, Calls, Call, Objects, Object
    <2>2. TypeOK'
      BY <1>5, <2>1 DEF EnterClaim, TypeOK
    <2>3. OthersStay(t) /\ OtherTxnsStay(x)
      BY <1>5, <2>1 DEF EnterClaim, TypeOK, OthersStay, OtherTxnsStay
    <2>4. Call(t)'
      BY <1>5, <2>1 DEF EnterClaim, TypeOK, Call, Calls, Objects, Object
    <2>5. Object(x)'
      BY <1>5, <2>1 DEF EnterClaim, TypeOK, Objects, Object, Calls, Call
    <2> QED
      BY <2>1, <2>2, <2>3, <2>4, <2>5, CallsStep, ObjectsStep
  <1>6. ASSUME NEW t \in Thread, NEW x \in Txn, NEW next \in Drafts(x),
               CommitClaim(t, x, next)
        PROVE  Inv1'
    <2>1. /\ x \in Txn /\ owner[x] \subseteq {t}
          /\ state[x] # "ABSENT" => session[x] \in Session
      BY <1>6 DEF CommitClaim, TypeOK, Calls, Call, Objects, Object
    <2>2. TypeOK'
      BY <1>6, <2>1, DraftsTyped DEF CommitClaim, TypeOK
    <2>3. OthersStay(t) /\ OtherTxnsStay(x)
      BY <1>6, <2>1 DEF CommitClaim, TypeOK, OthersStay, OtherTxnsStay
    <2>4. Call(t)'
      BY <1>6, <2>1 DEF CommitClaim, TypeOK, Call, Calls
    <2>5. Object(x)'
      BY <1>6, <2>1 DEF CommitClaim, TypeOK, Objects, Object, Calls, Call
    <2> QED
      BY <2>1, <2>2, <2>3, <2>4, <2>5, CallsStep, ObjectsStep
  <1>7. ASSUME NEW t \in Thread, NEW x \in Txn, Exit(t, x)
        PROVE  Inv1'
    <2>1. /\ x \in Txn /\ owner[x] \subseteq {t}
          /\ state[x] # "ABSENT" => session[x] \in Session
      BY <1>7 DEF Exit, TypeOK, Calls, Call, Objects, Object
    <2>2. TypeOK'
      BY <1>7, <2>1 DEF Exit, CloseResources, TypeOK
    <2>3. OthersStay(t) /\ OtherTxnsStay(x)
      BY <1>7, <2>1 DEF Exit, CloseResources, TypeOK, OthersStay, OtherTxnsStay
    <2>4. Call(t)'
      BY <1>7, <2>1 DEF Exit, CloseResources, TypeOK, Call, Calls
    <2>5. Object(x)'
      BY <1>7, <2>1 DEF Exit, CloseResources, TypeOK, Objects, Object, Calls, Call
    <2> QED
      BY <2>1, <2>2, <2>3, <2>4, <2>5, CallsStep, ObjectsStep
  <1>8. ASSUME NEW t \in Thread, EnterNested(t)
        PROVE  Inv1'
    <2>1. /\ doing[t] \in Txn /\ owner[doing[t]] = {t} /\ session[doing[t]] \in Session
          /\ state[doing[t]] = "ENTERING"
      BY <1>8 DEF EnterNested, TypeOK, Calls, Call, Objects, Object
    <2>2. TypeOK'
      BY <1>8, <2>1 DEF EnterNested, TypeOK
    <2>3. OthersStay(t) /\ OtherTxnsStay(doing[t])
      BY <1>8, <2>1 DEF EnterNested, TypeOK, OthersStay, OtherTxnsStay
    <2>4. Call(t)'
      BY <1>8, <2>1 DEF EnterNested, TypeOK, Call, Calls
    <2>5. \A x \in Txn : x = doing[t] => Object(x)'
      BY <1>8, <2>1 DEF EnterNested, TypeOK, Objects, Object, Calls, Call
    <2> QED
      BY <2>1, <2>2, <2>3, <2>4, <2>5, CallsStep, ObjectsStep
  <1>9. ASSUME NEW t \in Thread, EnterRegister(t)
        PROVE  Inv1'
    <2>1. /\ doing[t] \in Txn /\ owner[doing[t]] = {t} /\ session[doing[t]] \in Session
          /\ state[doing[t]] = "ENTERING"
      BY <1>9 DEF EnterRegister, TypeOK, Calls, Call, Objects, Object
    <2>2. TypeOK'
      BY <1>9, <2>1 DEF EnterRegister, TypeOK
    <2>3. OthersStay(t) /\ OtherTxnsStay(doing[t])
      BY <1>9, <2>1 DEF EnterRegister, TypeOK, OthersStay, OtherTxnsStay
    <2>4. Call(t)'
      BY <1>9, <2>1 DEF EnterRegister, TypeOK, Call, Calls
    <2>5. \A x \in Txn : x = doing[t] => Object(x)'
      BY <1>9, <2>1 DEF EnterRegister, TypeOK, Objects, Object, Calls, Call
    <2> QED
      BY <2>1, <2>2, <2>3, <2>4, <2>5, CallsStep, ObjectsStep
  <1>10. ASSUME NEW t \in Thread, EnterAcquire(t)
        PROVE  Inv1'
    <2>1. /\ doing[t] \in Txn /\ owner[doing[t]] = {t} /\ session[doing[t]] \in Session
          /\ state[doing[t]] = "ENTERING"
      BY <1>10 DEF EnterAcquire, TypeOK, Calls, Call, Objects, Object
    <2>2. TypeOK'
      BY <1>10, <2>1 DEF EnterAcquire, TypeOK
    <2>3. OthersStay(t) /\ OtherTxnsStay(doing[t])
      BY <1>10, <2>1 DEF EnterAcquire, TypeOK, OthersStay, OtherTxnsStay
    <2>4. Call(t)'
      BY <1>10, <2>1 DEF EnterAcquire, TypeOK, Call, Calls
    <2>5. \A x \in Txn : x = doing[t] => Object(x)'
      BY <1>10, <2>1 DEF EnterAcquire, TypeOK, Objects, Object, Calls, Call
    <2> QED
      BY <2>1, <2>2, <2>3, <2>4, <2>5, CallsStep, ObjectsStep
  <1>20. ASSUME NEW t \in Thread, EnterNote(t)
        PROVE  Inv1'
    <2>1. /\ doing[t] \in Txn /\ owner[doing[t]] = {t} /\ session[doing[t]] \in Session
          /\ state[doing[t]] = "ENTERING"
      BY <1>20 DEF EnterNote, TypeOK, Calls, Call, Objects, Object
    <2>2. TypeOK'
      BY <1>20, <2>1 DEF EnterNote, TypeOK
    <2>3. OthersStay(t) /\ OtherTxnsStay(doing[t])
      BY <1>20, <2>1 DEF EnterNote, TypeOK, OthersStay, OtherTxnsStay
    <2>4. Call(t)'
      BY <1>20, <2>1 DEF EnterNote, TypeOK, Call, Calls
    <2>5. \A x \in Txn : x = doing[t] => Object(x)'
      BY <1>20, <2>1 DEF EnterNote, TypeOK, Objects, Object, Calls, Call
    <2> QED
      BY <2>1, <2>2, <2>3, <2>4, <2>5, CallsStep, ObjectsStep
  <1>11. ASSUME NEW t \in Thread, EnterAdmit(t) \/ EnterAdmitInterrupted(t)
        PROVE  Inv1'
    <2>0. /\ Admit(t)
          /\ stranded' = stranded \/ stranded' = stranded \cup {doing[t]}
      BY <1>11 DEF EnterAdmit, EnterAdmitInterrupted
    <2>1. /\ doing[t] \in Txn /\ owner[doing[t]] = {t} /\ session[doing[t]] \in Session
          /\ state[doing[t]] = "ENTERING"
      BY <2>0 DEF Admit, TypeOK, Calls, Call, Objects, Object
    <2>2. TypeOK'
      BY <2>0, <2>1 DEF Admit, TypeOK
    <2>3. OthersStay(t) /\ OtherTxnsStay(doing[t])
      BY <2>0, <2>1 DEF Admit, TypeOK, OthersStay, OtherTxnsStay
    <2>4. Call(t)'
      BY <2>0, <2>1 DEF Admit, TypeOK, Call, Calls
    <2>5. \A x \in Txn : x = doing[t] => Object(x)'
      BY <2>0, <2>1 DEF Admit, TypeOK, Objects, Object, Calls, Call
    <2> QED
      BY <2>1, <2>2, <2>3, <2>4, <2>5, CallsStep, ObjectsStep
  <1>12. ASSUME NEW t \in Thread, EnterReject(t)
        PROVE  Inv1'
    <2>1. /\ doing[t] \in Txn /\ owner[doing[t]] = {t} /\ session[doing[t]] \in Session
          /\ state[doing[t]] = "ENTERING"
      BY <1>12 DEF EnterReject, TypeOK, Calls, Call, Objects, Object
    <2>2. TypeOK'
      BY <1>12, <2>1 DEF EnterReject, CloseResources, TypeOK
    <2>3. OthersStay(t) /\ OtherTxnsStay(doing[t])
      BY <1>12, <2>1 DEF EnterReject, CloseResources, TypeOK, OthersStay, OtherTxnsStay
    <2>4. Call(t)'
      BY <1>12, <2>1 DEF EnterReject, CloseResources, TypeOK, Call, Calls
    <2>5. \A x \in Txn : x = doing[t] => Object(x)'
      BY <1>12, <2>1 DEF EnterReject, CloseResources, TypeOK, Objects, Object, Calls, Call
    <2> QED
      BY <2>1, <2>2, <2>3, <2>4, <2>5, CallsStep, ObjectsStep
  <1>13. ASSUME NEW t \in Thread, EnterInterrupted(t)
        PROVE  Inv1'
    <2>1. /\ doing[t] \in Txn /\ owner[doing[t]] = {t} /\ session[doing[t]] \in Session
          /\ state[doing[t]] = "ENTERING"
      BY <1>13 DEF EnterInterrupted, TypeOK, Calls, Call, Objects, Object
    <2>2. TypeOK'
      BY <1>13, <2>1 DEF EnterInterrupted, CloseResources, TypeOK
    <2>3. OthersStay(t) /\ OtherTxnsStay(doing[t])
      BY <1>13, <2>1 DEF EnterInterrupted, CloseResources, TypeOK, OthersStay, OtherTxnsStay
    <2>4. Call(t)'
      BY <1>13, <2>1 DEF EnterInterrupted, CloseResources, TypeOK, Call, Calls
    <2>5. \A x \in Txn : x = doing[t] => Object(x)'
      BY <1>13, <2>1 DEF EnterInterrupted, CloseResources, TypeOK, Objects, Object, Calls, Call
    <2> QED
      BY <2>1, <2>2, <2>3, <2>4, <2>5, CallsStep, ObjectsStep
  <1>14. ASSUME NEW t \in Thread, CommitValidate(t)
        PROVE  Inv1'
    <2>1. /\ doing[t] \in Txn /\ owner[doing[t]] = {t} /\ session[doing[t]] \in Session
          /\ state[doing[t]] = "ACTIVE"
      BY <1>14 DEF CommitValidate, TypeOK, Calls, Call, Objects, Object
    <2>2. TypeOK'
      BY <1>14, <2>1 DEF CommitValidate, TypeOK
    <2>3. OthersStay(t) /\ OtherTxnsStay(doing[t])
      BY <1>14, <2>1 DEF CommitValidate, TypeOK, OthersStay, OtherTxnsStay
    <2>4. Call(t)'
      BY <1>14, <2>1 DEF CommitValidate, TypeOK, Call, Calls
    <2>5. \A x \in Txn : x = doing[t] => Object(x)'
      BY <1>14, <2>1 DEF CommitValidate, TypeOK, Objects, Object, Calls, Call
    <2> QED
      BY <2>1, <2>2, <2>3, <2>4, <2>5, CallsStep, ObjectsStep
  <1>15. ASSUME NEW t \in Thread, NEW o \in {"COMMITTED", "FAILED"}, Swap(t, o)
        PROVE  Inv1'
    <2>1. /\ doing[t] \in Txn /\ owner[doing[t]] = {t} /\ session[doing[t]] \in Session
          /\ state[doing[t]] = "ACTIVE"
      BY <1>15 DEF Swap, TypeOK, Calls, Call, Objects, Object
    <2>2. TypeOK'
      BY <1>15, <2>1 DEF Swap, TypeOK
    <2>3. OthersStay(t) /\ OtherTxnsStay(doing[t])
      BY <1>15, <2>1 DEF Swap, TypeOK, OthersStay, OtherTxnsStay
    <2>4. Call(t)'
      BY <1>15, <2>1 DEF Swap, TypeOK, Call, Calls
    <2>5. \A x \in Txn : x = doing[t] => Object(x)'
      BY <1>15, <2>1 DEF Swap, TypeOK, Objects, Object, Calls, Call
    <2> QED
      BY <2>1, <2>2, <2>3, <2>4, <2>5, CallsStep, ObjectsStep
  <1>16. ASSUME NEW t \in Thread, CommitReject(t) \/ CommitInterrupted(t)
        PROVE  Inv1'
    <2>1. /\ doing[t] \in Txn /\ owner[doing[t]] = {t} /\ session[doing[t]] \in Session
          /\ state[doing[t]] = "ACTIVE"
      BY <1>16 DEF CommitReject, CommitInterrupted, CommitFails, TypeOK, Calls, Call, Objects, Object
    <2>2. TypeOK'
      <3>1. CommitFails(t)
        BY <1>16 DEF CommitReject, CommitInterrupted
      <3> QED
        BY <2>1, <3>1 DEF CommitFails, TypeOK
    <2>3. OthersStay(t) /\ OtherTxnsStay(doing[t])
      BY <1>16, <2>1 DEF CommitReject, CommitInterrupted, CommitFails, TypeOK, OthersStay, OtherTxnsStay
    <2>4. Call(t)'
      BY <1>16, <2>1 DEF CommitReject, CommitInterrupted, CommitFails, TypeOK, Call, Calls
    <2>5. \A x \in Txn : x = doing[t] => Object(x)'
      BY <1>16, <2>1 DEF CommitReject, CommitInterrupted, CommitFails, TypeOK, Objects, Object, Calls, Call
    <2> QED
      BY <2>1, <2>2, <2>3, <2>4, <2>5, CallsStep, ObjectsStep
  <1>17. ASSUME NEW t \in Thread, GetAcquire(t)
         PROVE  Inv1'
    BY <1>17 DEF GetAcquire, TypeOK, Calls, Call, Objects, Object
  <1>18. ASSUME NEW t \in Thread, GetReturn(t)
         PROVE  Inv1'
    BY <1>18 DEF GetReturn, TypeOK, Calls, Call, Objects, Object
  <1>19. CASE UNCHANGED vars
    BY <1>19 DEF vars, TypeOK, Calls, Call, Objects, Object
  <1> QED
    BY <1>1, <1>2, <1>3, <1>4, <1>5, <1>6, <1>7, <1>8, <1>9, <1>10, <1>11, <1>12, <1>13, <1>14, <1>15, <1>16, <1>17, <1>18, <1>19, <1>20
    DEF Next, Enter, Commit, CommitSwap, CommitSwapInterrupted, Get

\* Every field keeps its type in every reachable state.
THEOREM TypeCorrect == Spec => []TypeOK
  <1>1. Spec => []Inv1
    BY TypeInit, TypeStep, PTL DEF Spec
  <1> QED
    BY <1>1, PTL DEF Inv1

-----------------------------------------------------------------------------
(* The entry locks and the active tokens.                                  *)

\* The active token of a session is that of a transaction inside its turn,
\* and every transaction inside its turn has it.
Tokens ==
    /\ \A s \in Session :
          activeToken[s] # NoTxn => /\ state[activeToken[s]] \in InTurn
                                    /\ session[activeToken[s]] = s
    /\ \A x \in Txn : state[x] \in InTurn => activeToken[session[x]] = x

Inv2 == Inv1 /\ LockDiscipline /\ Tokens

ReadersStay == \A t \in Thread, s \in Session : Reads(t, s)' <=> Reads(t, s)

\* No thread goes to or leaves the place between taking the lock and noting
\* it.
AcquiredStay == \A t \in Thread :
                   at[t] = "acquired" \/ at'[t] = "acquired" =>
                      at'[t] = at[t] /\ doing'[t] = doing[t]

LEMMA UnnotedStays ==
  ASSUME AcquiredStay, NEW x \in Txn
  PROVE  Unnoted(x)' <=> Unnoted(x)
  BY DEF Unnoted, AcquiredStay

\* A transaction whose lock is held and not noted is being entered.
LEMMA UnnotedEntering ==
  ASSUME Inv1, NEW x \in Txn, Unnoted(x)
  PROVE  /\ state[x] = "ENTERING" /\ ~lockAcquired[x]
         /\ x \notin stranded
  BY DEF Unnoted, Inv1, Calls, Call, Objects, Object, Entering, InTurn

\* Thread t leaves that place: its transaction is no longer unnoted.
LEMMA UnnotedEnds ==
  ASSUME Inv1, NEW t \in Thread, at[t] = "acquired", at'[t] # "acquired",
         \A u \in Thread \ {t} : at'[u] = at[u] /\ doing'[u] = doing[u]
  PROVE  /\ Unnoted(doing[t])
         /\ \A y \in Txn : Unnoted(y)' <=> Unnoted(y) /\ y # doing[t]
  <1>1. \A u \in Thread \ {t} : at[u] = "acquired" => doing[u] # doing[t]
    BY DEF Inv1, Calls, Call, Entering
  <1>2. ASSUME NEW y \in Txn
        PROVE  Unnoted(y)' <=> Unnoted(y) /\ y # doing[t]
    <2>1. Unnoted(y)' <=> \E u \in Thread \ {t} :
                             at[u] = "acquired" /\ doing[u] = y
      BY DEF Unnoted
    <2>2. Unnoted(y) <=> \/ y = doing[t]
                         \/ \E u \in Thread \ {t} :
                               at[u] = "acquired" /\ doing[u] = y
      BY DEF Unnoted
    <2> QED
      BY <1>1, <2>1, <2>2
  <1> QED
    BY <1>2 DEF Unnoted

\* A step that touches no lock keeps the locks' discipline.
LEMMA LocksQuiet ==
  ASSUME Inv2, ReadersStay, AcquiredStay, lock' = lock,
         lockAcquired' = lockAcquired, stranded' = stranded,
         \A x \in Txn : state[x] # "ABSENT" => session'[x] = session[x]
  PROVE  LockDiscipline'
  <1>1. ASSUME NEW x \in Txn, NEW s \in Session
        PROVE  Holds(x, s)' <=> Holds(x, s)
    <2>1. Unnoted(x)' <=> Unnoted(x)
      BY UnnotedStays
    <2>2. lockAcquired[x] \/ Unnoted(x) \/ x \in stranded =>
             state[x] # "ABSENT"
      BY UnnotedEntering DEF Inv2, Inv1, Objects, Object, InTurn
    <2> HIDE DEF Unnoted
    <2> QED
      BY <2>1, <2>2 DEF Holds
  <1> HIDE DEF Holds, Reads
  <1> QED
    BY <1>1 DEF LockDiscipline, ReadersStay, Inv2

\* _close_resources frees the lock exactly if its transaction held it, when
\* that is noted.
LEMMA LocksClosed ==
  ASSUME Inv2, NEW t \in Thread, NEW x \in Txn, session[x] \in Session,
         CloseResources(t, x), session' = session, ReadersStay, AcquiredStay,
         stranded' = stranded \ {x}, ~Unnoted(x), state[x] # "CLOSED"
  PROVE  LockDiscipline'
  <1>1. x \in stranded => lockAcquired[x]
    BY DEF Inv2, Inv1, Objects, Object, InTurn
  <1>2. \A y \in Txn : Unnoted(y)' <=> Unnoted(y)
    BY UnnotedStays
  <1> HIDE DEF Unnoted
  <1>3. \A y \in Txn, s \in Session :
           Holds(y, s)' <=> Holds(y, s) /\ y # x
    BY <1>2 DEF Holds, CloseResources, Inv2, Inv1, TypeOK
  <1>4. \A s \in Session : lock'[s] <=> lock[s] /\ ~Holds(x, s)
    BY <1>1 DEF Holds, CloseResources, Inv2, Inv1, TypeOK
  <1> HIDE DEF Holds, Reads
  <1> QED
    BY <1>3, <1>4 DEF LockDiscipline, ReadersStay, Inv2

\* A step after which the same transactions hold the same locks.
LEMMA LocksKept ==
  ASSUME Inv2, ReadersStay, lock' = lock, session' = session,
         \A x \in Txn : /\ lockAcquired[x] \/ Unnoted(x) \/ x \in stranded
                        <=> (lockAcquired[x] \/ Unnoted(x) \/ x \in stranded)'
  PROVE  LockDiscipline'
  <1>1. \A x \in Txn, s \in Session : Holds(x, s)' <=> Holds(x, s)
    BY DEF Holds
  <1> HIDE DEF Holds, Reads
  <1> QED
    BY <1>1 DEF LockDiscipline, ReadersStay, Inv2

\* ... and clears the active token exactly if it is its own.
LEMMA TokensClosed ==
  ASSUME Inv2, NEW t \in Thread, NEW x \in Txn, session[x] \in Session,
         CloseResources(t, x), session' = session
  PROVE  Tokens'
  BY SessionStoreConstants
  DEF CloseResources, Inv2, Inv1, TypeOK, Tokens, InTurn

\* A step that gives and takes no token keeps the tokens' discipline.
LEMMA TokensQuiet ==
  ASSUME Inv2, activeToken' = activeToken,
         \A x \in Txn : \/ /\ state'[x] = state[x]
                           /\ state[x] # "ABSENT" => session'[x] = session[x]
                        \/ /\ state[x] \in InTurn /\ state'[x] \in InTurn
                           /\ session'[x] = session[x]
                        \/ /\ state[x] \notin InTurn /\ state'[x] \notin InTurn
  PROVE  Tokens'
  <1> USE SessionStoreConstants DEF Inv2, Inv1, TypeOK, Tokens
  <1>1. ASSUME NEW s \in Session, activeToken'[s] # NoTxn
        PROVE  /\ state'[activeToken'[s]] \in InTurn
               /\ session'[activeToken'[s]] = s
    <2>1. activeToken[s] \in Txn /\ activeToken'[s] = activeToken[s]
      BY <1>1
    <2>2. state[activeToken[s]] \in InTurn /\ session[activeToken[s]] = s
      BY <1>1
    <2> QED
      BY <2>1, <2>2 DEF InTurn
  <1>2. ASSUME NEW x \in Txn, state'[x] \in InTurn
        PROVE  activeToken'[session'[x]] = x
    <2>1. state[x] \in InTurn /\ session'[x] = session[x]
      BY <1>2 DEF InTurn
    <2> QED
      BY <2>1
  <1> QED
    BY <1>1, <1>2

LEMMA LockInit == Init => Inv2
  BY TypeInit, SessionStoreConstants
  DEF Init, Inv2, LockDiscipline, Holds, Unnoted, Reads, Tokens, InTurn

LEMMA LockStep ==
  ASSUME Inv2, [Next]_vars
  PROVE  Inv2'
  <1> USE SessionStoreConstants DEF entryVars, txnVars, threadVars, Return, Goto
  <1>0. Inv1'
    BY TypeStep DEF Inv2
  <1>1. ASSUME NEW t \in Thread, NEW s \in Session, Reset(t, s)
        PROVE  LockDiscipline' /\ Tokens'
    <2>1. LockDiscipline'
      BY <1>1, LocksQuiet
      DEF Reset, ReadersStay, AcquiredStay, Reads, Inv2, Inv1, TypeOK, Calls,
          Call, Objects, Object, Entering, Committing
    <2>2. Tokens'
      BY <1>1, TokensQuiet
      DEF Reset, Inv2, Inv1, TypeOK, Calls, Call, InTurn, Entering, Committing
    <2> QED
      BY <2>1, <2>2
  <1>2. ASSUME NEW t \in Thread, NEW s \in Session, GetBegin(t, s)
        PROVE  LockDiscipline' /\ Tokens'
    <2>1. LockDiscipline'
      BY <1>2, LocksQuiet
      DEF GetBegin, ReadersStay, AcquiredStay, Reads, Inv2, Inv1, TypeOK, Calls,
          Call, Objects, Object, Entering, Committing
    <2>2. Tokens'
      BY <1>2, TokensQuiet
      DEF GetBegin, Inv2, Inv1, TypeOK, Calls, Call, InTurn, Entering, Committing
    <2> QED
      BY <2>1, <2>2
  <1>3. ASSUME NEW t \in Thread, NEW x \in Txn, NEW s \in Session,
               NEW n \in 1..MaxTurn, CreateTransaction(t, x, s, n)
        PROVE  LockDiscipline' /\ Tokens'
    <2>1. LockDiscipline'
      BY <1>3, LocksQuiet
      DEF CreateTransaction, ReadersStay, AcquiredStay, Reads, Inv2, Inv1, TypeOK, Calls,
          Call, Objects, Object, Entering, Committing
    <2>2. Tokens'
      BY <1>3, TokensQuiet
      DEF CreateTransaction, Inv2, Inv1, TypeOK, Calls, Call, InTurn, Entering, Committing
    <2> QED
      BY <2>1, <2>2
  <1>4. ASSUME NEW t \in Thread, NEW x \in Txn, CloseUnentered(t, x)
        PROVE  LockDiscipline' /\ Tokens'
    <2>1. LockDiscipline'
      BY <1>4, LocksQuiet
      DEF CloseUnentered, ReadersStay, AcquiredStay, Reads, Inv2, Inv1, TypeOK, Calls,
          Call, Objects, Object, Entering, Committing
    <2>2. Tokens'
      BY <1>4, TokensQuiet
      DEF CloseUnentered, Inv2, Inv1, TypeOK, Calls, Call, InTurn, Entering, Committing
    <2> QED
      BY <2>1, <2>2
  <1>5. ASSUME NEW t \in Thread, NEW x \in Txn, EnterClaim(t, x)
        PROVE  LockDiscipline' /\ Tokens'
    <2>1. LockDiscipline'
      BY <1>5, LocksQuiet
      DEF EnterClaim, ReadersStay, AcquiredStay, Reads, Inv2, Inv1, TypeOK, Calls,
          Call, Objects, Object, Entering, Committing
    <2>2. Tokens'
      BY <1>5, TokensQuiet
      DEF EnterClaim, Inv2, Inv1, TypeOK, Calls, Call, InTurn, Entering, Committing
    <2> QED
      BY <2>1, <2>2
  <1>6. ASSUME NEW t \in Thread, NEW x \in Txn, NEW next \in Drafts(x),
               CommitClaim(t, x, next)
        PROVE  LockDiscipline' /\ Tokens'
    <2>1. LockDiscipline'
      BY <1>6, LocksQuiet
      DEF CommitClaim, ReadersStay, AcquiredStay, Reads, Inv2, Inv1, TypeOK, Calls,
          Call, Objects, Object, Entering, Committing
    <2>2. Tokens'
      BY <1>6, TokensQuiet
      DEF CommitClaim, Inv2, Inv1, TypeOK, Calls, Call, InTurn, Entering, Committing
    <2> QED
      BY <2>1, <2>2
  <1>7. ASSUME NEW t \in Thread, EnterNested(t)
        PROVE  LockDiscipline' /\ Tokens'
    <2>1. LockDiscipline'
      BY <1>7, LocksQuiet
      DEF EnterNested, ReadersStay, AcquiredStay, Reads, Inv2, Inv1, TypeOK, Calls,
          Call, Objects, Object, Entering, Committing
    <2>2. Tokens'
      BY <1>7, TokensQuiet
      DEF EnterNested, Inv2, Inv1, TypeOK, Calls, Call, InTurn, Entering, Committing
    <2> QED
      BY <2>1, <2>2
  <1>8. ASSUME NEW t \in Thread, EnterRegister(t)
        PROVE  LockDiscipline' /\ Tokens'
    <2>1. LockDiscipline'
      BY <1>8, LocksQuiet
      DEF EnterRegister, ReadersStay, AcquiredStay, Reads, Inv2, Inv1, TypeOK, Calls,
          Call, Objects, Object, Entering, Committing
    <2>2. Tokens'
      BY <1>8, TokensQuiet
      DEF EnterRegister, Inv2, Inv1, TypeOK, Calls, Call, InTurn, Entering, Committing
    <2> QED
      BY <2>1, <2>2
  <1>9. ASSUME NEW t \in Thread, CommitValidate(t)
        PROVE  LockDiscipline' /\ Tokens'
    <2>1. LockDiscipline'
      BY <1>9, LocksQuiet
      DEF CommitValidate, ReadersStay, AcquiredStay, Reads, Inv2, Inv1, TypeOK, Calls,
          Call, Objects, Object, Entering, Committing
    <2>2. Tokens'
      BY <1>9, TokensQuiet
      DEF CommitValidate, Inv2, Inv1, TypeOK, Calls, Call, InTurn, Entering, Committing
    <2> QED
      BY <2>1, <2>2
  <1>10. ASSUME NEW t \in Thread, NEW o \in {"COMMITTED", "FAILED"}, Swap(t, o)
        PROVE  LockDiscipline' /\ Tokens'
    <2>1. LockDiscipline'
      BY <1>10, LocksQuiet
      DEF Swap, ReadersStay, AcquiredStay, Reads, Inv2, Inv1, TypeOK, Calls,
          Call, Objects, Object, Entering, Committing
    <2>2. Tokens'
      BY <1>10, TokensQuiet
      DEF Swap, Inv2, Inv1, TypeOK, Calls, Call, InTurn, Entering, Committing
    <2> QED
      BY <2>1, <2>2
  <1>11. ASSUME NEW t \in Thread, CommitReject(t) \/ CommitInterrupted(t)
        PROVE  LockDiscipline' /\ Tokens'
    <2>1. LockDiscipline'
      BY <1>11, LocksQuiet
      DEF CommitReject, CommitInterrupted, CommitFails, ReadersStay, AcquiredStay, Reads, Inv2, Inv1, TypeOK, Calls,
          Call, Objects, Object, Entering, Committing
    <2>2. Tokens'
      BY <1>11, TokensQuiet
      DEF CommitReject, CommitInterrupted, CommitFails, Inv2, Inv1, TypeOK, Calls, Call, InTurn, Entering, Committing
    <2> QED
      BY <2>1, <2>2
  <1>12. ASSUME NEW t \in Thread, NEW x \in Txn, Exit(t, x)
        PROVE  LockDiscipline' /\ Tokens'
    <2>1. /\ session[x] \in Session /\ session' = session
          /\ CloseResources(t, x) /\ ReadersStay /\ AcquiredStay
          /\ stranded' = stranded \ {x} /\ state[x] # "CLOSED"
          /\ state[x] # "ENTERING"
      BY <1>12 DEF Exit, Inv2, Inv1, TypeOK, Objects, Object, ReadersStay,
                   Reads, AcquiredStay
    <2>2. ~Unnoted(x)
      BY <2>1, UnnotedEntering DEF Inv2
    <2> QED
      BY <2>1, <2>2, LocksClosed, TokensClosed
  <1>13. ASSUME NEW t \in Thread, \/ EnterReject(t)
                                  \/ EnterInterrupted(t) /\ at[t] # "acquired"
        PROVE  LockDiscipline' /\ Tokens'
    <2>1. /\ doing[t] \in Txn /\ session[doing[t]] \in Session
          /\ session' = session /\ CloseResources(t, doing[t])
          /\ ReadersStay /\ AcquiredStay
      BY <1>13 DEF EnterReject, EnterInterrupted, Inv2, Inv1, TypeOK, Calls,
                   Call, Objects, Object, Entering, ReadersStay, Reads,
                   AcquiredStay
    <2>2. /\ stranded' = stranded /\ state[doing[t]] = "ENTERING"
          /\ at[t] \in Entering \ {"acquired"}
      BY <1>13 DEF EnterReject, EnterInterrupted, Inv2, Inv1, Calls, Call,
                   Entering
    <2>3. doing[t] \notin stranded
      BY <2>1, <2>2 DEF Inv2, Inv1, Objects, Object, InTurn
    <2>4. ~Unnoted(doing[t])
      BY <2>2 DEF Unnoted, Inv2, Inv1, Calls, Call, Entering
    <2>5. stranded' = stranded \ {doing[t]}
      BY <2>2, <2>3
    <2> QED
      BY <2>1, <2>2, <2>4, <2>5, LocksClosed, TokensClosed
  <1>14. ASSUME NEW t \in Thread, EnterInterrupted(t), at[t] = "acquired"
        PROVE  LockDiscipline' /\ Tokens'
    <2>1. /\ doing[t] \in Txn /\ session[doing[t]] \in Session
          /\ session' = session /\ CloseResources(t, doing[t]) /\ ReadersStay
          /\ ~lockAcquired[doing[t]] /\ owner[doing[t]] = {t}
          /\ stranded' = stranded \cup {doing[t]}
      BY <1>14 DEF EnterInterrupted, Inv2, Inv1, TypeOK, Calls, Call, Objects,
                   Object, Entering, ReadersStay, Reads
    <2>2. lock' = lock /\ lockAcquired' = lockAcquired
      BY <2>1 DEF CloseResources, Inv2, Inv1, TypeOK
    <2>3. \A y \in Txn : Unnoted(y)' <=> Unnoted(y) /\ y # doing[t]
      <3>1. /\ at[t] = "acquired" /\ at'[t] # "acquired"
            /\ \A u \in Thread \ {t} : at'[u] = at[u] /\ doing'[u] = doing[u]
        BY <1>14 DEF EnterInterrupted, Inv2, Inv1, TypeOK
      <3> QED
        BY <3>1, UnnotedEnds DEF Inv2
    <2>4. Unnoted(doing[t])
      BY <1>14 DEF Unnoted
    <2>5. LockDiscipline'
      <3> HIDE DEF Unnoted
      <3> QED
        BY <2>1, <2>2, <2>3, <2>4, LocksKept
    <2> QED
      BY <2>1, <2>5, TokensClosed
  <1>15. ASSUME NEW t \in Thread, EnterAcquire(t)
        PROVE  LockDiscipline' /\ Tokens'
    <2>1. doing[t] \in Txn /\ session[doing[t]] \in Session
      BY <1>15 DEF EnterAcquire, Inv2, Inv1, TypeOK, Calls, Call, Objects,
                  Object, Entering
    <2>2. Tokens'
      BY <1>15, TokensQuiet DEF EnterAcquire
    <2>3. \A y \in Txn : Unnoted(y)' <=> Unnoted(y) \/ y = doing[t]
      BY <1>15 DEF EnterAcquire, Unnoted, Inv2, Inv1, TypeOK
    <2>8. /\ session' = session /\ lockAcquired' = lockAcquired
          /\ stranded' = stranded
      BY <1>15 DEF EnterAcquire
    <2>4. \A y \in Txn, s \in Session :
             Holds(y, s)' <=> Holds(y, s) \/ (y = doing[t] /\ s = session[y])
      <3> HIDE DEF Unnoted
      <3> QED
        BY <2>3, <2>8 DEF Holds
    <2>5. \A s \in Session : lock'[s] <=> lock[s] \/ s = session[doing[t]]
      BY <1>15, <2>1 DEF EnterAcquire, Inv2, Inv1, TypeOK
    <2>6. ReadersStay /\ ~lock[session[doing[t]]]
      BY <1>15 DEF EnterAcquire, ReadersStay, Reads, Inv2, Inv1, TypeOK
    <2>7. LockDiscipline'
      <3> HIDE DEF Holds, Reads
      <3> QED
        BY <2>1, <2>4, <2>5, <2>6 DEF LockDiscipline, ReadersStay, Inv2
    <2> QED
      BY <2>2, <2>7
  <1>20. ASSUME NEW t \in Thread, EnterNote(t)
        PROVE  LockDiscipline' /\ Tokens'
    <2>1. doing[t] \in Txn /\ Unnoted(doing[t]) /\ ReadersStay
      BY <1>20 DEF EnterNote, Unnoted, Inv2, Inv1, TypeOK, Calls, Call,
                   Entering, ReadersStay, Reads
    <2>2. Tokens'
      BY <1>20, TokensQuiet DEF EnterNote
    <2>3. \A y \in Txn : Unnoted(y)' <=> Unnoted(y) /\ y # doing[t]
      <3>1. /\ at[t] = "acquired" /\ at'[t] # "acquired"
            /\ \A u \in Thread \ {t} : at'[u] = at[u] /\ doing'[u] = doing[u]
        BY <1>20 DEF EnterNote, Inv2, Inv1, TypeOK
      <3> QED
        BY <3>1, UnnotedEnds DEF Inv2
    <2>4. \A y \in Txn : lockAcquired'[y] <=> lockAcquired[y] \/ y = doing[t]
      BY <1>20, <2>1 DEF EnterNote, Inv2, Inv1, TypeOK
    <2>5. lock' = lock /\ session' = session /\ stranded' = stranded
      BY <1>20 DEF EnterNote
    <2>6. LockDiscipline'
      <3>1. \A y \in Txn : lockAcquired[y] \/ Unnoted(y) \/ y \in stranded
               <=> (lockAcquired[y] \/ Unnoted(y) \/ y \in stranded)'
        <4> HIDE DEF Unnoted
        <4> QED
          BY <2>1, <2>3, <2>4, <2>5
      <3> QED
        BY <2>1, <2>5, <3>1, LocksKept
    <2> QED
      BY <2>2, <2>6
  <1>16. ASSUME NEW t \in Thread, EnterAdmit(t) \/ EnterAdmitInterrupted(t)
        PROVE  LockDiscipline' /\ Tokens'
    <2>1. /\ Admit(t)
          /\ stranded' = stranded \/ stranded' = stranded \cup {doing[t]}
      BY <1>16 DEF EnterAdmit, EnterAdmitInterrupted
    <2>2. /\ doing[t] \in Txn /\ session[doing[t]] \in Session
          /\ state[doing[t]] = "ENTERING" /\ lockAcquired[doing[t]]
      BY <2>1 DEF Admit, Inv2, Inv1, TypeOK, Calls, Call, Objects,
                  Object, Entering
    <2>3. Tokens'
      BY <2>1, <2>2
      DEF Admit, Admissible, Inv2, Inv1, TypeOK, Tokens, InTurn
    <2>4. /\ AcquiredStay /\ ReadersStay /\ lock' = lock
          /\ session' = session /\ lockAcquired' = lockAcquired
      BY <2>1 DEF Admit, AcquiredStay, ReadersStay, Reads, Inv2, Inv1, TypeOK
    <2>5. LockDiscipline'
      <3>1. \A y \in Txn : Unnoted(y)' <=> Unnoted(y)
        BY <2>4, UnnotedStays
      <3> HIDE DEF Unnoted
      <3> QED
        BY <2>1, <2>2, <2>4, <3>1, LocksKept
    <2> QED
      BY <2>3, <2>5
  <1>17. ASSUME NEW t \in Thread, GetAcquire(t)
        PROVE  LockDiscipline' /\ Tokens'
    <2>1. asking[t] \in Session /\ ~lock[asking[t]]
      BY <1>17 DEF GetAcquire, Inv2, Inv1, TypeOK, Calls, Call
    <2>2. Tokens'
      BY <1>17, TokensQuiet DEF GetAcquire
    <2>3. \A y \in Txn, s \in Session : Holds(y, s)' <=> Holds(y, s)
      BY <1>17 DEF GetAcquire, Holds, Unnoted, Inv2, Inv1, TypeOK
    <2>4. \A s \in Session : lock'[s] <=> lock[s] \/ s = asking[t]
      BY <1>17, <2>1 DEF GetAcquire, Inv2, Inv1, TypeOK
    <2>5. \A u \in Thread, s \in Session :
             Reads(u, s)' <=> Reads(u, s) \/ (u = t /\ s = asking[t])
      BY <1>17 DEF GetAcquire, Reads, Inv2, Inv1, TypeOK
    <2>6. LockDiscipline'
      <3> HIDE DEF Holds, Reads
      <3> QED
        BY <2>1, <2>3, <2>4, <2>5 DEF LockDiscipline, Inv2
    <2> QED
      BY <2>2, <2>6
  <1>18. ASSUME NEW t \in Thread, GetReturn(t)
        PROVE  LockDiscipline' /\ Tokens'
    <2>1. asking[t] \in Session /\ Reads(t, asking[t])
      BY <1>18 DEF GetReturn, Reads, Inv2, Inv1, TypeOK, Calls, Call
    <2>2. Tokens'
      BY <1>18, TokensQuiet DEF GetReturn
    <2>3. \A y \in Txn, s \in Session : Holds(y, s)' <=> Holds(y, s)
      BY <1>18 DEF GetReturn, Holds, Unnoted, Inv2, Inv1, TypeOK
    <2>4. \A s \in Session : lock'[s] <=> lock[s] /\ s # asking[t]
      BY <1>18, <2>1 DEF GetReturn, Inv2, Inv1, TypeOK
    <2>5. \A u \in Thread, s \in Session :
             Reads(u, s)' <=> Reads(u, s) /\ u # t
      BY <1>18 DEF GetReturn, Reads, Inv2, Inv1, TypeOK
    <2>6. \A s \in Session : Reads(t, s) => s = asking[t]
      BY DEF Reads
    <2>7. LockDiscipline'
      <3> HIDE DEF Holds, Reads
      <3> QED
        BY <2>1, <2>3, <2>4, <2>5, <2>6 DEF LockDiscipline, Inv2
    <2> QED
      BY <2>2, <2>7
  <1>19. CASE UNCHANGED vars
    <2>1. LockDiscipline'
      BY <1>19, LocksQuiet DEF vars, ReadersStay, AcquiredStay, Reads
    <2>2. activeToken' = activeToken /\ state' = state /\ session' = session
      BY <1>19 DEF vars
    <2>3. Tokens'
      BY <2>2, TokensQuiet
    <2> QED
      BY <1>0, <2>1, <2>3 DEF Inv2
  <1> QED
    BY <1>0, <1>1, <1>2, <1>3, <1>4, <1>5, <1>6, <1>7, <1>8, <1>9, <1>10,
       <1>11, <1>12, <1>13, <1>14, <1>15, <1>16, <1>17, <1>18, <1>19, <1>20
    DEF Next, Enter, Commit, CommitSwap, CommitSwapInterrupted, Get, Inv2

\* Each session's lock is held by at most one transaction or reader, and
\* free when there is none, whatever interrupts the calls (LockDiscipline
\* says what an interrupted __enter__ can keep).
THEOREM LocksDisciplined == Spec => []LockDiscipline
  <1>1. Spec => []Inv2
    BY LockInit, LockStep, PTL DEF Spec
  <1> QED
    BY <1>1, PTL DEF Inv2

-----------------------------------------------------------------------------
(* What a transaction leaves behind.                                       *)

\* The sessions a thread has registered are those of its engaged
\* transactions, one transaction per session, and a transaction that is
\* being entered has a thread inside its __enter__.
Registered ==
    \A t \in Thread, s \in Session :
       s \in activeSessions[t] <=>
          \E x \in Txn : session[x] = s /\ owner[x] = {t} /\ Engaged(x)
OneEach ==
    \A x, y \in Txn :
       /\ Engaged(x) /\ Engaged(y)
       /\ session[x] = session[y] /\ owner[x] = owner[y]
       => x = y
Inside ==
    \A x \in Txn : state[x] = "ENTERING" =>
       \E t \in Thread : doing[t] = x /\ at[t] \in Entering

Inv4 == Inv2 /\ Registered /\ OneEach /\ Inside

\* Thread t goes one step in a method of transaction x.
StepIn(t, x) ==
    /\ owner[x] \subseteq {t} /\ owner'[x] \subseteq {t}
    /\ OthersStay(t) /\ OtherTxnsStay(x)
    /\ at[t] \in Entering => doing[t] = x
    /\ at'[t] \in Entering => doing'[t] = x
    /\ state'[x] = "ENTERING" => at'[t] \in Entering

LEMMA InsideStep ==
  ASSUME Inv1, Inside, NEW t \in Thread, NEW x \in Txn, StepIn(t, x),
         state'[x] = "ENTERING" => doing'[t] = x
  PROVE  Inside'
  <1> SUFFICES ASSUME NEW y \in Txn, state'[y] = "ENTERING"
               PROVE  \E u \in Thread : doing'[u] = y /\ at'[u] \in Entering
    BY DEF Inside
  <1>1. CASE y = x
    BY <1>1 DEF StepIn
  <1>2. CASE y # x
    <2>1. state[y] = "ENTERING"
      BY <1>2 DEF StepIn, OtherTxnsStay
    <2>2. PICK u \in Thread : doing[u] = y /\ at[u] \in Entering
      BY <2>1 DEF Inside
    <2>3. u # t
      BY <1>2, <2>2 DEF StepIn
    <2> QED
      BY <2>2, <2>3 DEF StepIn, OthersStay
  <1> QED
    BY <1>1, <1>2

\* Such a step changes only whether x is engaged, and that is seen from t.
LEMMA EngagedElsewhere ==
  ASSUME Inv1, Inv1', NEW t \in Thread, NEW x \in Txn, StepIn(t, x)
  PROVE  /\ \A y \in Txn \ {x} : Engaged(y)' <=> Engaged(y)
         /\ Engaged(x) <=> \/ state[x] \in InTurn
                           \/ doing[t] = x /\ at[t] \in {"acquiring", "acquired", "entered"}
         /\ Engaged(x)' <=> \/ state'[x] \in InTurn
                            \/ /\ doing'[t] = x
                               /\ at'[t] \in {"acquiring", "acquired", "entered"}
  <1>1. \A y \in Txn \ {x} : Engaged(y)' <=> Engaged(y)
    <2> SUFFICES ASSUME NEW y \in Txn \ {x}
                 PROVE  Engaged(y)' <=> Engaged(y)
      OBVIOUS
    <2>1. state'[y] = state[y]
      BY DEF StepIn, OtherTxnsStay
    <2>2. \A u \in Thread : /\ doing[u] = y
                            /\ at[u] \in {"acquiring", "acquired", "entered"}
                            => u # t
      BY DEF StepIn, Entering
    <2>3. \A u \in Thread : /\ doing'[u] = y
                            /\ at'[u] \in {"acquiring", "acquired", "entered"}
                            => u # t
      BY DEF StepIn, Entering
    <2> QED
      BY <2>1, <2>2, <2>3 DEF Engaged, StepIn, OthersStay
  <1>2. ASSUME NEW u \in Thread, doing[u] = x,
               at[u] \in {"acquiring", "acquired", "entered"}
        PROVE  u = t
    BY <1>2 DEF Inv1, Calls, Call, Entering, StepIn
  <1>3. ASSUME NEW u \in Thread, doing'[u] = x,
               at'[u] \in {"acquiring", "acquired", "entered"}
        PROVE  u = t
    BY <1>3 DEF Inv1, Calls, Call, Entering, StepIn
  <1> QED
    BY <1>1, <1>2, <1>3 DEF Engaged, InTurn

\* A step that engages and releases no transaction.
LEMMA EngagedQuiet ==
  ASSUME Registered, OneEach, activeSessions' = activeSessions,
         \A y \in Txn : Engaged(y)' <=> Engaged(y),
         \A y \in Txn : Engaged(y) => /\ session'[y] = session[y]
                                      /\ owner'[y] = owner[y]
  PROVE  Registered' /\ OneEach'
  <1> HIDE DEF Engaged
  <1> QED
    BY DEF Registered, OneEach

\* _close_resources releases the one engaged transaction the thread has for
\* the session.
LEMMA EngagedClosed ==
  ASSUME Inv4, NEW t \in Thread, NEW x \in Txn, Engaged(x), owner[x] = {t},
         \A y \in Txn : Engaged(y)' <=> Engaged(y) /\ y # x,
         CloseResources(t, x), session' = session, owner' = owner
  PROVE  Registered' /\ OneEach'
  <1>1. \A u \in Thread, s \in Session :
           s \in activeSessions'[u] <=>
              s \in activeSessions[u] /\ (u = t => s # session[x])
    BY DEF CloseResources, Inv4, Inv2, Inv1, TypeOK
  <1>2. ASSUME NEW u \in Thread, NEW s \in Session
        PROVE  s \in activeSessions'[u] <=>
                  \E y \in Txn : /\ session'[y] = s /\ owner'[y] = {u}
                                 /\ Engaged(y)'
    <2> HIDE DEF Engaged
    <2>1. CASE u = t /\ s = session[x]
      BY <1>1, <2>1 DEF Inv4, OneEach
    <2>2. CASE ~(u = t /\ s = session[x])
      BY <1>1, <2>2 DEF Inv4, Registered
    <2> QED
      BY <2>1, <2>2
  <1>3. OneEach'
    <2> HIDE DEF Engaged
    <2> QED
      BY DEF Inv4, OneEach
  <1> QED
    BY <1>2, <1>3 DEF Registered

LEMMA EngagedInit == Init => Inv4
  BY LockInit
  DEF Init, Inv4, Registered, OneEach, Inside, Engaged

\* A step of t in a method of x that leaves x as engaged as it was.
LEMMA StepQuiet ==
  ASSUME Inv4, Inv1', NEW t \in Thread, NEW x \in Txn, StepIn(t, x),
         state'[x] = "ENTERING" => doing'[t] = x,
         activeSessions' = activeSessions,
         Engaged(x)' <=> Engaged(x),
         Engaged(x) => session'[x] = session[x] /\ owner'[x] = owner[x]
  PROVE  Registered' /\ OneEach' /\ Inside'
  <1>1. Inside'
    BY InsideStep DEF Inv4, Inv2
  <1>2. \A y \in Txn : Engaged(y)' <=> Engaged(y)
    <2> HIDE DEF Engaged
    <2> QED
      BY EngagedElsewhere DEF Inv4, Inv2
  <1>3. \A y \in Txn : Engaged(y) => /\ session'[y] = session[y]
                                     /\ owner'[y] = owner[y]
    <2> HIDE DEF Engaged
    <2> QED
      BY DEF StepIn, OtherTxnsStay
  <1> QED
    BY <1>1, <1>2, <1>3, EngagedQuiet DEF Inv4

\* A step of t in a method of x that ends in _close_resources.
LEMMA StepClosed ==
  ASSUME Inv4, Inv1', NEW t \in Thread, NEW x \in Txn, StepIn(t, x),
         Engaged(x), owner[x] = {t}, at'[t] = "idle",
         CloseResources(t, x), session' = session, owner' = owner
  PROVE  Registered' /\ OneEach' /\ Inside'
  <1>1. state'[x] = "CLOSED"
    BY DEF CloseResources, Inv4, Inv2, Inv1, TypeOK
  <1>2. Inside'
    BY <1>1, InsideStep DEF Inv4, Inv2
  <1>3. ~Engaged(x)'
    BY <1>1, EngagedElsewhere DEF Inv4, Inv2, InTurn
  <1>4. \A y \in Txn : Engaged(y)' <=> Engaged(y) /\ y # x
    <2> HIDE DEF Engaged
    <2> QED
      BY <1>3, EngagedElsewhere DEF Inv4, Inv2
  <1> QED
    BY <1>2, <1>4, EngagedClosed

\* A step that is in no method of a transaction.
LEMMA StepApart ==
  ASSUME Inv4, activeSessions' = activeSessions, doing' = doing,
         state' = state, session' = session, owner' = owner,
         \A t \in Thread : at[t] \in Entering \/ at'[t] \in Entering
                             => at'[t] = at[t]
  PROVE  Registered' /\ OneEach' /\ Inside'
  <1>1. Inside'
    BY DEF Inv4, Inside, Entering
  <1>2. \A y \in Txn : Engaged(y)' <=> Engaged(y)
    BY DEF Engaged, Entering
  <1> QED
    BY <1>1, <1>2, EngagedQuiet DEF Inv4

LEMMA EngagedStep ==
  ASSUME Inv4, [Next]_vars
  PROVE  Inv4'
  <1> USE SessionStoreConstants DEF entryVars, txnVars, threadVars, Return, Goto
  <1>0. Inv2' /\ Inv1'
    BY LockStep DEF Inv4, Inv2
  <1>1. ASSUME NEW t \in Thread, NEW x \in Txn, NEW s \in Session,
               NEW n \in 1..MaxTurn, CreateTransaction(t, x, s, n)
        PROVE  Registered' /\ OneEach' /\ Inside'
    <2>1. /\ x \in Txn /\ StepIn(t, x)
          /\ state'[x] = "ENTERING" => doing'[t] = x
          /\ activeSessions' = activeSessions
      BY <1>1
      DEF CreateTransaction, StepIn, OthersStay, OtherTxnsStay,
          Inv4, Inv2, Inv1, TypeOK, Calls,
              Call, Objects, Object, Entering, Committing, InTurn
    <2>2. Engaged(x)' <=> Engaged(x)
      BY <1>0, <1>1, <2>1, EngagedElsewhere
      DEF CreateTransaction, Inv4, Inv2, Inv1, TypeOK, Calls,
              Call, Objects, Object, Entering, Committing, InTurn
    <2>3. Engaged(x) => /\ session'[x] = session[x]
                        /\ owner'[x] = owner[x]
      BY <1>0, <1>1, <2>1, EngagedElsewhere
      DEF CreateTransaction, Inv4, Inv2, Inv1, TypeOK, Calls,
              Call, Objects, Object, Entering, Committing, InTurn
    <2> QED
      BY <1>0, <2>1, <2>2, <2>3, StepQuiet
  <1>2. ASSUME NEW t \in Thread, NEW x \in Txn, CloseUnentered(t, x)
        PROVE  Registered' /\ OneEach' /\ Inside'
    <2>1. /\ x \in Txn /\ StepIn(t, x)
          /\ state'[x] = "ENTERING" => doing'[t] = x
          /\ activeSessions' = activeSessions
      BY <1>2
      DEF CloseUnentered, StepIn, OthersStay, OtherTxnsStay,
          Inv4, Inv2, Inv1, TypeOK, Calls,
              Call, Objects, Object, Entering, Committing, InTurn
    <2>2. Engaged(x)' <=> Engaged(x)
      BY <1>0, <1>2, <2>1, EngagedElsewhere
      DEF CloseUnentered, Inv4, Inv2, Inv1, TypeOK, Calls,
              Call, Objects, Object, Entering, Committing, InTurn
    <2>3. Engaged(x) => /\ session'[x] = session[x]
                        /\ owner'[x] = owner[x]
      BY <1>0, <1>2, <2>1, EngagedElsewhere
      DEF CloseUnentered, Inv4, Inv2, Inv1, TypeOK, Calls,
              Call, Objects, Object, Entering, Committing, InTurn
    <2> QED
      BY <1>0, <2>1, <2>2, <2>3, StepQuiet
  <1>3. ASSUME NEW t \in Thread, NEW x \in Txn, EnterClaim(t, x)
        PROVE  Registered' /\ OneEach' /\ Inside'
    <2>1. /\ x \in Txn /\ StepIn(t, x)
          /\ state'[x] = "ENTERING" => doing'[t] = x
          /\ activeSessions' = activeSessions
      BY <1>3
      DEF EnterClaim, StepIn, OthersStay, OtherTxnsStay,
          Inv4, Inv2, Inv1, TypeOK, Calls,
              Call, Objects, Object, Entering, Committing, InTurn
    <2>2. Engaged(x)' <=> Engaged(x)
      BY <1>0, <1>3, <2>1, EngagedElsewhere
      DEF EnterClaim, Inv4, Inv2, Inv1, TypeOK, Calls,
              Call, Objects, Object, Entering, Committing, InTurn
    <2>3. Engaged(x) => /\ session'[x] = session[x]
                        /\ owner'[x] = owner[x]
      BY <1>0, <1>3, <2>1, EngagedElsewhere
      DEF EnterClaim, Inv4, Inv2, Inv1, TypeOK, Calls,
              Call, Objects, Object, Entering, Committing, InTurn
    <2> QED
      BY <1>0, <2>1, <2>2, <2>3, StepQuiet
  <1>4. ASSUME NEW t \in Thread, NEW x \in Txn, NEW next \in Drafts(x),
               CommitClaim(t, x, next)
        PROVE  Registered' /\ OneEach' /\ Inside'
    <2>1. /\ x \in Txn /\ StepIn(t, x)
          /\ state'[x] = "ENTERING" => doing'[t] = x
          /\ activeSessions' = activeSessions
      BY <1>4
      DEF CommitClaim, StepIn, OthersStay, OtherTxnsStay,
          Inv4, Inv2, Inv1, TypeOK, Calls,
              Call, Objects, Object, Entering, Committing, InTurn
    <2>2. Engaged(x)' <=> Engaged(x)
      BY <1>0, <1>4, <2>1, EngagedElsewhere
      DEF CommitClaim, Inv4, Inv2, Inv1, TypeOK, Calls,
              Call, Objects, Object, Entering, Committing, InTurn
    <2>3. Engaged(x) => /\ session'[x] = session[x]
                        /\ owner'[x] = owner[x]
      BY <1>0, <1>4, <2>1, EngagedElsewhere
      DEF CommitClaim, Inv4, Inv2, Inv1, TypeOK, Calls,
              Call, Objects, Object, Entering, Committing, InTurn
    <2> QED
      BY <1>0, <2>1, <2>2, <2>3, StepQuiet
  <1>5. ASSUME NEW t \in Thread, EnterNested(t)
        PROVE  Registered' /\ OneEach' /\ Inside'
    <2>0. PICK x \in Txn : x = doing[t]
      BY <1>5 DEF EnterNested, Inv4, Inv2, Inv1, Calls, Call, Entering,
                   Committing
    <2>1. /\ x \in Txn /\ StepIn(t, x)
          /\ state'[x] = "ENTERING" => doing'[t] = x
          /\ activeSessions' = activeSessions
      BY <1>5, <2>0
      DEF EnterNested, StepIn, OthersStay, OtherTxnsStay,
          Inv4, Inv2, Inv1, TypeOK, Calls,
              Call, Objects, Object, Entering, Committing, InTurn
    <2>2. Engaged(x)' <=> Engaged(x)
      <3>1. /\ state[x] = "ENTERING" /\ at[t] = "claimed"
            /\ state'[x] = "CLOSED" /\ at'[t] = "idle"
        BY <1>5, <2>0 DEF EnterNested, Inv4, Inv2, Inv1, TypeOK, Calls, Call,
                          Entering
      <3> QED
        BY <1>0, <2>1, <3>1, EngagedElsewhere DEF Inv4, Inv2, InTurn
    <2>3. Engaged(x) => /\ session'[x] = session[x]
                        /\ owner'[x] = owner[x]
      BY <1>0, <1>5, <2>0, <2>1, EngagedElsewhere
      DEF EnterNested, Inv4, Inv2, Inv1, TypeOK, Calls,
              Call, Objects, Object, Entering, Committing, InTurn
    <2> QED
      BY <1>0, <2>1, <2>2, <2>3, StepQuiet
  <1>6. ASSUME NEW t \in Thread, EnterAcquire(t)
        PROVE  Registered' /\ OneEach' /\ Inside'
    <2>0. PICK x \in Txn : x = doing[t]
      BY <1>6 DEF EnterAcquire, Inv4, Inv2, Inv1, Calls, Call, Entering,
                   Committing
    <2>1. /\ x \in Txn /\ StepIn(t, x)
          /\ state'[x] = "ENTERING" => doing'[t] = x
          /\ activeSessions' = activeSessions
      BY <1>6, <2>0
      DEF EnterAcquire, StepIn, OthersStay, OtherTxnsStay,
          Inv4, Inv2, Inv1, TypeOK, Calls,
              Call, Objects, Object, Entering, Committing, InTurn
    <2>2. Engaged(x)' <=> Engaged(x)
      BY <1>0, <1>6, <2>0, <2>1, EngagedElsewhere
      DEF EnterAcquire, Inv4, Inv2, Inv1, TypeOK, Calls,
              Call, Objects, Object, Entering, Committing, InTurn
    <2>3. Engaged(x) => /\ session'[x] = session[x]
                        /\ owner'[x] = owner[x]
      BY <1>0, <1>6, <2>0, <2>1, EngagedElsewhere
      DEF EnterAcquire, Inv4, Inv2, Inv1, TypeOK, Calls,
              Call, Objects, Object, Entering, Committing, InTurn
    <2> QED
      BY <1>0, <2>1, <2>2, <2>3, StepQuiet
  <1>20. ASSUME NEW t \in Thread, EnterNote(t)
        PROVE  Registered' /\ OneEach' /\ Inside'
    <2>0. PICK x \in Txn : x = doing[t]
      BY <1>20 DEF EnterNote, Inv4, Inv2, Inv1, Calls, Call, Entering,
                   Committing
    <2>1. /\ x \in Txn /\ StepIn(t, x)
          /\ state'[x] = "ENTERING" => doing'[t] = x
          /\ activeSessions' = activeSessions
      BY <1>20, <2>0
      DEF EnterNote, StepIn, OthersStay, OtherTxnsStay,
          Inv4, Inv2, Inv1, TypeOK, Calls,
              Call, Objects, Object, Entering, Committing, InTurn
    <2>2. Engaged(x)' <=> Engaged(x)
      BY <1>0, <1>20, <2>0, <2>1, EngagedElsewhere
      DEF EnterNote, Inv4, Inv2, Inv1, TypeOK, Calls,
              Call, Objects, Object, Entering, Committing, InTurn
    <2>3. Engaged(x) => /\ session'[x] = session[x]
                        /\ owner'[x] = owner[x]
      BY <1>0, <1>20, <2>0, <2>1, EngagedElsewhere
      DEF EnterNote, Inv4, Inv2, Inv1, TypeOK, Calls,
              Call, Objects, Object, Entering, Committing, InTurn
    <2> QED
      BY <1>0, <2>1, <2>2, <2>3, StepQuiet
  <1>7. ASSUME NEW t \in Thread, EnterAdmit(t) \/ EnterAdmitInterrupted(t)
        PROVE  Registered' /\ OneEach' /\ Inside'
    <2>4. /\ Admit(t)
          /\ stranded' = stranded \/ stranded' = stranded \cup {doing[t]}
      BY <1>7 DEF EnterAdmit, EnterAdmitInterrupted
    <2>0. PICK x \in Txn : x = doing[t]
      BY <2>4 DEF Admit, Inv4, Inv2, Inv1, Calls, Call, Entering,
                   Committing
    <2>1. /\ x \in Txn /\ StepIn(t, x)
          /\ state'[x] = "ENTERING" => doing'[t] = x
          /\ activeSessions' = activeSessions
      BY <2>4, <2>0
      DEF Admit, StepIn, OthersStay, OtherTxnsStay,
          Inv4, Inv2, Inv1, TypeOK, Calls,
              Call, Objects, Object, Entering, Committing, InTurn
    <2>2. Engaged(x)' <=> Engaged(x)
      BY <1>0, <2>4, <2>0, <2>1, EngagedElsewhere
      DEF Admit, Inv4, Inv2, Inv1, TypeOK, Calls,
              Call, Objects, Object, Entering, Committing, InTurn
    <2>3. Engaged(x) => /\ session'[x] = session[x]
                        /\ owner'[x] = owner[x]
      BY <1>0, <2>4, <2>0, <2>1, EngagedElsewhere
      DEF Admit, Inv4, Inv2, Inv1, TypeOK, Calls,
              Call, Objects, Object, Entering, Committing, InTurn
    <2> QED
      BY <1>0, <2>1, <2>2, <2>3, StepQuiet
  <1>8. ASSUME NEW t \in Thread, CommitValidate(t)
        PROVE  Registered' /\ OneEach' /\ Inside'
    <2>0. PICK x \in Txn : x = doing[t]
      BY <1>8 DEF CommitValidate, Inv4, Inv2, Inv1, Calls, Call, Entering,
                   Committing
    <2>1. /\ x \in Txn /\ StepIn(t, x)
          /\ state'[x] = "ENTERING" => doing'[t] = x
          /\ activeSessions' = activeSessions
      BY <1>8, <2>0
      DEF CommitValidate, StepIn, OthersStay, OtherTxnsStay,
          Inv4, Inv2, Inv1, TypeOK, Calls,
              Call, Objects, Object, Entering, Committing, InTurn
    <2>2. Engaged(x)' <=> Engaged(x)
      BY <1>0, <1>8, <2>0, <2>1, EngagedElsewhere
      DEF CommitValidate, Inv4, Inv2, Inv1, TypeOK, Calls,
              Call, Objects, Object, Entering, Committing, InTurn
    <2>3. Engaged(x) => /\ session'[x] = session[x]
                        /\ owner'[x] = owner[x]
      BY <1>0, <1>8, <2>0, <2>1, EngagedElsewhere
      DEF CommitValidate, Inv4, Inv2, Inv1, TypeOK, Calls,
              Call, Objects, Object, Entering, Committing, InTurn
    <2> QED
      BY <1>0, <2>1, <2>2, <2>3, StepQuiet
  <1>9. ASSUME NEW t \in Thread, NEW o \in {"COMMITTED", "FAILED"}, Swap(t, o)
        PROVE  Registered' /\ OneEach' /\ Inside'
    <2>0. PICK x \in Txn : x = doing[t]
      BY <1>9 DEF Swap, Inv4, Inv2, Inv1, Calls, Call, Entering,
                   Committing
    <2>1. /\ x \in Txn /\ StepIn(t, x)
          /\ state'[x] = "ENTERING" => doing'[t] = x
          /\ activeSessions' = activeSessions
      BY <1>9, <2>0
      DEF Swap, StepIn, OthersStay, OtherTxnsStay,
          Inv4, Inv2, Inv1, TypeOK, Calls,
              Call, Objects, Object, Entering, Committing, InTurn
    <2>2. Engaged(x)' <=> Engaged(x)
      BY <1>0, <1>9, <2>0, <2>1, EngagedElsewhere
      DEF Swap, Inv4, Inv2, Inv1, TypeOK, Calls,
              Call, Objects, Object, Entering, Committing, InTurn
    <2>3. Engaged(x) => /\ session'[x] = session[x]
                        /\ owner'[x] = owner[x]
      BY <1>0, <1>9, <2>0, <2>1, EngagedElsewhere
      DEF Swap, Inv4, Inv2, Inv1, TypeOK, Calls,
              Call, Objects, Object, Entering, Committing, InTurn
    <2> QED
      BY <1>0, <2>1, <2>2, <2>3, StepQuiet
  <1>10. ASSUME NEW t \in Thread, CommitReject(t) \/ CommitInterrupted(t)
        PROVE  Registered' /\ OneEach' /\ Inside'
    <2>0. PICK x \in Txn : x = doing[t]
      BY <1>10 DEF CommitReject, CommitInterrupted, CommitFails, Inv4, Inv2, Inv1, Calls, Call, Entering,
                   Committing
    <2>1. /\ x \in Txn /\ StepIn(t, x)
          /\ state'[x] = "ENTERING" => doing'[t] = x
          /\ activeSessions' = activeSessions
      BY <1>10, <2>0
      DEF CommitReject, CommitInterrupted, CommitFails, StepIn, OthersStay, OtherTxnsStay,
          Inv4, Inv2, Inv1, TypeOK, Calls,
              Call, Objects, Object, Entering, Committing, InTurn
    <2>2. Engaged(x)' <=> Engaged(x)
      BY <1>0, <1>10, <2>0, <2>1, EngagedElsewhere
      DEF CommitReject, CommitInterrupted, CommitFails, Inv4, Inv2, Inv1, TypeOK, Calls,
              Call, Objects, Object, Entering, Committing, InTurn
    <2>3. Engaged(x) => /\ session'[x] = session[x]
                        /\ owner'[x] = owner[x]
      BY <1>0, <1>10, <2>0, <2>1, EngagedElsewhere
      DEF CommitReject, CommitInterrupted, CommitFails, Inv4, Inv2, Inv1, TypeOK, Calls,
              Call, Objects, Object, Entering, Committing, InTurn
    <2> QED
      BY <1>0, <2>1, <2>2, <2>3, StepQuiet
  <1>11. ASSUME NEW t \in Thread, EnterReject(t)
        PROVE  Registered' /\ OneEach' /\ Inside'
    <2>1. /\ doing[t] \in Txn /\ owner[doing[t]] = {t} /\ at'[t] = "idle"
          /\ CloseResources(t, doing[t]) /\ session' = session /\ owner' = owner
      BY <1>11 DEF EnterReject, Inv4, Inv2, Inv1, TypeOK, Calls,
              Call, Objects, Object, Entering, Committing, InTurn
    <2>2. StepIn(t, doing[t])
      BY <1>11, <2>1
      DEF EnterReject, CloseResources, StepIn, OthersStay, OtherTxnsStay,
          Inv4, Inv2, Inv1, TypeOK, Calls,
              Call, Objects, Object, Entering, Committing, InTurn
    <2>3. Engaged(doing[t])
      BY <1>11, <2>1 DEF EnterReject, Engaged
    <2> QED
      BY <1>0, <2>1, <2>2, <2>3, StepClosed
  <1>12. ASSUME NEW t \in Thread, EnterInterrupted(t)
        PROVE  Registered' /\ OneEach' /\ Inside'
    <2>1. /\ doing[t] \in Txn /\ owner[doing[t]] = {t} /\ at'[t] = "idle"
          /\ CloseResources(t, doing[t]) /\ session' = session /\ owner' = owner
      BY <1>12 DEF EnterInterrupted, Inv4, Inv2, Inv1, TypeOK, Calls,
              Call, Objects, Object, Entering, Committing, InTurn
    <2>2. StepIn(t, doing[t])
      BY <1>12, <2>1
      DEF EnterInterrupted, CloseResources, StepIn, OthersStay, OtherTxnsStay,
          Inv4, Inv2, Inv1, TypeOK, Calls,
              Call, Objects, Object, Entering, Committing, InTurn
    <2>3. Engaged(doing[t])
      BY <1>12, <2>1 DEF EnterInterrupted, Engaged
    <2> QED
      BY <1>0, <2>1, <2>2, <2>3, StepClosed
  <1>13. ASSUME NEW t \in Thread, NEW x \in Txn, Exit(t, x)
        PROVE  Registered' /\ OneEach' /\ Inside'
    <2>1. /\ x \in Txn /\ owner[x] = {t} /\ at'[t] = "idle"
          /\ CloseResources(t, x) /\ session' = session /\ owner' = owner
      BY <1>13 DEF Exit, Inv4, Inv2, Inv1, TypeOK, Calls,
              Call, Objects, Object, Entering, Committing, InTurn
    <2>2. StepIn(t, x)
      BY <1>13, <2>1
      DEF Exit, CloseResources, StepIn, OthersStay, OtherTxnsStay,
          Inv4, Inv2, Inv1, TypeOK, Calls,
              Call, Objects, Object, Entering, Committing, InTurn
    <2>3. Engaged(x)
      BY <1>13, <2>1 DEF Exit, Engaged
    <2> QED
      BY <1>0, <2>1, <2>2, <2>3, StepClosed
  <1>14. ASSUME NEW t \in Thread, EnterRegister(t)
        PROVE  Registered' /\ OneEach' /\ Inside'
    <2>0. PICK x \in Txn : x = doing[t]
      BY <1>14 DEF EnterRegister, Inv4, Inv2, Inv1, Calls, Call, Entering
    <2>1. /\ x \in Txn /\ StepIn(t, x) /\ doing'[t] = x
          /\ owner[x] = {t} /\ session[x] \in Session
          /\ session' = session /\ owner' = owner
      BY <1>14, <2>0
      DEF EnterRegister, StepIn, OthersStay, OtherTxnsStay,
          Inv4, Inv2, Inv1, TypeOK, Calls,
              Call, Objects, Object, Entering, Committing, InTurn
    <2>2. \A u \in Thread, s \in Session :
             s \in activeSessions'[u] <=>
                s \in activeSessions[u] \/ (u = t /\ s = session[x])
      BY <1>14, <2>0 DEF EnterRegister, Inv4, Inv2, Inv1, TypeOK
    <2>3. Engaged(x)'
      BY <1>14, <2>1 DEF EnterRegister, Engaged, Inv4, Inv2, Inv1, TypeOK
    <2>4. Inside'
      BY <2>1, InsideStep DEF Inv4, Inv2
    <2>5. \A y \in Txn : Engaged(y)' <=> Engaged(y) \/ y = x
      <3> HIDE DEF Engaged
      <3> QED
        BY <1>0, <2>1, <2>3, EngagedElsewhere DEF Inv4, Inv2
    <2>6. \A y \in Txn :
             Engaged(y) => ~(session[y] = session[x] /\ owner[y] = {t})
      <3> HIDE DEF Engaged
      <3> QED
        BY <1>14, <2>0, <2>1 DEF EnterRegister, Inv4, Registered
    <2>7. Registered'
      <3> HIDE DEF Engaged
      <3> QED
        BY <2>1, <2>2, <2>5 DEF Inv4, Registered
    <2>8. OneEach'
      <3> HIDE DEF Engaged
      <3> QED
        BY <2>1, <2>5, <2>6 DEF Inv4, OneEach
    <2> QED
      BY <2>4, <2>7, <2>8
  <1>15. ASSUME NEW t \in Thread, NEW s \in Session, Reset(t, s)
        PROVE  Registered' /\ OneEach' /\ Inside'
    BY <1>15, StepApart DEF Reset, Inv4, Inv2, Inv1, TypeOK, Entering
  <1>16. ASSUME NEW t \in Thread, NEW s \in Session, GetBegin(t, s)
        PROVE  Registered' /\ OneEach' /\ Inside'
    BY <1>16, StepApart DEF GetBegin, Inv4, Inv2, Inv1, TypeOK, Entering
  <1>17. ASSUME NEW t \in Thread, GetAcquire(t)
        PROVE  Registered' /\ OneEach' /\ Inside'
    BY <1>17, StepApart DEF GetAcquire, Inv4, Inv2, Inv1, TypeOK, Entering
  <1>18. ASSUME NEW t \in Thread, GetReturn(t)
        PROVE  Registered' /\ OneEach' /\ Inside'
    BY <1>18, StepApart DEF GetReturn, Inv4, Inv2, Inv1, TypeOK, Entering
  <1>19. CASE UNCHANGED vars
    <2>1. Registered' /\ OneEach' /\ Inside'
      BY <1>19, StepApart DEF vars
    <2> QED
      BY <1>0, <2>1 DEF Inv4
  <1> QED
    BY <1>0, <1>1, <1>2, <1>3, <1>4, <1>5, <1>6, <1>7, <1>8, <1>9, <1>10, <1>11, <1>12, <1>13, <1>14, <1>15, <1>16, <1>17, <1>18, <1>19, <1>20
    DEF Next, Enter, Commit, CommitSwap, CommitSwapInterrupted, Get, Inv4

\* A transaction nobody is engaged in has neither the lock flag nor a token.
LEMMA DisengagedHoldsNothing ==
  ASSUME Inv4, NEW x \in Txn, ~Engaged(x)
  PROVE  ~lockAcquired[x] /\ \A s \in Session : activeToken[s] # x
  <1>1. state[x] \notin InTurn
    BY DEF Engaged, InTurn
  <1>2. ~lockAcquired[x]
    <2>1. CASE state[x] = "ENTERING"
      <3>1. PICK t \in Thread : doing[t] = x /\ at[t] \in Entering
        BY <2>1 DEF Inv4, Inside
      <3>2. at[t] # "entered"
        BY <3>1 DEF Engaged
      <3> QED
        BY <3>1, <3>2 DEF Inv4, Inv2, Inv1, Calls, Call
    <2>2. CASE state[x] # "ENTERING"
      BY <1>1, <2>2 DEF Inv4, Inv2, Inv1, TypeOK, TxnState, Objects, Object, InTurn
    <2> QED
      BY <2>1, <2>2
  <1>3. \A s \in Session : activeToken[s] # x
    BY <1>1, SessionStoreConstants DEF Inv4, Inv2, Tokens
  <1> QED
    BY <1>2, <1>3

\* A thread's active sessions are those of the transactions it is inside,
\* and a transaction nobody is inside has neither the flag _lock_acquired nor
\* a token.
THEOREM NothingIsLeftBehind == Spec => []NothingLeftBehind
  <1>1. Inv4 => NothingLeftBehind
    <2> HIDE DEF Engaged
    <2> QED
      BY DisengagedHoldsNothing DEF NothingLeftBehind, Inv4, Registered
  <1> QED
    BY <1>1, EngagedInit, EngagedStep, PTL DEF Spec

----------------------------------------------------------------------------
(* No update is lost, and SessionStore implements SessionLog *)

\* An open transaction still sees the current snapshot.
Current(x) == state[x] = "ACTIVE" => /\ contexts[session[x]] = captured[x]
                                     /\ turn[x] = Len(captured[x]) + 1

\* A candidate that passed validation is still the one that passed it.
Candidate(t) ==
    /\ at[t] \in Committing => draft[doing[t]] \in Drafts(doing[t])
    /\ at[t] = "validated" =>
          ValidTransition(captured[doing[t]], draft[doing[t]], turn[doing[t]])

\* The turns of a snapshot were written by transactions whose commit ended.
Ended == {"COMMITTED", "FAILED", "CLOSED"}
Written(s) == /\ s \notin entries => contexts[s] = <<>>
              /\ \A i \in 1..Len(contexts[s]) :
                    state[contexts[s][i].by] \in Ended

Snapshots == /\ \A x \in Txn : Current(x)
             /\ \A t \in Thread : Candidate(t)
             /\ \A s \in Session : Written(s)

Inv3 == Inv2 /\ Snapshots

-----------------------------------------------------------------------------

\* The only candidate a commit accepts is the captured snapshot with the
\* transaction's own turn appended.
LEMMA AcceptedDraft ==
  ASSUME TypeOK, NEW x \in Txn, NEW d \in Drafts(x),
         ValidTransition(captured[x], d, turn[x])
  PROVE  d = Append(captured[x], Record(Len(captured[x]) + 1, x))
  <1> DEFINE c == captured[x]
             r == Record(turn[x], x)
             q == Record(turn[x] + 1, x)
  <1>1. /\ c \in Seq(TurnRecord) /\ turn[x] \in Nat
        /\ r \in TurnRecord /\ r.turn = turn[x]
        /\ q \in TurnRecord /\ q.turn = turn[x] + 1
    <2>1. c \in Seq(TurnRecord) /\ turn[x] \in Nat /\ turn[x] + 1 \in Nat
      BY DEF TypeOK, Context
    <2> QED
      BY <2>1 DEF TurnRecord, Record
  <1>2. /\ Len(d) = Len(c) + 1
        /\ SubSeq(d, 1, Len(c)) = c
        /\ turn[x] = Len(c) + 1
        /\ d[Len(d)].turn = turn[x]
    BY DEF ValidTransition
  <1>3. \/ d = Append(c, r) \/ d = c \/ d = Append(c, q)
        \/ d = Append(Append(c, r), q)
        \/ \E i \in 1..Len(c) : d = Append([c EXCEPT ![i].by = x], r)
    BY DEF Drafts
  <1> HIDE DEF c, r, q
  <1>4. d # c /\ d # Append(c, q) /\ d # Append(Append(c, r), q)
    BY <1>1, <1>2
  <1>5. ASSUME NEW i \in 1..Len(c), d = Append([c EXCEPT ![i].by = x], r)
        PROVE  d = Append(c, r)
    <2> DEFINE e == [c EXCEPT ![i].by = x]
    <2>1. e \in Seq(TurnRecord) /\ Len(e) = Len(c)
      <3>1. c[i] \in TurnRecord
        BY <1>1
      <3>2. [c[i] EXCEPT !.by = x] \in TurnRecord
        BY <3>1 DEF TurnRecord
      <3> QED
        BY <1>1, <3>2
    <2> HIDE DEF e
    <2>2. \A j \in 1..Len(c) : SubSeq(d, 1, Len(c))[j] = d[j] /\ d[j] = e[j]
      BY <1>1, <1>5, <2>1 DEF e
    <2>3. \A j \in 1..Len(c) : e[j] = c[j]
      BY <1>2, <2>2
    <2>4. e = c
      BY <1>1, <2>1, <2>3
    <2> QED
      BY <1>5, <2>4 DEF e
  <1> QED
    BY <1>2, <1>3, <1>4, <1>5 DEF c, r

\* A step that writes no snapshot and takes none keeps them related.
LEMMA CurrentQuiet ==
  ASSUME Inv3, contexts' = contexts, captured' = captured,
         \A x \in Txn : state'[x] = "ACTIVE" => /\ state[x] = "ACTIVE"
                                                /\ session'[x] = session[x]
                                                /\ turn'[x] = turn[x]
  PROVE  \A x \in Txn : Current(x)'
  BY DEF Inv3, Snapshots, Current

LEMMA WrittenQuiet ==
  ASSUME Inv3, contexts' = contexts, entries \subseteq entries',
         \A x \in Txn : state[x] \in Ended =>
                           state'[x] \in Ended
  PROVE  \A s \in Session : Written(s)'
  <1> SUFFICES ASSUME NEW s \in Session
               PROVE  Written(s)'
    OBVIOUS
  <1>1. contexts[s] \in Seq(TurnRecord) /\ Written(s)
    BY DEF Inv3, Snapshots, Inv2, Inv1, TypeOK, Context
  <1>2. \A i \in 1..Len(contexts[s]) : contexts[s][i].by \in Txn
    <2> TAKE i \in 1..Len(contexts[s])
    <2>1. contexts[s][i] \in TurnRecord
      BY <1>1
    <2> QED
      BY <2>1 DEF TurnRecord
  <1> QED
    BY <1>1, <1>2 DEF Written

\* Only the thread inside commit touches the candidate it validates.
LEMMA CandidateQuiet ==
  ASSUME Inv3, NEW u \in Thread, at'[u] = at[u], doing'[u] = doing[u],
         at[u] \in Committing =>
            /\ draft'[doing[u]] = draft[doing[u]]
            /\ captured'[doing[u]] = captured[doing[u]]
            /\ turn'[doing[u]] = turn[doing[u]]
  PROVE  Candidate(u)'
  BY DEF Inv3, Snapshots, Candidate, Committing, Drafts

LEMMA SnapshotInit == Init => Inv3
  BY LockInit DEF Init, Inv3, Snapshots, Current, Candidate, Written, Committing

LEMMA SnapshotStep ==
  ASSUME Inv3, [Next]_vars
  PROVE  Inv3'
  <1> USE SessionStoreConstants DEF entryVars, txnVars, threadVars, Return, Goto
  <1>0. Inv2'
    BY LockStep DEF Inv3
  <1>1. ASSUME NEW t \in Thread, NEW s \in Session, GetBegin(t, s)
        PROVE  Snapshots'
    <2>1. \A y \in Txn : Current(y)'
      BY <1>1, CurrentQuiet
      DEF GetBegin, Inv3, Inv2, Inv1, TypeOK, Calls, Call, Entering, Committing
    <2>2. \A r \in Session : Written(r)'
      BY <1>1, WrittenQuiet
      DEF GetBegin, Inv3, Inv2, Inv1, TypeOK, Calls, Call, Entering, Committing
    <2>3. ASSUME NEW u \in Thread
          PROVE  Candidate(u)'
      BY <1>1, CandidateQuiet
      DEF GetBegin, Inv3, Inv2, Inv1, TypeOK, Calls, Call,
          Objects, Object, Entering, Committing, InTurn, Candidate
    <2> QED
      BY <2>1, <2>2, <2>3 DEF Snapshots
  <1>2. ASSUME NEW t \in Thread, NEW x \in Txn, NEW s \in Session,
               NEW n \in 1..MaxTurn, CreateTransaction(t, x, s, n)
        PROVE  Snapshots'
    <2>1. \A y \in Txn : Current(y)'
      BY <1>2, CurrentQuiet
      DEF CreateTransaction, Inv3, Inv2, Inv1, TypeOK, Calls, Call, Entering, Committing
    <2>2. \A r \in Session : Written(r)'
      BY <1>2, WrittenQuiet
      DEF Ended, CreateTransaction, Inv3, Inv2, Inv1, TypeOK, Calls, Call, Entering, Committing
    <2>3. ASSUME NEW u \in Thread
          PROVE  Candidate(u)'
      BY <1>2, CandidateQuiet
      DEF CreateTransaction, Inv3, Inv2, Inv1, TypeOK, Calls, Call,
          Objects, Object, Entering, Committing, InTurn, Candidate
    <2> QED
      BY <2>1, <2>2, <2>3 DEF Snapshots
  <1>3. ASSUME NEW t \in Thread, NEW x \in Txn, CloseUnentered(t, x)
        PROVE  Snapshots'
    <2>1. \A y \in Txn : Current(y)'
      BY <1>3, CurrentQuiet
      DEF CloseUnentered, Inv3, Inv2, Inv1, TypeOK, Calls, Call, Entering, Committing
    <2>2. \A s \in Session : Written(s)'
      BY <1>3, WrittenQuiet
      DEF Ended, CloseUnentered, Inv3, Inv2, Inv1, TypeOK, Calls, Call, Entering, Committing
    <2>3. ASSUME NEW u \in Thread
          PROVE  Candidate(u)'
      BY <1>3, CandidateQuiet
      DEF CloseUnentered, Inv3, Inv2, Inv1, TypeOK, Calls, Call,
          Objects, Object, Entering, Committing, InTurn, Candidate
    <2> QED
      BY <2>1, <2>2, <2>3 DEF Snapshots
  <1>4. ASSUME NEW t \in Thread, NEW x \in Txn, EnterClaim(t, x)
        PROVE  Snapshots'
    <2>1. \A y \in Txn : Current(y)'
      BY <1>4, CurrentQuiet
      DEF EnterClaim, Inv3, Inv2, Inv1, TypeOK, Calls, Call, Entering, Committing
    <2>2. \A s \in Session : Written(s)'
      BY <1>4, WrittenQuiet
      DEF Ended, EnterClaim, Inv3, Inv2, Inv1, TypeOK, Calls, Call, Entering, Committing
    <2>3. ASSUME NEW u \in Thread
          PROVE  Candidate(u)'
      BY <1>4, CandidateQuiet
      DEF EnterClaim, Inv3, Inv2, Inv1, TypeOK, Calls, Call,
          Objects, Object, Entering, Committing, InTurn, Candidate
    <2> QED
      BY <2>1, <2>2, <2>3 DEF Snapshots
  <1>5. ASSUME NEW t \in Thread, NEW x \in Txn, Exit(t, x)
        PROVE  Snapshots'
    <2>1. \A y \in Txn : Current(y)'
      BY <1>5, CurrentQuiet
      DEF Exit, CloseResources, Inv3, Inv2, Inv1, TypeOK, Calls, Call, Entering, Committing
    <2>2. \A s \in Session : Written(s)'
      BY <1>5, WrittenQuiet
      DEF Ended, Exit, CloseResources, Inv3, Inv2, Inv1, TypeOK, Calls, Call, Entering, Committing
    <2>3. ASSUME NEW u \in Thread
          PROVE  Candidate(u)'
      BY <1>5, CandidateQuiet
      DEF Exit, CloseResources, Inv3, Inv2, Inv1, TypeOK, Calls, Call,
          Objects, Object, Entering, Committing, InTurn, Candidate
    <2> QED
      BY <2>1, <2>2, <2>3 DEF Snapshots
  <1>6. ASSUME NEW t \in Thread, EnterNested(t)
        PROVE  Snapshots'
    <2>1. \A y \in Txn : Current(y)'
      BY <1>6, CurrentQuiet
      DEF EnterNested, Inv3, Inv2, Inv1, TypeOK, Calls, Call, Entering, Committing
    <2>2. \A s \in Session : Written(s)'
      BY <1>6, WrittenQuiet
      DEF Ended, EnterNested, Inv3, Inv2, Inv1, TypeOK, Calls, Call, Entering, Committing
    <2>3. ASSUME NEW u \in Thread
          PROVE  Candidate(u)'
      BY <1>6, CandidateQuiet
      DEF EnterNested, Inv3, Inv2, Inv1, TypeOK, Calls, Call,
          Objects, Object, Entering, Committing, InTurn, Candidate
    <2> QED
      BY <2>1, <2>2, <2>3 DEF Snapshots
  <1>7. ASSUME NEW t \in Thread, EnterRegister(t)
        PROVE  Snapshots'
    <2>1. \A y \in Txn : Current(y)'
      BY <1>7, CurrentQuiet
      DEF EnterRegister, Inv3, Inv2, Inv1, TypeOK, Calls, Call, Entering, Committing
    <2>2. \A s \in Session : Written(s)'
      BY <1>7, WrittenQuiet
      DEF EnterRegister, Inv3, Inv2, Inv1, TypeOK, Calls, Call, Entering, Committing
    <2>3. ASSUME NEW u \in Thread
          PROVE  Candidate(u)'
      BY <1>7, CandidateQuiet
      DEF EnterRegister, Inv3, Inv2, Inv1, TypeOK, Calls, Call,
          Objects, Object, Entering, Committing, InTurn, Candidate
    <2> QED
      BY <2>1, <2>2, <2>3 DEF Snapshots
  <1>8. ASSUME NEW t \in Thread, EnterAcquire(t)
        PROVE  Snapshots'
    <2>1. \A y \in Txn : Current(y)'
      BY <1>8, CurrentQuiet
      DEF EnterAcquire, Inv3, Inv2, Inv1, TypeOK, Calls, Call, Entering, Committing
    <2>2. \A s \in Session : Written(s)'
      BY <1>8, WrittenQuiet
      DEF EnterAcquire, Inv3, Inv2, Inv1, TypeOK, Calls, Call, Entering, Committing
    <2>3. ASSUME NEW u \in Thread
          PROVE  Candidate(u)'
      BY <1>8, CandidateQuiet
      DEF EnterAcquire, Inv3, Inv2, Inv1, TypeOK, Calls, Call,
          Objects, Object, Entering, Committing, InTurn, Candidate
    <2> QED
      BY <2>1, <2>2, <2>3 DEF Snapshots
  <1>20. ASSUME NEW t \in Thread, EnterNote(t)
        PROVE  Snapshots'
    <2>1. \A y \in Txn : Current(y)'
      BY <1>20, CurrentQuiet
      DEF EnterNote, Inv3, Inv2, Inv1, TypeOK, Calls, Call, Entering, Committing
    <2>2. \A s \in Session : Written(s)'
      BY <1>20, WrittenQuiet
      DEF EnterNote, Inv3, Inv2, Inv1, TypeOK, Calls, Call, Entering, Committing
    <2>3. ASSUME NEW u \in Thread
          PROVE  Candidate(u)'
      BY <1>20, CandidateQuiet
      DEF EnterNote, Inv3, Inv2, Inv1, TypeOK, Calls, Call,
          Objects, Object, Entering, Committing, InTurn, Candidate
    <2> QED
      BY <2>1, <2>2, <2>3 DEF Snapshots
  <1>9. ASSUME NEW t \in Thread, EnterReject(t)
        PROVE  Snapshots'
    <2>1. \A y \in Txn : Current(y)'
      BY <1>9, CurrentQuiet
      DEF EnterReject, CloseResources, Inv3, Inv2, Inv1, TypeOK, Calls, Call, Entering, Committing
    <2>2. \A s \in Session : Written(s)'
      BY <1>9, WrittenQuiet
      DEF Ended, EnterReject, CloseResources, Inv3, Inv2, Inv1, TypeOK, Calls, Call, Entering, Committing
    <2>3. ASSUME NEW u \in Thread
          PROVE  Candidate(u)'
      BY <1>9, CandidateQuiet
      DEF EnterReject, CloseResources, Inv3, Inv2, Inv1, TypeOK, Calls, Call,
          Objects, Object, Entering, Committing, InTurn, Candidate
    <2> QED
      BY <2>1, <2>2, <2>3 DEF Snapshots
  <1>10. ASSUME NEW t \in Thread, EnterInterrupted(t)
        PROVE  Snapshots'
    <2>1. \A y \in Txn : Current(y)'
      BY <1>10, CurrentQuiet
      DEF EnterInterrupted, CloseResources, Inv3, Inv2, Inv1, TypeOK, Calls, Call, Entering, Committing
    <2>2. \A s \in Session : Written(s)'
      BY <1>10, WrittenQuiet
      DEF Ended, EnterInterrupted, CloseResources, Inv3, Inv2, Inv1, TypeOK, Calls, Call, Entering, Committing
    <2>3. ASSUME NEW u \in Thread
          PROVE  Candidate(u)'
      BY <1>10, CandidateQuiet
      DEF EnterInterrupted, CloseResources, Inv3, Inv2, Inv1, TypeOK, Calls, Call,
          Objects, Object, Entering, Committing, InTurn, Candidate
    <2> QED
      BY <2>1, <2>2, <2>3 DEF Snapshots
  <1>11. ASSUME NEW t \in Thread, GetAcquire(t)
        PROVE  Snapshots'
    <2>1. \A y \in Txn : Current(y)'
      BY <1>11, CurrentQuiet
      DEF GetAcquire, Inv3, Inv2, Inv1, TypeOK, Calls, Call, Entering, Committing
    <2>2. \A s \in Session : Written(s)'
      BY <1>11, WrittenQuiet
      DEF GetAcquire, Inv3, Inv2, Inv1, TypeOK, Calls, Call, Entering, Committing
    <2>3. ASSUME NEW u \in Thread
          PROVE  Candidate(u)'
      BY <1>11, CandidateQuiet
      DEF GetAcquire, Inv3, Inv2, Inv1, TypeOK, Calls, Call,
          Objects, Object, Entering, Committing, InTurn, Candidate
    <2> QED
      BY <2>1, <2>2, <2>3 DEF Snapshots
  <1>12. ASSUME NEW t \in Thread, GetReturn(t)
        PROVE  Snapshots'
    <2>1. \A y \in Txn : Current(y)'
      BY <1>12, CurrentQuiet
      DEF GetReturn, Inv3, Inv2, Inv1, TypeOK, Calls, Call, Entering, Committing
    <2>2. \A s \in Session : Written(s)'
      BY <1>12, WrittenQuiet
      DEF GetReturn, Inv3, Inv2, Inv1, TypeOK, Calls, Call, Entering, Committing
    <2>3. ASSUME NEW u \in Thread
          PROVE  Candidate(u)'
      BY <1>12, CandidateQuiet
      DEF GetReturn, Inv3, Inv2, Inv1, TypeOK, Calls, Call,
          Objects, Object, Entering, Committing, InTurn, Candidate
    <2> QED
      BY <2>1, <2>2, <2>3 DEF Snapshots
  <1>13. ASSUME NEW t \in Thread, CommitReject(t) \/ CommitInterrupted(t)
        PROVE  Snapshots'
    <2>0. CommitFails(t) /\ doing[t] \in Txn /\ state[doing[t]] = "ACTIVE"
      BY <1>13 DEF CommitReject, CommitInterrupted, Inv3, Inv2, Inv1, TypeOK, Calls, Call,
          Objects, Object, Entering, Committing, InTurn
    <2>1. \A y \in Txn : Current(y)'
      BY <2>0, CurrentQuiet DEF CommitFails, Inv3, Inv2, Inv1, TypeOK
    <2>2. \A s \in Session : Written(s)'
      BY <2>0, WrittenQuiet DEF Ended, CommitFails, Inv3, Inv2, Inv1, TypeOK
    <2>3. ASSUME NEW u \in Thread
          PROVE  Candidate(u)'
      BY <2>0, CandidateQuiet
      DEF CommitFails, Inv3, Inv2, Inv1, TypeOK, Calls, Call,
          Objects, Object, Entering, Committing, InTurn, Candidate
    <2> QED
      BY <2>1, <2>2, <2>3 DEF Snapshots
  <1>14. ASSUME NEW t \in Thread, NEW s \in Session, Reset(t, s)
        PROVE  Snapshots'
    <2>1. contexts[s] = <<>>
      BY <1>14 DEF Reset, Inv3, Snapshots, Written
    <2>2. contexts' = contexts
      BY <1>14, <2>1 DEF Reset, Inv3, Inv2, Inv1, TypeOK
    <2>3. \A y \in Txn : Current(y)'
      BY <1>14, <2>2, CurrentQuiet DEF Reset
    <2>4. \A r \in Session : Written(r)'
      BY <1>14, <2>2, WrittenQuiet DEF Reset
    <2>5. ASSUME NEW u \in Thread
          PROVE  Candidate(u)'
      BY <1>14, CandidateQuiet DEF Reset
    <2> QED
      BY <2>3, <2>4, <2>5 DEF Snapshots
  <1>15. ASSUME NEW t \in Thread, NEW x \in Txn, NEW next \in Drafts(x),
               CommitClaim(t, x, next)
        PROVE  Snapshots'
    <2>1. \A y \in Txn : Current(y)'
      BY <1>15, CurrentQuiet DEF CommitClaim
    <2>2. \A s \in Session : Written(s)'
      BY <1>15, WrittenQuiet DEF CommitClaim
    <2>3. Candidate(t)'
      <3>1. /\ at'[t] = "committing" /\ doing'[t] = x /\ draft'[x] = next
            /\ captured' = captured /\ turn' = turn
        BY <1>15 DEF CommitClaim, Inv3, Inv2, Inv1, TypeOK
      <3>2. Drafts(x)' = Drafts(x)
        BY <3>1 DEF Drafts
      <3> HIDE DEF Drafts
      <3> QED
        BY <3>1, <3>2 DEF Candidate
    <2>4. ASSUME NEW u \in Thread \ {t}
          PROVE  Candidate(u)'
      <3>1. /\ at'[u] = at[u] /\ doing'[u] = doing[u]
            /\ captured' = captured /\ turn' = turn
            /\ draft' = [draft EXCEPT ![x] = next]
            /\ draft \in [Txn -> Context]
        BY <1>15 DEF CommitClaim, Inv3, Inv2, Inv1, TypeOK
      <3>2. at[u] \in Committing => doing[u] \in Txn /\ doing[u] # x
        <4>1. Call(u)
          BY DEF Inv3, Inv2, Inv1, Calls
        <4>2. owner[x] = {t} /\ u # t
          BY <1>15 DEF CommitClaim
        <4> QED
          BY <4>1, <4>2 DEF Call
      <3>3. at[u] \in Committing => draft'[doing[u]] = draft[doing[u]]
        BY <3>1, <3>2
      <3> QED
        BY <3>1, <3>3, CandidateQuiet
    <2> QED
      BY <2>1, <2>2, <2>3, <2>4 DEF Snapshots
  <1>16. ASSUME NEW t \in Thread, CommitValidate(t)
        PROVE  Snapshots'
    <2>1. \A y \in Txn : Current(y)'
      BY <1>16, CurrentQuiet DEF CommitValidate
    <2>2. \A s \in Session : Written(s)'
      BY <1>16, WrittenQuiet DEF CommitValidate
    <2>3. Candidate(t)'
      <3>1. /\ at'[t] = "validated" /\ doing'[t] = doing[t]
            /\ draft[doing[t]] \in Drafts(doing[t])
            /\ ValidTransition(captured[doing[t]], draft[doing[t]], turn[doing[t]])
        BY <1>16 DEF CommitValidate, Acceptable, Inv3, Snapshots, Candidate,
                    Committing, Inv2, Inv1, TypeOK
      <3> QED
        BY <1>16, <3>1 DEF CommitValidate, Candidate, Drafts, ValidTransition
    <2>4. ASSUME NEW u \in Thread \ {t}
          PROVE  Candidate(u)'
      BY <1>16, CandidateQuiet DEF CommitValidate, Inv3, Inv2, Inv1, TypeOK
    <2> QED
      BY <2>1, <2>2, <2>3, <2>4 DEF Snapshots
  <1>17. ASSUME NEW t \in Thread, Admit(t)
        PROVE  Snapshots'
    <2>0. /\ doing[t] \in Txn /\ session[doing[t]] \in Session
          /\ state[doing[t]] = "ENTERING"
      BY <1>17 DEF Admit, Inv3, Inv2, Inv1, TypeOK, Calls, Call,
          Objects, Object, Entering, Committing, InTurn
    <2>1. \A y \in Txn : Current(y)'
      BY <1>17, <2>0 DEF Admit, Admissible, Current, Inv3, Snapshots,
                      Inv2, Inv1, TypeOK
    <2>2. \A s \in Session : Written(s)'
      BY <1>17, <2>0, WrittenQuiet DEF Ended, Admit, Inv3, Inv2, Inv1, TypeOK
    <2>3. ASSUME NEW u \in Thread
          PROVE  Candidate(u)'
      BY <1>17, <2>0, CandidateQuiet
      DEF Admit, Inv3, Inv2, Inv1, TypeOK, Calls, Call,
          Objects, Object, Entering, Committing, InTurn, Candidate
    <2> QED
      BY <2>1, <2>2, <2>3 DEF Snapshots
  <1>18. ASSUME NEW t \in Thread, NEW o \in {"COMMITTED", "FAILED"}, Swap(t, o)
        PROVE  Snapshots'
    <2>0. /\ doing[t] \in Txn /\ session[doing[t]] \in entries
          /\ session[doing[t]] \in Session /\ state[doing[t]] = "ACTIVE"
      BY <1>18 DEF Swap, Inv3, Inv2, Inv1, TypeOK, Calls, Call,
          Objects, Object, Entering, Committing, InTurn
    <2> DEFINE x == doing[t]
               s == session[x]
               c == contexts[s]
    <2>1. contexts'[s] = Append(c, Record(Len(c) + 1, x))
      <3>1. /\ draft[x] \in Drafts(x) /\ captured[x] = c
            /\ ValidTransition(captured[x], draft[x], turn[x])
        BY <1>18, <2>0 DEF Swap, Acceptable, Owns, Inv3, Snapshots,
                        Candidate, Committing
      <3>2. contexts'[s] = draft[x]
        BY <1>18, <2>0 DEF Swap, Inv3, Inv2, Inv1, TypeOK
      <3> QED
        BY <2>0, <3>1, <3>2, AcceptedDraft DEF Inv3, Inv2, Inv1
    <2>2. ASSUME NEW y \in Txn, state'[y] = "ACTIVE"
          PROVE  Current(y)'
      <3>1. y # x /\ state[y] = "ACTIVE"
        BY <1>18, <2>0, <2>2 DEF Swap, Inv3, Inv2, Inv1, TypeOK
      <3>2. session[y] # s
        BY <2>0, <3>1 DEF Inv3, Inv2, Tokens, InTurn
      <3> QED
        BY <1>18, <3>1, <3>2 DEF Swap, Current, Inv3, Snapshots, Inv2,
                              Inv1, TypeOK
    <2>3. ASSUME NEW r \in Session
          PROVE  Written(r)'
      <3>1. CASE r # s
        <4>1. contexts'[r] = contexts[r] /\ entries' = entries /\ Written(r)
          BY <1>18, <3>1 DEF Swap, Inv3, Snapshots, Inv2, Inv1, TypeOK
        <4>2. \A i \in 1..Len(contexts[r]) :
                 state[contexts[r][i].by] \in Ended =>
                    state'[contexts[r][i].by] \in Ended
          BY <1>18, <2>0 DEF Ended, Swap, Inv3, Inv2, Inv1, TypeOK
        <4> QED
          BY <4>1, <4>2 DEF Written
      <3>2. CASE r = s
        <4>1. c \in Seq(TurnRecord) /\ Written(s)
          BY <2>0 DEF Inv3, Snapshots, Inv2, Inv1, TypeOK, Context
        <4>2. /\ Len(contexts'[s]) = Len(c) + 1
              /\ \A i \in 1..Len(c) : contexts'[s][i] = c[i]
              /\ contexts'[s][Len(c) + 1].by = x
          <5>1. Record(Len(c) + 1, x) \in TurnRecord
            BY <2>0, <4>1 DEF Record, TurnRecord
          <5>2. Record(Len(c) + 1, x).by = x
            BY DEF Record
          <5> HIDE DEF c
          <5> QED
            BY <2>1, <4>1, <5>1, <5>2
        <4>3. \A i \in 1..Len(c) : state'[c[i].by] \in Ended
          <5>1. \A i \in 1..Len(c) : state[c[i].by] \in Ended
            BY <4>1 DEF Written
          <5>2. state' = [state EXCEPT ![x] = o] /\ x \in Txn /\ o \in Ended
            BY <1>18, <2>0 DEF Ended, Swap
          <5>3. state \in [Txn -> TxnState]
            BY DEF Inv3, Inv2, Inv1, TypeOK
          <5>4. \A i \in 1..Len(c) : c[i].by \in Txn
            <6> TAKE i \in 1..Len(c)
            <6>1. c[i] \in TurnRecord
              BY <4>1
            <6> QED
              BY <6>1 DEF TurnRecord
          <5> HIDE DEF c, x, s
          <5> QED
            BY <5>1, <5>2, <5>3, <5>4
        <4>4. state'[x] \in Ended /\ entries' = entries
          BY <1>18, <2>0 DEF Ended, Swap, Inv3, Inv2, Inv1, TypeOK
        <4>5. \A i \in 1..(Len(c) + 1) :
                 state'[contexts'[s][i].by] \in Ended
          <5> HIDE DEF x, s, c
          <5> TAKE i \in 1..(Len(c) + 1)
          <5>1. CASE i \in 1..Len(c)
            BY <5>1, <4>2, <4>3
          <5>2. CASE i = Len(c) + 1
            BY <5>2, <4>2, <4>4
          <5>3. Len(c) \in Nat
            BY <4>1
          <5> QED
            BY <5>1, <5>2, <5>3
        <4>6. session'[x] = s
          BY <1>18 DEF Swap
        <4> QED
          BY <2>0, <3>2, <4>2, <4>4, <4>5 DEF Written
      <3> QED
        BY <3>1, <3>2
    <2>4. ASSUME NEW u \in Thread
          PROVE  Candidate(u)'
      BY <1>18, CandidateQuiet
      DEF Swap, Inv3, Inv2, Inv1, TypeOK, Calls, Call,
          Objects, Object, Entering, Committing, InTurn, Candidate
    <2> QED
      BY <2>2, <2>3, <2>4 DEF Snapshots, Current
  <1>19. CASE UNCHANGED vars
    <2>1. \A y \in Txn : Current(y)'
      BY <1>19, CurrentQuiet DEF vars
    <2>2. \A s \in Session : Written(s)'
      BY <1>19, WrittenQuiet DEF vars
    <2>3. \A u \in Thread : Candidate(u)'
      BY <1>19, CandidateQuiet DEF vars
    <2> QED
      BY <1>0, <2>1, <2>2, <2>3 DEF Snapshots, Inv3
  <1> QED
    BY <1>0, <1>1, <1>2, <1>3, <1>4, <1>5, <1>6, <1>7, <1>8, <1>9, <1>10,
       <1>11, <1>12, <1>13, <1>14, <1>15, <1>16, <1>17, <1>18, <1>19, <1>20
    DEF Next, Enter, EnterAdmit, EnterAdmitInterrupted, Commit, CommitSwap,
        CommitSwapInterrupted, Get, Inv3

LEMMA SnapshotsRelated == Spec => []Inv3
  BY SnapshotInit, SnapshotStep, PTL DEF Spec

\* While a transaction can still commit, its captured snapshot is current
\* and the token its own: the swap overwrites no other thread's turn.
THEOREM NoUpdateLost == Spec => []NoLostUpdate
  <1>1. Inv3 => NoLostUpdate
    BY DEF Inv3, Snapshots, Current, Inv2, Tokens, InTurn, NoLostUpdate, Owns
  <1> QED
    BY <1>1, SnapshotsRelated, PTL

-----------------------------------------------------------------------------
(* Every step is a step of SessionLog or leaves its variables alone.       *)

Done == [s \in Session |-> HasWritten(s)]
LogVars == <<entries, contexts, activeToken, Done, view>>

LEMMA DoneQuiet ==
  ASSUME activeToken' = activeToken, contexts' = contexts
  PROVE  Done' = Done
  BY DEF Done, HasWritten

\* Changing whether one session's transaction has written changes Done there.
LEMMA DoneAt ==
  ASSUME NEW s \in Session, NEW b \in BOOLEAN,
         HasWritten(s)' <=> b,
         \A r \in Session \ {s} : HasWritten(r)' <=> HasWritten(r)
  PROVE  Done' = [Done EXCEPT ![s] = b]
  <1>1. \A r \in Session : HasWritten(r) \in BOOLEAN /\ HasWritten(r)' \in BOOLEAN
    BY DEF HasWritten
  <1>2. HasWritten(s)' = b
    BY <1>1
  <1>3. \A r \in Session \ {s} : HasWritten(r)' = HasWritten(r)
    BY <1>1
  <1>4. Done' = [r \in Session |-> HasWritten(r)']
    BY DEF Done
  <1>5. [Done EXCEPT ![s] = b]
           = [r \in Session |-> IF r = s THEN b ELSE HasWritten(r)]
    BY DEF Done
  <1> QED
    BY <1>2, <1>3, <1>4, <1>5, Zenon

\* The turns are a transaction's whose commit ended, so none is the token's
\* of a session nobody is inside, or of a transaction still to commit.
LEMMA NotWritten ==
  ASSUME Inv3, NEW s \in Session, NEW x \in Txn \cup {NoTxn},
         x \in Txn => state[x] \notin Ended
  PROVE  \A i \in 1..Len(contexts[s]) : contexts[s][i].by # x
  <1> TAKE i \in 1..Len(contexts[s])
  <1>1. contexts[s] \in Seq(TurnRecord)
    BY DEF Inv3, Inv2, Inv1, TypeOK, Context
  <1>2. contexts[s][i].by \in Txn
    <2>1. contexts[s][i] \in TurnRecord
      BY <1>1
    <2> QED
      BY <2>1 DEF TurnRecord
  <1>3. state[contexts[s][i].by] \in Ended
    BY DEF Inv3, Snapshots, Written
  <1> QED
    BY <1>2, <1>3, SessionStoreConstants

LEMMA InitRefines == Init => Log!Init
  <1> SUFFICES ASSUME Init
               PROVE  Log!Init
    OBVIOUS
  <1>1. Done = [s \in Session |-> FALSE]
    BY SessionStoreConstants DEF Init, Done, HasWritten
  <1> QED
    BY <1>1 DEF Init, Log!Init, Done

\* _close_resources ends the turn of a transaction that has the token.
LEMMA CloseRefines ==
  ASSUME Inv3, NEW t \in Thread, NEW x \in Txn, session[x] \in Session,
         CloseResources(t, x), entries' = entries, contexts' = contexts,
         view' = view
  PROVE  (\E s \in Session : Log!End(s)) \/ UNCHANGED LogVars
  <1> USE SessionStoreConstants
  <1> PICK s \in Session : s = session[x]
    OBVIOUS
  <1>1. CASE activeToken[s] = x
    <2>1. activeToken' = [activeToken EXCEPT ![s] = NoTxn]
      BY <1>1 DEF CloseResources
    <2>4. Done' = [Done EXCEPT ![s] = FALSE]
      <3>1. activeToken'[s] = NoTxn
        BY <2>1 DEF Inv3, Inv2, Inv1, TypeOK
      <3>2. HasWritten(s)' <=> FALSE
        BY <3>1, NotWritten DEF HasWritten
      <3>3. ASSUME NEW r \in Session \ {s}
            PROVE  HasWritten(r)' <=> HasWritten(r)
        <4>1. activeToken'[r] = activeToken[r]
          BY <2>1 DEF Inv3, Inv2, Inv1, TypeOK
        <4> QED
          BY <4>1 DEF HasWritten
      <3> QED
        BY <3>2, <3>3, DoneAt
    <2>5. Log!End(s)
      BY <1>1, <2>1, <2>4 DEF Log!End, Done
    <2> QED
      BY <2>5
  <1>2. CASE activeToken[s] # x
    <2>1. activeToken' = activeToken
      BY <1>2 DEF CloseResources, Inv3, Inv2, Inv1, TypeOK
    <2>4. Done' = Done
      BY <2>1, DoneQuiet
    <2> QED
      BY <2>1, <2>4 DEF LogVars
  <1> QED
    BY <1>1, <1>2

LEMMA StepRefines ==
  ASSUME Inv3, [Next]_vars
  PROVE  Log!Next \/ UNCHANGED LogVars
  <1> USE SessionStoreConstants DEF entryVars, txnVars, threadVars, Return, Goto
  <1>1. ASSUME NEW t \in Thread, NEW s \in Session, GetBegin(t, s)
        PROVE  UNCHANGED LogVars
    <2>1. Done' = Done
      BY <1>1, DoneQuiet
      DEF GetBegin, Inv3, Inv2, Inv1, TypeOK, Calls, Call,
          Objects, Object, Entering, Committing, InTurn, Tokens
    <2> QED
      BY <1>1, <2>1 DEF GetBegin, LogVars
  <1>2. ASSUME NEW t \in Thread, NEW x \in Txn, NEW s \in Session,
               NEW n \in 1..MaxTurn, CreateTransaction(t, x, s, n)
        PROVE  UNCHANGED LogVars
    <2>1. Done' = Done
      BY <1>2, DoneQuiet
      DEF CreateTransaction, Inv3, Inv2, Inv1, TypeOK, Calls, Call,
          Objects, Object, Entering, Committing, InTurn, Tokens
    <2> QED
      BY <1>2, <2>1 DEF CreateTransaction, LogVars
  <1>3. ASSUME NEW t \in Thread, NEW x \in Txn, CloseUnentered(t, x)
        PROVE  UNCHANGED LogVars
    <2>1. Done' = Done
      BY <1>3, DoneQuiet
      DEF CloseUnentered, Inv3, Inv2, Inv1, TypeOK, Calls, Call,
          Objects, Object, Entering, Committing, InTurn, Tokens
    <2> QED
      BY <1>3, <2>1 DEF CloseUnentered, LogVars
  <1>4. ASSUME NEW t \in Thread, NEW x \in Txn, EnterClaim(t, x)
        PROVE  UNCHANGED LogVars
    <2>1. Done' = Done
      BY <1>4, DoneQuiet
      DEF EnterClaim, Inv3, Inv2, Inv1, TypeOK, Calls, Call,
          Objects, Object, Entering, Committing, InTurn, Tokens
    <2> QED
      BY <1>4, <2>1 DEF EnterClaim, LogVars
  <1>5. ASSUME NEW t \in Thread, NEW x \in Txn, NEW next \in Drafts(x),
               CommitClaim(t, x, next)
        PROVE  UNCHANGED LogVars
    <2>1. Done' = Done
      BY <1>5, DoneQuiet
      DEF CommitClaim, Inv3, Inv2, Inv1, TypeOK, Calls, Call,
          Objects, Object, Entering, Committing, InTurn, Tokens
    <2> QED
      BY <1>5, <2>1 DEF CommitClaim, LogVars
  <1>6. ASSUME NEW t \in Thread, EnterNested(t)
        PROVE  UNCHANGED LogVars
    <2>1. Done' = Done
      BY <1>6, DoneQuiet
      DEF EnterNested, Inv3, Inv2, Inv1, TypeOK, Calls, Call,
          Objects, Object, Entering, Committing, InTurn, Tokens
    <2> QED
      BY <1>6, <2>1 DEF EnterNested, LogVars
  <1>7. ASSUME NEW t \in Thread, EnterRegister(t)
        PROVE  UNCHANGED LogVars
    <2>1. Done' = Done
      BY <1>7, DoneQuiet
      DEF EnterRegister, Inv3, Inv2, Inv1, TypeOK, Calls, Call,
          Objects, Object, Entering, Committing, InTurn, Tokens
    <2> QED
      BY <1>7, <2>1 DEF EnterRegister, LogVars
  <1>8. ASSUME NEW t \in Thread, EnterAcquire(t)
        PROVE  UNCHANGED LogVars
    <2>1. Done' = Done
      BY <1>8, DoneQuiet
      DEF EnterAcquire, Inv3, Inv2, Inv1, TypeOK, Calls, Call,
          Objects, Object, Entering, Committing, InTurn, Tokens
    <2> QED
      BY <1>8, <2>1 DEF EnterAcquire, LogVars
  <1>20. ASSUME NEW t \in Thread, EnterNote(t)
        PROVE  UNCHANGED LogVars
    <2>1. Done' = Done
      BY <1>20, DoneQuiet
      DEF EnterNote, Inv3, Inv2, Inv1, TypeOK, Calls, Call,
          Objects, Object, Entering, Committing, InTurn, Tokens
    <2> QED
      BY <1>20, <2>1 DEF EnterNote, LogVars
  <1>9. ASSUME NEW t \in Thread, CommitValidate(t)
        PROVE  UNCHANGED LogVars
    <2>1. Done' = Done
      BY <1>9, DoneQuiet
      DEF CommitValidate, Inv3, Inv2, Inv1, TypeOK, Calls, Call,
          Objects, Object, Entering, Committing, InTurn, Tokens
    <2> QED
      BY <1>9, <2>1 DEF CommitValidate, LogVars
  <1>10. ASSUME NEW t \in Thread, GetAcquire(t)
        PROVE  UNCHANGED LogVars
    <2>1. Done' = Done
      BY <1>10, DoneQuiet
      DEF GetAcquire, Inv3, Inv2, Inv1, TypeOK, Calls, Call,
          Objects, Object, Entering, Committing, InTurn, Tokens
    <2> QED
      BY <1>10, <2>1 DEF GetAcquire, LogVars
  <1>11. ASSUME NEW t \in Thread, CommitReject(t) \/ CommitInterrupted(t)
        PROVE  UNCHANGED LogVars
    <2>1. CommitFails(t) /\ doing[t] \in Txn /\ state[doing[t]] = "ACTIVE"
      BY <1>11 DEF CommitReject, CommitInterrupted, Inv3, Inv2, Inv1, TypeOK, Calls, Call,
          Objects, Object, Entering, Committing, InTurn, Tokens
    <2>2. Done' = Done
      BY <2>1, DoneQuiet DEF CommitFails, Inv3, Inv2, Inv1, TypeOK
    <2> QED
      BY <2>1, <2>2 DEF CommitFails, LogVars
  <1>12. ASSUME NEW t \in Thread, NEW x \in Txn, Exit(t, x)
        PROVE  Log!Next \/ UNCHANGED LogVars
    <2>1. session[x] \in Session
      BY <1>12 DEF Exit, Inv3, Inv2, Inv1, TypeOK, Calls, Call,
          Objects, Object, Entering, Committing, InTurn, Tokens
    <2> QED
      BY <1>12, <2>1, CloseRefines DEF Exit, Log!Next
  <1>13. ASSUME NEW t \in Thread, EnterReject(t)
        PROVE  Log!Next \/ UNCHANGED LogVars
    <2>1. doing[t] \in Txn /\ session[doing[t]] \in Session
      BY <1>13 DEF EnterReject, Inv3, Inv2, Inv1, TypeOK, Calls, Call,
          Objects, Object, Entering, Committing, InTurn, Tokens
    <2> QED
      BY <1>13, <2>1, CloseRefines DEF EnterReject, Log!Next
  <1>14. ASSUME NEW t \in Thread, EnterInterrupted(t)
        PROVE  Log!Next \/ UNCHANGED LogVars
    <2>1. doing[t] \in Txn /\ session[doing[t]] \in Session
      BY <1>14 DEF EnterInterrupted, Inv3, Inv2, Inv1, TypeOK, Calls, Call,
          Objects, Object, Entering, Committing, InTurn, Tokens
    <2> QED
      BY <1>14, <2>1, CloseRefines DEF EnterInterrupted, Log!Next
  <1>15. ASSUME NEW t \in Thread, NEW s \in Session, Reset(t, s)
        PROVE  Log!Next
    <2>1. contexts' = contexts
      <3>1. contexts[s] = <<>>
        BY <1>15 DEF Reset, Inv3, Snapshots, Written
      <3> QED
        BY <1>15, <3>1 DEF Reset, Inv3, Inv2, Inv1, TypeOK
    <2>2. Done' = Done
      BY <1>15, <2>1, DoneQuiet DEF Reset
    <2>3. Log!Create(s)
      BY <1>15, <2>1, <2>2 DEF Reset, Log!Create, Done
    <2> QED
      BY <2>3 DEF Log!Next
  <1>16. ASSUME NEW t \in Thread, Admit(t)
        PROVE  Log!Next
    <2>0. /\ doing[t] \in Txn /\ session[doing[t]] \in Session
          /\ session[doing[t]] \in entries /\ state[doing[t]] = "ENTERING"
      BY <1>16 DEF Admit, Inv3, Inv2, Inv1, TypeOK, Calls, Call,
          Objects, Object, Entering, Committing, InTurn, Tokens
    <2> PICK x \in Txn : x = doing[t]
      BY <2>0
    <2> PICK s \in Session : s = session[x]
      BY <2>0
    <2>1. ~Log!Wrote(x)
      BY <2>0, NotWritten DEF Log!Wrote, Ended
    <2>2. activeToken[s] = NoTxn /\ activeToken' = [activeToken EXCEPT ![s] = x]
      BY <1>16 DEF Admit, Admissible
    <2>3. Done' = Done
      <3>1. activeToken'[s] = x /\ state'[x] = "ACTIVE"
        BY <1>16, <2>0, <2>2 DEF Admit, Inv3, Inv2, Inv1, TypeOK
      <3>2. ~HasWritten(s) /\ ~HasWritten(s)'
        <4>1. contexts' = contexts
          BY <1>16 DEF Admit
        <4>2. \A i \in 1..Len(contexts[s]) : /\ contexts[s][i].by # NoTxn
                                            /\ contexts[s][i].by # x
          BY <2>0, NotWritten DEF Ended
        <4> QED
          BY <2>2, <3>1, <4>1, <4>2 DEF HasWritten
      <3>4. ASSUME NEW r \in Session \ {s}
            PROVE  HasWritten(r)' <=> HasWritten(r)
        <4>1. activeToken'[r] = activeToken[r] /\ contexts' = contexts
          BY <1>16, <2>2 DEF Admit, Inv3, Inv2, Inv1, TypeOK
        <4> QED
          BY <4>1 DEF HasWritten
      <3>5. Done' = [Done EXCEPT ![s] = FALSE]
        BY <2>0, <3>2, <3>4, DoneAt
      <3>6. Done[s] = FALSE
        BY <2>0, <3>2 DEF Done
      <3> QED
        BY <3>5, <3>6 DEF Done
    <2>4. Log!Begin(s, x)
      BY <1>16, <2>0, <2>1, <2>2, <2>3 DEF Admit, Log!Begin, Done
    <2> QED
      BY <2>0, <2>4 DEF Log!Next
  <1>17. ASSUME NEW t \in Thread, NEW o \in {"COMMITTED", "FAILED"}, Swap(t, o)
        PROVE  Log!Next
    <2>0. /\ doing[t] \in Txn /\ session[doing[t]] \in Session
          /\ state[doing[t]] = "ACTIVE"
      BY <1>17 DEF Swap, Inv3, Inv2, Inv1, TypeOK, Calls, Call,
          Objects, Object, Entering, Committing, InTurn, Tokens
    <2> PICK x \in Txn : x = doing[t]
      BY <2>0
    <2> PICK s \in Session : s = session[x]
      BY <2>0
    <2>1. activeToken[s] = x /\ activeToken' = activeToken
      BY <1>17, <2>0 DEF Swap, Inv3, Inv2, Tokens, InTurn
    <2>2. contexts' = [contexts EXCEPT
                         ![s] = Append(@, Log!Turn(Len(@) + 1, activeToken[s]))]
      <3>1. /\ draft[x] \in Drafts(x) /\ captured[x] = contexts[s]
            /\ ValidTransition(captured[x], draft[x], turn[x])
        BY <1>17, <2>0 DEF Swap, Acceptable, Owns, Inv3, Snapshots,
                        Candidate, Committing
      <3>2. draft[x] = Append(contexts[s], Record(Len(contexts[s]) + 1, x))
        BY <2>0, <3>1, AcceptedDraft DEF Inv3, Inv2, Inv1
      <3> QED
        BY <1>17, <2>1, <3>2 DEF Swap, Record, Log!Turn
    <2>3. \A r \in Session \ {s} : contexts'[r] = contexts[r]
      BY <2>2 DEF Inv3, Inv2, Inv1, TypeOK
    <2>4. HasWritten(s)'
      <3> DEFINE c == contexts[s]
                 e == Log!Turn(Len(c) + 1, x)
      <3>1. c \in Seq(TurnRecord)
        BY DEF Inv3, Inv2, Inv1, TypeOK, Context
      <3>2. e \in TurnRecord /\ e.by = x
        BY <3>1 DEF Log!Turn, TurnRecord
      <3>3. contexts'[s] = Append(c, e)
        BY <2>1, <2>2 DEF Inv3, Inv2, Inv1, TypeOK
      <3>4. activeToken'[s] = x
        BY <2>1
      <3>5. /\ Len(contexts'[s]) = Len(c) + 1 /\ Len(c) \in Nat
            /\ contexts'[s][Len(c) + 1] = e
        <4> HIDE DEF c, e
        <4> QED
          BY <3>1, <3>2, <3>3
      <3> HIDE DEF c, e
      <3>6. /\ Len(c) + 1 \in 1..Len(contexts'[s])
            /\ contexts'[s][Len(c) + 1].by = activeToken'[s]
        BY <3>2, <3>4, <3>5
      <3> QED
        BY <3>6 DEF HasWritten
    <2>5. Done' = [Done EXCEPT ![s] = TRUE]
      <3>1. HasWritten(s)' <=> TRUE
        BY <2>4
      <3>2. ASSUME NEW r \in Session \ {s}
            PROVE  HasWritten(r)' <=> HasWritten(r)
        BY <2>1, <2>3 DEF HasWritten
      <3> QED
        BY <2>0, <3>1, <3>2, DoneAt
    <2>6. ~Done[s] /\ activeToken[s] # NoTxn
      <3>1. ~HasWritten(s)
        BY <2>0, <2>1, NotWritten DEF HasWritten, Ended
      <3> QED
        BY <2>0, <2>1, <3>1 DEF Done
    <2>7. Log!AppendTurn(s)
      BY <1>17, <2>1, <2>2, <2>5, <2>6 DEF Swap, Log!AppendTurn, Done
    <2> QED
      BY <2>0, <2>7 DEF Log!Next
  <1>18. ASSUME NEW t \in Thread, GetReturn(t)
        PROVE  Log!Next
    <2>0. asking[t] \in entries /\ asking[t] \in Session
      BY <1>18 DEF GetReturn, Inv3, Inv2, Inv1, TypeOK, Calls, Call,
          Objects, Object, Entering, Committing, InTurn, Tokens
    <2> DEFINE s == asking[t]
    <2>1. activeToken[s] = NoTxn
      <3>1. Reads(t, s)
        BY <1>18 DEF GetReturn, Reads
      <3>2. \A y \in Txn : ~Holds(y, s)
        BY <2>0, <3>1 DEF Inv3, Inv2, LockDiscipline
      <3>3. activeToken[s] # NoTxn => Holds(activeToken[s], s)
        BY <2>0 DEF Holds, Inv3, Inv2, Inv1, TypeOK, Calls, Call,
          Objects, Object, Entering, Committing, InTurn, Tokens
      <3> QED
        BY <2>0, <3>2, <3>3 DEF Inv3, Inv2, Inv1, TypeOK
    <2>2. Done' = Done
      BY <1>18, DoneQuiet DEF GetReturn
    <2>3. Log!Read(t, s)
      BY <1>18, <2>0, <2>1, <2>2 DEF GetReturn, Log!Read, Done
    <2> QED
      BY <2>0, <2>3 DEF Log!Next
  <1>19. CASE UNCHANGED vars
    <2>1. Done' = Done
      BY <1>19, DoneQuiet DEF vars
    <2> QED
      BY <1>19, <2>1 DEF vars, LogVars
  <1> QED
    BY <1>1, <1>2, <1>3, <1>4, <1>5, <1>6, <1>7, <1>8, <1>9, <1>10, <1>11,
       <1>12, <1>13, <1>14, <1>15, <1>16, <1>17, <1>18, <1>19, <1>20
    DEF Next, Enter, EnterAdmit, EnterAdmitInterrupted, Commit, CommitSwap,
        CommitSwapInterrupted, Get

\* The store implements the append-only session log: committed snapshots
\* only grow, by one turn of the one open transaction, and are read only
\* between transactions.
THEOREM StoreImplementsLog == Spec => ImplementsSessionLog
  <1>1. Inv3 /\ [Next]_vars => [Log!Next]_(Log!vars)
    BY StepRefines DEF LogVars, Done, Log!vars
  <1> QED
    BY <1>1, InitRefines, SnapshotsRelated, PTL
    DEF Spec, ImplementsSessionLog, Log!Spec
=============================================================================
