---- MODULE ResponseCoordinatorProofs ----
(***************************************************************************)
(* Machine-checked proofs about ResponseCoordinator, for every finite set  *)
(* of calls, every capacity, all timeouts and every retention period.      *)
(***************************************************************************)
EXTENDS ResponseCoordinator, FiniteSetTheorems, TLAPS

USE RequestsAssumption, MaxPendingAssumption, TimeAssumption

-----------------------------------------------------------------------------
(* The inductive invariant.  The properties are not inductive by themselves: *)
(* they need to know how an entry of a dictionary relates to where its call  *)
(* is, and why a call can be without an entry.                               *)

\* A stored verdict is the first one, a request without terminal status has
\* none yet, as has a call that is not registered, and the shutdown result is
\* stored only by shutdown.
StoredResults ==
  \A r \in Requests :
    /\ results[r] \in Verdict => results[r] = verdict[r]
    /\ results[r] = "SHUTDOWN" => stage # "running"
    /\ results[r] # "TIMEOUT"
    /\ r \in pending /\ status[r] \notin Terminal => verdict[r] = "none"
    /\ pc[r] = "idle" => verdict[r] = "none" /\ status[r] = "PENDING"

\* Only a call that timed out, or returned after it did, can have a result
\* without an entry.
NoOrphanWhileWaiting ==
  \A r \in Requests :
    r \notin pending /\ pc[r] \in {"idle", "registered", "enqueued", "waiting", "woken"}
      => results[r] = "none"

\* An open call that lost its entry is late, and so is one that timed out.
LostEntriesAreLate ==
  \A r \in Requests :
    /\ pc[r] \notin {"idle", "done"} /\ r \notin pending => Late(r)
    /\ pc[r] = "timedOut" => Expired(r)
    /\ pc[r] # "done" => answer[r] = "none"
    /\ pc[r] = "woken" => event[r]

Inv ==
  /\ TypeOK
  /\ DoneHoldsNoSlot
  /\ PendingConsistent
  /\ StoredResults
  /\ NoOrphanWhileWaiting
  /\ LostEntriesAreLate
  /\ VerdictIsFirst
  /\ FailsOnlyWhenLate
  /\ ClearedStaysEmpty
-----------------------------------------------------------------------------

\* The initial state satisfies the invariant.
LEMMA InitInv == Init => Inv
BY DEF Init, Inv, TypeOK, DoneHoldsNoSlot, PendingConsistent, StoredResults,
       NoOrphanWhileWaiting, LostEntriesAreLate, VerdictIsFirst,
       FailsOnlyWhenLate, ClearedStaysEmpty, Active, Terminal, Verdict, Result,
       Failure, Submitted, Late, Expired

\* Every step preserves the invariant.
LEMMA NextInv == Inv /\ [Next]_vars => Inv'
<1> SUFFICES ASSUME Inv, [Next]_vars PROVE Inv'
  OBVIOUS
<1> USE DEF Inv, TypeOK, DoneHoldsNoSlot, PendingConsistent, StoredResults,
            NoOrphanWhileWaiting, LostEntriesAreLate, VerdictIsFirst,
            FailsOnlyWhenLate, ClearedStaysEmpty, Active, Terminal, Verdict,
            Result, Failure, Submitted, Late, Expired
<1>1. ASSUME NEW r \in Requests, Register(r) PROVE Inv'
  BY <1>1 DEF Register, CanRegister
<1>2. ASSUME NEW r \in Requests, RegisterRefused(r) PROVE Inv'
  BY <1>2 DEF RegisterRefused, CanRegister, Return
<1>3. ASSUME NEW r \in Requests, Enqueue(r) PROVE Inv'
  BY <1>3 DEF Enqueue
<1>4. ASSUME NEW r \in Requests, BeginWait(r) PROVE Inv'
  BY <1>4 DEF BeginWait, Return
<1>5. ASSUME NEW r \in Requests, Wake(r) PROVE Inv'
  BY <1>5 DEF Wake
<1>6. ASSUME NEW r \in Requests, Collect(r) PROVE Inv'
  BY <1>6 DEF Collect, Return
<1>7. ASSUME NEW r \in Requests, WaitTimesOut(r) PROVE Inv'
  BY <1>7 DEF WaitTimesOut
<1>8. ASSUME NEW r \in Requests, TimeoutRemove(r) PROVE Inv'
  BY <1>8 DEF TimeoutRemove, Return
<1>9. ASSUME NEW r \in Requests, NEW v \in Verdict, Notify(r, v) PROVE Inv'
  BY <1>9 DEF Notify, Notifiable
<1>10. ASSUME NEW r \in Requests, NEW s \in Active \cup Terminal, UpdateStatus(r, s) PROVE Inv'
  BY <1>10 DEF UpdateStatus, Notifiable
<1>11. ASSUME CleanerWakes PROVE Inv'
  BY <1>11 DEF CleanerWakes
<1>12. ASSUME Cleanup PROVE Inv'
  BY <1>12 DEF Cleanup, ExpiredRequests, Removed, ShouldCleanCompleted
<1>13. ASSUME ShutdownSignal PROVE Inv'
  <2>1. /\ stage = "running" /\ stage' = "signalled"
        /\ UNCHANGED <<pending, age, pc, answer, cleaner, verdict>>
    BY <1>13 DEF ShutdownSignal
  <2>2. ASSUME NEW r \in Requests, r \in pending, status[r] \notin Terminal
        PROVE  status'[r] = "ERROR" /\ results'[r] = "SHUTDOWN" /\ event'[r]
    BY <1>13, <2>2 DEF ShutdownSignal
  <2>3. ASSUME NEW r \in Requests, ~(r \in pending /\ status[r] \notin Terminal)
        PROVE  status'[r] = status[r] /\ results'[r] = results[r] /\ event'[r] = event[r]
    BY <1>13, <2>3 DEF ShutdownSignal
  <2>4. TypeOK'
    BY <1>13, <2>1 DEF ShutdownSignal
  <2>5. PendingConsistent' /\ StoredResults' /\ NoOrphanWhileWaiting'
    BY <2>1, <2>2, <2>3
  <2>6. LostEntriesAreLate' /\ FailsOnlyWhenLate'
    BY <2>1, <2>2, <2>3
  <2> QED
    BY <2>1, <2>4, <2>5, <2>6
<1>14. ASSUME ShutdownClear PROVE Inv'
  BY <1>14 DEF ShutdownClear
<1>15. ASSUME Tick PROVE Inv'
  BY <1>15 DEF Tick, Aging, AgeCap
<1>16. ASSUME UNCHANGED vars PROVE Inv'
  BY <1>16 DEF vars
<1> QED
  BY <1>1, <1>2, <1>3, <1>4, <1>5, <1>6, <1>7, <1>8, <1>9, <1>10, <1>11, <1>12, <1>13, <1>14, <1>15, <1>16 DEF Next, ApiStep

\* The invariant holds in every reachable state.
THEOREM InvHolds == SafeSpec => []Inv
BY InitInv, NextInv, PTL DEF SafeSpec

-----------------------------------------------------------------------------
(* The properties. *)

\* The coordinator's variables always have their types.
THEOREM TypeCorrect == SafeSpec => []TypeOK
<1>1. Inv => TypeOK
  BY DEF Inv
<1> QED
  BY <1>1, InvHolds, PTL

\* A call that has returned holds no slot of the table.
THEOREM NoSlotLeak == SafeSpec => []DoneHoldsNoSlot
<1>1. Inv => DoneHoldsNoSlot
  BY DEF Inv
<1> QED
  BY <1>1, InvHolds, PTL

\* For a tracked request the event is set exactly when a result is stored, and
\* then the status is terminal, whatever update_status stores meanwhile.
THEOREM Consistent == SafeSpec => []PendingConsistent
<1>1. Inv => PendingConsistent
  BY DEF Inv
<1> QED
  BY <1>1, InvHolds, PTL

\* wait_for_completion never deletes an entry that is not there.
THEOREM CollectSafe == SafeSpec => []CollectFindsEntry
<1>1. Inv => CollectFindsEntry
  BY DEF Inv, NoOrphanWhileWaiting, CollectFindsEntry
<1> QED
  BY <1>1, InvHolds, PTL

\* A client is told only the first verdict notified for its own request.
THEOREM FirstVerdict == SafeSpec => []VerdictIsFirst
<1>1. Inv => VerdictIsFirst
  BY DEF Inv
<1> QED
  BY <1>1, InvHolds, PTL

\* A registered call fails without a verdict only when it is late.
THEOREM LateFailures == SafeSpec => []FailsOnlyWhenLate
<1>1. Inv => FailsOnlyWhenLate
  BY DEF Inv
<1> QED
  BY <1>1, InvHolds, PTL

\* After shutdown the dictionaries stay empty.
THEOREM StaysEmpty == SafeSpec => []ClearedStaysEmpty
<1>1. Inv => ClearedStaysEmpty
  BY DEF Inv
<1> QED
  BY <1>1, InvHolds, PTL

\* A terminal status never becomes an active one again.
THEOREM Terminated == SafeSpec => NeverRevived
<1>1. Inv /\ [Next]_vars =>
        [\A r \in Requests : status[r] \in Terminal => status'[r] \in Terminal]_vars
  BY DEF Inv, TypeOK, StoredResults, Next, ApiStep, vars, Active, Terminal,
         Verdict, Register, RegisterRefused, Enqueue, BeginWait, Wake, Collect,
         Return, WaitTimesOut, TimeoutRemove, Notify, Notifiable, UpdateStatus,
         CleanerWakes, Cleanup, ExpiredRequests, ShutdownSignal, ShutdownClear, Tick
<1> QED
  BY <1>1, InvHolds, PTL DEF SafeSpec, NeverRevived

-----------------------------------------------------------------------------
(* The capacity limit. *)

\* The table of pending requests never grows past max_pending_requests.
THEOREM Capacity == SafeSpec => []CapacityRespected
<1> DEFINE CInv == pending \subseteq Requests /\ CapacityRespected
<1>1. Init => CInv
  BY FS_EmptySet DEF Init, CapacityRespected
<1>2. CInv /\ [Next]_vars => CInv'
  <2> SUFFICES ASSUME CInv, [Next]_vars PROVE CInv'
    OBVIOUS
  <2>1. IsFiniteSet(pending) /\ Cardinality(pending) \in Nat
    BY FS_Subset, FS_CardinalityType
  <2>2. ASSUME NEW r \in Requests, Register(r) PROVE CInv'
    <3>1. /\ pending' = pending \cup {r}
          /\ Cardinality(pending) < MaxPending
      BY <2>2 DEF Register, CanRegister
    <3>2. Cardinality(pending \cup {r}) =
            IF r \in pending THEN Cardinality(pending) ELSE Cardinality(pending) + 1
      BY <2>1, FS_AddElement
    <3> QED
      BY <2>1, <3>1, <3>2, FS_Subset, FS_CardinalityType DEF CapacityRespected
  <2>3. ASSUME pending' \subseteq pending PROVE CInv'
    <3>1. Cardinality(pending') <= Cardinality(pending)
          /\ Cardinality(pending') \in Nat
      BY <2>1, <2>3, FS_Subset, FS_CardinalityType
    <3> QED
      BY <2>1, <2>3, <3>1 DEF CapacityRespected
  <2>4. (\E r \in Requests : Register(r)) \/ pending' \subseteq pending
    BY DEF Next, ApiStep, vars, RegisterRefused, Enqueue, BeginWait, Wake,
           Collect, Return, WaitTimesOut, TimeoutRemove, Notify, UpdateStatus,
           CleanerWakes, Cleanup, ExpiredRequests, ShutdownSignal, ShutdownClear, Tick
  <2> QED
    BY <2>2, <2>3, <2>4
<1>3. CInv => CapacityRespected
  OBVIOUS
<1> QED
  BY <1>1, <1>2, <1>3, PTL DEF SafeSpec

-----------------------------------------------------------------------------
(* The coordinator implements the contract of the order API. *)

\* The initial state is an initial state of the contract.
LEMMA RefineInit == Init => Contract!Init
BY DEF Init, Contract!Init, Phase

\* Every step of the coordinator is a step of the contract or changes nothing
\* the contract can see.
LEMMA RefineNext == Inv /\ [Next]_vars => [Contract!Next]_(Contract!vars)
<1> SUFFICES ASSUME Inv, [Next]_vars PROVE [Contract!Next]_(Contract!vars)
  OBVIOUS
<1> USE DEF Contract!Next, Contract!vars, Phase, Inv, TypeOK, Submitted
<1>1. ASSUME NEW r \in Requests, Register(r) PROVE Contract!Open(r)
  BY <1>1 DEF Register, Contract!Open
<1>2. ASSUME NEW r \in Requests, RegisterRefused(r) PROVE Contract!Refuse(r)
  BY <1>2 DEF RegisterRefused, Return, Contract!Refuse
<1>3. ASSUME NEW r \in Requests, BeginWait(r)
      PROVE Contract!Reply(r) \/ UNCHANGED Contract!vars
  BY <1>3 DEF BeginWait, Return, Contract!Reply, Contract!ServiceFailure
<1>4. ASSUME NEW r \in Requests, Collect(r) PROVE Contract!Reply(r)
  <2> DEFINE a == IF results[r] # "none" THEN results[r] ELSE "NO_RESULT"
  <2>1. a \in ({verdict[r]} \ {"none"}) \cup Contract!ServiceFailure
    BY DEF Contract!ServiceFailure, StoredResults, Result, Verdict
  <2>2. answer' = [answer EXCEPT ![r] = a]
    BY <1>4 DEF Collect, Return
  <2> QED
    BY <1>4, <2>1, <2>2 DEF Collect, Return, Contract!Reply
<1>5. ASSUME NEW r \in Requests, TimeoutRemove(r) PROVE Contract!Reply(r)
  BY <1>5 DEF TimeoutRemove, Return, Contract!Reply, Contract!ServiceFailure
<1>6. ASSUME NEW r \in Requests, NEW v \in Verdict, Notify(r, v)
      PROVE Contract!Decide(r)
  BY <1>6 DEF Notify, Notifiable, Contract!Decide, StoredResults, Verdict,
              Contract!Verdict
<1>7. ASSUME NEW r \in Requests, Enqueue(r) \/ Wake(r) \/ WaitTimesOut(r)
      PROVE UNCHANGED Contract!vars
  BY <1>7 DEF Enqueue, Wake, WaitTimesOut
<1>8. ASSUME \/ \E r \in Requests, s \in Active \cup Terminal : UpdateStatus(r, s)
             \/ CleanerWakes \/ Cleanup \/ ShutdownSignal \/ ShutdownClear
             \/ Tick \/ UNCHANGED vars
      PROVE UNCHANGED Contract!vars
  BY <1>8 DEF UpdateStatus, CleanerWakes, Cleanup, ShutdownSignal,
              ShutdownClear, Tick, vars
<1> QED
  BY <1>1, <1>2, <1>3, <1>4, <1>5, <1>6, <1>7, <1>8 DEF Next, ApiStep

\* Safety part of ImplementsContract.
THEOREM Refinement == SafeSpec => Contract!SafeSpec
BY RefineInit, RefineNext, InvHolds, PTL DEF SafeSpec, Contract!SafeSpec
====
