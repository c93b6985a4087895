---- MODULE ResponseCoordinator ----
(***************************************************************************)
(* OrderResponseCoordinator: the hand-off between API calls, which block   *)
(* until their order has been processed, and the pipeline threads, which   *)
(* notify the result.  A background cleaner and the shutdown procedure     *)
(* touch the same two dictionaries.                                        *)
(*                                                                         *)
(* Every action is one section under the coordinator's lock, or one step   *)
(* of a thread between two such sections.  An element of Requests is one   *)
(* API call; it gets a fresh request id, so the call also stands for the   *)
(* id and for the PendingRequest object, which outlives its entry in the   *)
(* dictionary because the waiting thread keeps a reference to it.          *)
(***************************************************************************)
EXTENDS Naturals, FiniteSets

CONSTANTS
  Requests,     \* API calls
  MaxPending,   \* config.max_pending_requests
  Timeout,      \* Timeout[r]: timeout_seconds given when r is registered
  Retention     \* config.cleanup_interval_seconds

ASSUME RequestsAssumption == IsFiniteSet(Requests)
ASSUME MaxPendingAssumption == MaxPending \in Nat \ {0}
ASSUME TimeAssumption ==
  /\ Timeout \in [Requests -> Nat \ {0}]
  /\ Retention \in Nat

VARIABLES
  pending,    \* keys of _pending_requests
  results,    \* _completion_results, "none" where there is no entry
  status,     \* PendingRequest.status
  event,      \* PendingRequest.completion_event
  age,        \* time since registration, saturating at AgeCap
  pc,         \* where the API call is
  answer,     \* what the API call returned
  stage,      \* progress of shutdown(); _shutdown is stage # "running"
  cleaner,    \* the cleanup thread: asleep, or awake and about to clean
  verdict     \* history: the first notification the coordinator stored

vars == <<pending, results, status, event, age, pc, answer, stage, cleaner,
          verdict>>

\* "PROCESSING" stands for VALIDATING, MATCHING and SETTLING.
Active   == {"PENDING", "PROCESSING"}
Terminal == {"COMPLETED", "TIMEOUT", "ERROR"}

\* Mutant: a status that is_terminal does not know.
AnyVerdict == {"COMPLETED", "ERROR", "REJECTED"}
Verdict  == {"COMPLETED", "ERROR"}
Result   == {"COMPLETED", "ERROR", "TIMEOUT", "SHUTDOWN"}

\* What the client sees instead of a result: register_request refused the
\* call, wait_for_completion did not find it, or was woken without a result.
Failure  == {"REFUSED", "NOT_FOUND", "NO_RESULT"}

\* The call has been given to the pipeline and has not returned.
Submitted == {"enqueued", "waiting", "woken", "timedOut"}

\* Ages from here on are not told apart by any guard.
AgeCap(r) == IF Timeout[r] > Retention THEN Timeout[r] ELSE Retention + 1

Expired(r) == age[r] >= Timeout[r]

TypeOK ==
  /\ pending \subseteq Requests
  /\ results \in [Requests -> Result \cup {"none"}]
  /\ status \in [Requests -> Active \cup Terminal]
  /\ event \in [Requests -> BOOLEAN]
  /\ age \in [Requests -> Nat]
  /\ pc \in [Requests -> Submitted \cup {"idle", "registered", "done"}]
  /\ answer \in [Requests -> Result \cup Failure \cup {"none"}]
  /\ stage \in {"running", "signalled", "cleared"}
  /\ cleaner \in {"asleep", "due"}
  /\ verdict \in [Requests -> Verdict \cup {"none"}]

Init ==
  /\ pending = {}
  /\ results = [r \in Requests |-> "none"]
  /\ status = [r \in Requests |-> "PENDING"]
  /\ event = [r \in Requests |-> FALSE]
  /\ age = [r \in Requests |-> 0]
  /\ pc = [r \in Requests |-> "idle"]
  /\ answer = [r \in Requests |-> "none"]
  /\ stage = "running"
  /\ cleaner = "asleep"
  /\ verdict = [r \in Requests |-> "none"]

-----------------------------------------------------------------------------
(* The API call. *)

Return(r, a) ==
  /\ pc' = [pc EXCEPT ![r] = "done"]
  /\ answer' = [answer EXCEPT ![r] = a]

\* Mutants: the shutdown flag is not looked at, the bound is off by one.
RoomOnly == Cardinality(pending) < MaxPending
OneTooMany == stage = "running" /\ Cardinality(pending) <= MaxPending

CanRegister == stage = "running" /\ Cardinality(pending) < MaxPending

Register(r) ==
  /\ pc[r] = "idle"
  /\ CanRegister
  /\ pending' = pending \cup {r}
  /\ status' = [status EXCEPT ![r] = "PENDING"]
  /\ event' = [event EXCEPT ![r] = FALSE]
  /\ pc' = [pc EXCEPT ![r] = "registered"]
  /\ UNCHANGED <<results, age, answer, stage, cleaner, verdict>>

RegisterRefused(r) ==
  /\ pc[r] = "idle"
  /\ ~CanRegister
  /\ Return(r, "REFUSED")
  /\ UNCHANGED <<pending, results, status, event, age, stage, cleaner, verdict>>

Enqueue(r) ==
  /\ pc[r] = "registered"
  /\ pc' = [pc EXCEPT ![r] = "enqueued"]
  /\ UNCHANGED <<pending, results, status, event, age, answer, stage, cleaner,
                 verdict>>

BeginWait(r) ==
  /\ pc[r] = "enqueued"
  /\ IF r \in pending
     THEN /\ pc' = [pc EXCEPT ![r] = "waiting"]
          /\ UNCHANGED answer
     ELSE Return(r, "NOT_FOUND")
  /\ UNCHANGED <<pending, results, status, event, age, stage, cleaner, verdict>>

\* completion_event.wait returns True; the lock is not held yet.
Wake(r) ==
  /\ pc[r] = "waiting"
  /\ event[r]
  /\ pc' = [pc EXCEPT ![r] = "woken"]
  /\ UNCHANGED <<pending, results, status, event, age, answer, stage, cleaner,
                 verdict>>

Collect(r) ==
  /\ pc[r] = "woken"
  /\ IF results[r] # "none"
     THEN /\ pending' = pending \ {r}
          /\ results' = [results EXCEPT ![r] = "none"]
          /\ Return(r, results[r])
     ELSE /\ Return(r, "NO_RESULT")
          /\ UNCHANGED <<pending, results>>
  /\ UNCHANGED <<status, event, age, stage, cleaner, verdict>>

\* Mutant: wait is called without its timeout.
WaitsForever(r) == FALSE

\* completion_event.wait returns False; the lock is not held yet.
WaitTimesOut(r) ==
  /\ pc[r] = "waiting"
  /\ ~event[r]
  /\ Expired(r)
  /\ pc' = [pc EXCEPT ![r] = "timedOut"]
  /\ UNCHANGED <<pending, results, status, event, age, answer, stage, cleaner,
                 verdict>>

\* Mutant: the timeout is returned and the entry forgotten.
TimeoutKeepsEntry(r) ==
  /\ pc[r] = "timedOut"
  /\ Return(r, "TIMEOUT")
  /\ UNCHANGED <<pending, results, status, event, age, stage, cleaner, verdict>>

\* The entry in _completion_results, if there is one by now, is left behind.
TimeoutRemove(r) ==
  /\ pc[r] = "timedOut"
  /\ Return(r, "TIMEOUT")
  /\ pending' = pending \ {r}
  /\ status' = IF r \in pending THEN [status EXCEPT ![r] = "TIMEOUT"]
                                ELSE status
  /\ UNCHANGED <<results, event, age, stage, cleaner, verdict>>

-----------------------------------------------------------------------------
(* The pipeline threads.  A call for an unknown or terminal request changes *)
(* nothing, and may come at any time.                                       *)

\* Mutant: a terminal request is not refused.
NotifiableAgain(r) == r \in pending

Notifiable(r) == r \in pending /\ status[r] \notin Terminal

Notify(r, v) ==
  /\ pc[r] \in Submitted
  /\ Notifiable(r)
  /\ status' = [status EXCEPT ![r] = v]
  /\ results' = [results EXCEPT ![r] = v]
  /\ event' = [event EXCEPT ![r] = TRUE]
  /\ verdict' = [verdict EXCEPT ![r] = IF @ = "none" THEN v ELSE @]
  /\ UNCHANGED <<pending, age, pc, answer, stage, cleaner>>

\* Any status is stored, a terminal one too, and nobody is told of it.
UpdateStatus(r, s) ==
  /\ pc[r] \in Submitted
  /\ Notifiable(r)
  /\ status' = [status EXCEPT ![r] = s]
  /\ UNCHANGED <<pending, results, event, age, pc, answer, stage, cleaner,
                 verdict>>

-----------------------------------------------------------------------------
(* The cleanup thread. *)

\* Mutant: the retention period is not looked at.
CleanAtOnce(r) == status[r] \in Terminal

ShouldCleanCompleted(r) == status[r] \in Terminal /\ age[r] > Retention

CleanerWakes ==
  /\ cleaner = "asleep"
  /\ stage = "running"
  /\ cleaner' = "due"
  /\ UNCHANGED <<pending, results, status, event, age, pc, answer, stage,
                 verdict>>

ExpiredRequests == {r \in pending : Expired(r)}

\* Mutant: expired requests are marked and not removed.
CompletedOnly == {r \in pending : ShouldCleanCompleted(r)}

Removed == ExpiredRequests \cup {r \in pending : ShouldCleanCompleted(r)}

\* An expired request gets a timeout result and its event is set, and the
\* same section then removes the request together with that result.
Cleanup ==
  /\ cleaner = "due"
  /\ cleaner' = "asleep"
  /\ pending' = pending \ Removed
  /\ results' = [r \in Requests |-> IF r \in Removed THEN "none" ELSE results[r]]
  /\ status' = [r \in Requests |->
                  IF r \in ExpiredRequests THEN "TIMEOUT" ELSE status[r]]
  /\ event' = [r \in Requests |->
                 event[r] \/ (r \in ExpiredRequests /\ status[r] # "TIMEOUT")]
  /\ UNCHANGED <<age, pc, answer, stage, verdict>>

-----------------------------------------------------------------------------
(* shutdown(): two sections under the lock, with the lock free between them. *)

ShutdownSignal ==
  LET open == {r \in pending : status[r] \notin Terminal}
  IN /\ stage = "running"
     /\ stage' = "signalled"
     /\ status' = [r \in Requests |-> IF r \in open THEN "ERROR" ELSE status[r]]
     /\ results' = [r \in Requests |->
                      IF r \in open THEN "SHUTDOWN" ELSE results[r]]
     /\ event' = [r \in Requests |-> event[r] \/ r \in open]
     /\ UNCHANGED <<pending, age, pc, answer, cleaner, verdict>>

\* Mutant: the cached responses are not cleared.
ShutdownClearsRequests ==
  /\ stage = "signalled"
  /\ stage' = "cleared"
  /\ pending' = {}
  /\ UNCHANGED <<results, status, event, age, pc, answer, cleaner, verdict>>

ShutdownClear ==
  /\ stage = "signalled"
  /\ stage' = "cleared"
  /\ pending' = {}
  /\ results' = [r \in Requests |-> "none"]
  /\ UNCHANGED <<status, event, age, pc, answer, cleaner, verdict>>

-----------------------------------------------------------------------------

Aging == {r \in Requests : r \in pending \/ pc[r] \notin {"idle", "done"}}

Tick ==
  /\ \E r \in Aging : age[r] < AgeCap(r)
  /\ age' = [r \in Requests |-> IF r \in Aging /\ age[r] < AgeCap(r)
                                THEN age[r] + 1 ELSE age[r]]
  /\ UNCHANGED <<pending, results, status, event, pc, answer, stage, cleaner,
                 verdict>>

\* The steps an API call takes by itself once it is registered.
ApiStep(r) ==
  Enqueue(r) \/ BeginWait(r) \/ Wake(r) \/ Collect(r) \/ WaitTimesOut(r)
    \/ TimeoutRemove(r)

Next ==
  \/ \E r \in Requests : Register(r) \/ RegisterRefused(r) \/ ApiStep(r)
  \/ \E r \in Requests, v \in Verdict : Notify(r, v)
  \/ \E r \in Requests, s \in Active \cup Terminal : UpdateStatus(r, s)
  \/ CleanerWakes \/ Cleanup
  \/ ShutdownSignal \/ ShutdownClear
  \/ Tick

SafeSpec == Init /\ [][Next]_vars

\* An API thread that can take its next step eventually does, and time passes.
\* Nothing is assumed of the pipeline, of the cleaner or of shutdown.
Spec ==
  /\ SafeSpec
  /\ \A r \in Requests : WF_vars(ApiStep(r))
  /\ WF_vars(Tick)

-----------------------------------------------------------------------------
(* Safety. *)

\* register_request promises at most max_pending_requests entries; entries
\* come and go through five different code paths.
CapacityRespected == Cardinality(pending) <= MaxPending

\* A call that has returned holds no slot: no path out of wait_for_completion
\* leaks capacity.
DoneHoldsNoSlot == \A r \in pending : pc[r] \notin {"idle", "done"}

\* For a tracked request the event and the stored result appear together, with
\* a terminal status: nobody is woken for nothing while the entry exists, and no
\* result is stored without waking its waiter.
PendingConsistent ==
  \A r \in pending :
    /\ event[r] <=> results[r] # "none"
    /\ event[r] => status[r] \in Terminal

\* A woken call that finds a result also finds its entry in
\* _pending_requests, so the two deletions in wait_for_completion cannot fail.
CollectFindsEntry ==
  \A r \in Requests : pc[r] = "woken" /\ results[r] # "none" => r \in pending

\* The client is told a verdict only if it is the first one notified for its
\* request, whatever later notifications, cleanups or shutdown did.
VerdictIsFirst ==
  \A r \in Requests : answer[r] \in Verdict => answer[r] = verdict[r]

Late(r) == Expired(r) \/ age[r] > Retention \/ stage # "running"

\* A registered call fails without a verdict only when it is late: it ran past
\* its timeout, past the retention period, or into shutdown.
FailsOnlyWhenLate ==
  \A r \in Requests :
    answer[r] \in {"TIMEOUT", "SHUTDOWN", "NOT_FOUND", "NO_RESULT"} => Late(r)

\* Nothing is stored after the last section of shutdown: neither a late
\* registration nor a late notification revives the dictionaries.
ClearedStaysEmpty ==
  stage = "cleared" =>
    pending = {} /\ \A r \in Requests : results[r] = "none"

\* A terminal status never becomes an active one again: update_status and
\* notify_completion both refuse, and nothing else looks back.
NeverRevived ==
  [][\A r \in Requests : status[r] \in Terminal => status'[r] \in Terminal]_vars

-----------------------------------------------------------------------------
(* Liveness and refinement. *)

\* Every registered call returns, even if the pipeline never answers, the
\* cleaner removes the request, or shutdown runs in between.
EveryCallReturns == \A r \in Requests : pc[r] = "registered" ~> pc[r] = "done"

Phase ==
  [r \in Requests |-> CASE pc[r] = "idle" -> "idle"
                        [] pc[r] = "done" -> "closed"
                        [] OTHER -> "open"]

Contract == INSTANCE RequestReply WITH phase <- Phase

\* The coordinator implements the contract of the order API, its liveness
\* included.
ImplementsContract == Contract!Spec
====
