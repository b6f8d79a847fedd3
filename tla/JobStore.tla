------------------------------ MODULE JobStore ------------------------------
(***************************************************************************)
(* The job table and the records that change it: src/src/types.rs,         *)
(* src/src/wal/record.rs, MemoryStore of src/src/store.rs and the relaxed  *)
(* apply of src/src/recovery.rs.  A store is a function from job ids to    *)
(* [state, attempts]; an id that was never inserted is Absent.  Payloads,  *)
(* names and timestamps are left out: no transition depends on them.       *)
(***************************************************************************)
EXTENDS Naturals, FiniteSets

CONSTANTS
    Jobs,          \* job ids: one per submission, at most 2^128
    MaxAttempts    \* JobSpec::max_attempts of each job; 0 is not rejected

ASSUME JobsAssumption ==
    /\ IsFiniteSet(Jobs)
    /\ MaxAttempts \in [Jobs -> Nat]

\* JobState, and is_terminal.
JobState ==
    {"Queued", "Running", "RetryWaiting", "Completed", "Dead", "Cancelled"}

Terminal == {"Completed", "Dead", "Cancelled"}

\* Mutant of Live: is_terminal is not consulted.
LiveAlways == JobState

\* A live job occupies queue capacity.
Live == JobState \ Terminal

Absent == [state |-> "Absent", attempts |-> 0]

\* JobRecord, reduced to the two fields that ever change.
JobRecord == [state : JobState \cup {"Absent"}, attempts : Nat]

-----------------------------------------------------------------------------
\* WalRecord: the six kinds of record and the state each one leads to.
RecordType ==
    {"JobSubmitted", "JobLeased", "JobRetryScheduled", "JobCompleted",
     "JobDead", "JobCancelled"}

TargetState ==
    [JobSubmitted      |-> "Queued",
     JobLeased         |-> "Running",
     JobRetryScheduled |-> "RetryWaiting",
     JobCompleted      |-> "Completed",
     JobDead           |-> "Dead",
     JobCancelled      |-> "Cancelled"]

\* JobSubmitted and JobCancelled carry no lease; only JobLeased's attempt is
\* ever read back.
WalRecord == [type : RecordType, id : Jobs, lease : Nat, attempt : Nat]

Record(type, id, lease, attempt) ==
    [type |-> type, id |-> id, lease |-> lease, attempt |-> attempt]

-----------------------------------------------------------------------------
\* MemoryStore::is_valid_transition.
IsValidTransition(from, to) ==
    <<from, to>> \in
        {<<"Queued", "Running">>,
         <<"Queued", "Cancelled">>,
         <<"Running", "Completed">>,
         <<"Running", "RetryWaiting">>,
         <<"Running", "Dead">>,
         <<"Running", "Cancelled">>,
         <<"RetryWaiting", "Queued">>,
         <<"RetryWaiting", "Dead">>,
         <<"RetryWaiting", "Cancelled">>}

\* What a record makes of the entry it names, once it is accepted.
Entry(old, r) ==
    [state    |-> TargetState[r.type],
     attempts |-> CASE r.type = "JobSubmitted" -> 0
                    [] r.type = "JobLeased"    -> r.attempt
                    [] OTHER                   -> old.attempts]

\* apply_record returns Ok exactly when this holds.
Applicable(store, r) ==
    \/ r.type = "JobSubmitted"
    \/ /\ store[r.id].state # "Absent"
       /\ IsValidTransition(store[r.id].state, TargetState[r.type])

\* MemoryStore::apply_record, on a record it accepts.
ApplyRecord(store, r) == [store EXCEPT ![r.id] = Entry(@, r)]

\* apply_record_for_recovery: no transition is checked, an unknown id is
\* ignored.
ApplyRecordForRecovery(store, r) ==
    IF r.type = "JobSubmitted" \/ store[r.id].state # "Absent"
    THEN ApplyRecord(store, r)
    ELSE store

\* Mutant of TransitionToQueued: the state is kept.
TransitionForgotten(store, id) == store

\* MemoryStore::transition_to_queued: the one change that writes no record.
TransitionToQueued(store, id) == [store EXCEPT ![id].state = "Queued"]
=============================================================================
