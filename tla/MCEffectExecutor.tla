-------------------------- MODULE MCEffectExecutor --------------------------
(***************************************************************************)
(* Small instances of EffectExecutor: constants by definition.             *)
(***************************************************************************)
EXTENDS EffectInvariant, TLC

CONSTANTS a1, a2, t1, w1, w2, p1, v0, v1, v2, any

OneAdmission  == {a1}
TwoAdmissions == {a1, a2}
OneWorker     == {w1}
TwoWorkers    == {w1, w2}
OneProcess    == {p1}
OneTarget     == {t1}
NoAdmission   == {}

AllOnT1        == [a \in Admissions |-> t1]
OwnArtifact    == [a \in Admissions |-> IF a = a1 THEN v1 ELSE v2]
NoPrecondition == [a \in Admissions |-> any]
Itself         == [w \in Workers |-> w]
Together       == [w \in Workers |-> p1]
JustW2         == {w2}

\* Nothing tells processes of one thread each apart (safety only).
WorkerSymmetry == Permutations(Workers)

(***************************************************************************)
(* Liveness over faults and liveness over two batches multiply; the run    *)
(* takes them one at a time, from two states that Init reaches. Each       *)
(* behaviour below is the rest of one of FairSpec.                         *)
(***************************************************************************)
Rejected(a) ==
  <<FencedEvent, AttemptStarted,
    PlainEvent("PROVIDER_RESULT", "UNKNOWN_EFFECT", "PROVIDER_RESPONSE_NOT_RECEIVED", FALSE),
    ReconciliationEvent("NO_COMMIT", Verdict("NO_COMMIT", "READBACK_PROVES_NO_COMMIT"),
                        ObservationNow(a, 0), SettlementNow(a))>>

FromState(closed, spent) ==
  /\ history = [t \in Targets |-> << >>]
  /\ settlement = [a \in Admissions |-> IF a \in closed THEN "SETTLED_ABSENT" ELSE "NONE"]
  /\ queued = {}
  /\ calls = [a \in Admissions |-> IF a \in closed THEN 1 ELSE 0]
  /\ progress = [a \in Admissions |->
       [state |-> IF a \in closed THEN "NO_COMMIT" ELSE "FENCED",
        seq |-> IF a \in closed THEN 4 ELSE 1, attempt |-> a \in closed, ack |-> FALSE]]
  /\ ledger = [a \in Admissions |-> IF a \in closed THEN Rejected(a) ELSE <<FencedEvent>>]
  /\ active = [p \in Processes |-> {}]
  /\ worker = [w \in Workers |-> Idle]
  /\ expired = {}
  /\ faults = spent
  /\ escaped = {}

\* The provider rejected the second batch and a recovery closed it: the
\* first one meets every fault.
OneBatchLeft == FromState({a2}, 0)

\* An idle process crashed until no fault is left: both batches write the
\* target, in either order, at once or late.
NoFaultLeft == FromState({}, MaxFaults)

RecoverySpec == (OneBatchLeft \/ NoFaultLeft) /\ [][Next]_vars /\ Fairness

=============================================================================
