------------------------ MODULE EffectExecutorProofs ------------------------
(***************************************************************************)
(* TLAPS proofs about the durable controlled effect executor, for every    *)
(* set of processes, threads, admissions and targets and every bound.      *)
(***************************************************************************)
EXTENDS EffectInvariant, TLAPS

-----------------------------------------------------------------------------
(* Typing of the operators the actions are built from. *)

LEMMA IdleTyped == Idle \in Threads
<1>1. AnyAdmission \in Admissions
  BY ConstantsAssumption DEF AnyAdmission
<1>2. NoObs \in Observations
  BY DEF NoObs, Observations
<1>3. NoSettlement \in Settlements
  BY DEF NoSettlement, Settlements, SettlementStatuses
<1>4. NoSnapshot \in Snapshots
  BY DEF NoSnapshot, Snapshots, States
<1> QED
  BY <1>1, <1>2, <1>3, <1>4 DEF Idle, Threads, Points

Verdicts == [class: Classes, reason: Reasons]

LEMMA VerdictTyped ==
  ASSUME NEW a \in Admissions, NEW obs \in Observations, NEW st \in Settlements,
         NEW ack \in BOOLEAN
  PROVE  ClassifyDurable(a, obs, st, ack) \in Verdicts
<1>1. \A c \in Classes, r \in Reasons : Verdict(c, r) \in Verdicts
  BY DEF Verdict, Verdicts
<1>2. ClassifyObservation(a, obs, ack) \in Verdicts
  BY <1>1 DEF ClassifyObservation, Classes, Reasons
<1>3. NoCommitObstacle(st) # "" => NoCommitObstacle(st) \in Reasons
  BY DEF NoCommitObstacle, Reasons
<1>4. /\ "INDETERMINATE" \in Classes
      /\ "READBACK_CONTRADICTS_SETTLEMENT" \in Reasons
  BY DEF Classes, Reasons
<1> QED
  BY <1>1, <1>2, <1>3, <1>4 DEF ClassifyDurable

LEMMA AppendTyped ==
  ASSUME TypeOK, NEW a \in Admissions, NEW e \in Events, AppendEvent(a, e)
  PROVE  /\ progress' \in [Admissions -> Progress]
         /\ ledger' \in [Admissions -> Seq(Events)]
<1>1. e.after \in States /\ e.kind \in Kinds /\ e.acked \in BOOLEAN
  BY DEF Events
<1>2. Append(ledger[a], e) \in Seq(Events)
  BY DEF TypeOK
<1>3. [state   |-> e.after, seq |-> progress[a].seq + 1,
       attempt |-> progress[a].attempt \/ e.kind = "ATTEMPT_STARTED",
       ack     |-> progress[a].ack \/ (e.kind = "PROVIDER_RESULT" /\ e.acked)]
        \in Progress
  BY <1>1 DEF TypeOK, Progress
<1> QED
  BY <1>2, <1>3 DEF AppendEvent, TypeOK

LEMMA PlainEventTyped ==
  ASSUME NEW kind \in Kinds, NEW after \in States, NEW reason \in Reasons,
         NEW acked \in BOOLEAN
  PROVE  PlainEvent(kind, after, reason, acked) \in Events
BY DEF PlainEvent, Events, NoObs, Observations, NoSettlement, Settlements,
       SettlementStatuses, Classes

LEMMA DecisionTyped ==
  ASSUME TypeOK, NEW w \in Workers
  PROVE  Decision(w) \in Events
<1>1. worker[w] \in Threads
  BY DEF TypeOK
<1>2. /\ worker[w].obs \in Observations /\ worker[w].st \in Settlements
      /\ worker[w].adm \in Admissions /\ worker[w].seen.ack \in BOOLEAN
  BY <1>1 DEF Threads, Snapshots
<1>3. VerdictOf(w) \in Verdicts
  BY <1>2, VerdictTyped DEF VerdictOf, Self, Adm
<1>4. NotRecorded \in Verdicts
  BY DEF NotRecorded, Verdict, Verdicts, Classes, Reasons
<1>5. ASSUME NEW s \in States, NEW v \in Verdicts
      PROVE  ReconciliationEvent(s, v, worker[w].obs, worker[w].st) \in Events
  BY <1>2, <1>5 DEF ReconciliationEvent, Events, Kinds, Verdicts
<1>6. TargetState(VerdictOf(w).class) \in States
  BY DEF TargetState, States
<1>7. "UNKNOWN_EFFECT" \in States
  BY DEF States
<1> QED
  BY <1>3, <1>4, <1>5, <1>6, <1>7 DEF Decision, Self

LEMMA ThreadFields ==
  ASSUME TypeOK, NEW w \in Workers
  PROVE  /\ worker[w] \in Threads
         /\ Adm(w) \in Admissions
         /\ Self(w).obs \in Observations /\ Self(w).st \in Settlements
         /\ Self(w).seen \in Snapshots /\ Self(w).acked \in BOOLEAN
         /\ Self(w).mark \in Nat
         /\ ProcessOf[w] \in Processes
BY ExecutorAssumption DEF TypeOK, Threads, Adm, Self

(* A thread that records what it has just learned stays well typed. *)
LEMMA LearnTyped ==
  ASSUME NEW r \in Threads
  PROVE  /\ \A acked \in BOOLEAN : [r EXCEPT !.pc = "returned", !.acked = acked] \in Threads
         /\ [r EXCEPT !.pc = "reread", !.moved = TRUE] \in Threads
         /\ \A st \in Settlements, n \in Nat :
              [r EXCEPT !.pc = "observe", !.st = st, !.mark = n] \in Threads
         /\ \A obs \in Observations :
              [r EXCEPT !.pc = "decide", !.obs = obs, !.mark = 0] \in Threads
<1>1. ASSUME NEW acked \in BOOLEAN
      PROVE  [r EXCEPT !.pc = "returned", !.acked = acked] \in Threads
  BY DEF Threads, Points
<1>2. [r EXCEPT !.pc = "reread", !.moved = TRUE] \in Threads
  BY DEF Threads, Points
<1>3. ASSUME NEW st \in Settlements, NEW n \in Nat
      PROVE  [r EXCEPT !.pc = "observe", !.st = st, !.mark = n] \in Threads
  BY DEF Threads, Points
<1>4. ASSUME NEW obs \in Observations
      PROVE  [r EXCEPT !.pc = "decide", !.obs = obs, !.mark = 0] \in Threads
  BY DEF Threads, Points
<1> QED
  BY <1>1, <1>2, <1>3, <1>4

LEMMA GotoTyped ==
  ASSUME TypeOK, NEW w \in Workers, NEW pc \in Points, Goto(w, pc)
  PROVE  worker' \in [Workers -> Threads]
BY ZenonT(40) DEF TypeOK, Goto, Threads

LEMMA ForgetTyped ==
  ASSUME TypeOK, NEW w \in Workers
  PROVE  Forget(w) \in Threads
BY IdleTyped, ThreadFields DEF Forget, Threads, Idle

LEMMA SnapshotTyped ==
  ASSUME TypeOK, NEW a \in Admissions
  PROVE  Snapshot(a) \in Snapshots
BY DEF TypeOK, Snapshot, Row, Progress, Snapshots

LEMMA ReturnTyped ==
  ASSUME TypeOK, NEW w \in Workers, Return(w)
  PROVE  /\ worker' \in [Workers -> Threads]
         /\ active' \in [Processes -> SUBSET Admissions]
BY IdleTyped, ThreadFields DEF TypeOK, Return

(* A write that the caller sees fail keeps the tables well typed. *)
LEMMA UnconfirmedTyped ==
  ASSUME TypeOK, NEW a \in Admissions, NEW e \in Events,
         Unconfirmed(AppendEvent(a, e))
  PROVE  /\ progress' \in [Admissions -> Progress]
         /\ ledger' \in [Admissions -> Seq(Events)]
         /\ faults' \in 0..MaxFaults
<1>1. faults' \in 0..MaxFaults
  BY ExecutorAssumption DEF TypeOK, Unconfirmed, Fault
<1>2. CASE AppendEvent(a, e)
  BY <1>1, <1>2, AppendTyped
<1>3. CASE UNCHANGED storeVars
  BY <1>1, <1>3 DEF TypeOK, storeVars
<1> QED
  BY <1>2, <1>3 DEF Unconfirmed

LEMMA EventsTyped ==
  ASSUME TypeOK, NEW w \in Workers
  PROVE  /\ AttemptStarted \in Events
         /\ ProviderResult(w) \in Events
         /\ DeclaredLost \in Events
         /\ FencedEvent \in Events
BY PlainEventTyped DEF AttemptStarted, ProviderResult, DeclaredLost, FencedEvent,
   Kinds, States, Reasons

-----------------------------------------------------------------------------
(* Type correctness. *)

LEMMA InitTyped == Init => TypeOK
<1> SUFFICES ASSUME Init PROVE TypeOK
  OBVIOUS
<1>1. ProviderTypeOK
  BY ConstantsAssumption DEF Init, ProviderInit, ProviderTypeOK
<1>2. progress \in [Admissions -> Progress]
  BY DEF Init, Progress, States
<1>3. FencedEvent \in Events
  BY PlainEventTyped DEF FencedEvent, Kinds, States, Reasons
<1>4. <<FencedEvent>> \in Seq(Events)
  BY <1>3
<1>5. ledger \in [Admissions -> Seq(Events)]
  BY <1>4 DEF Init
<1>6. worker \in [Workers -> Threads]
  BY IdleTyped DEF Init
<1>7. faults \in 0..MaxFaults
  BY ExecutorAssumption DEF Init
<1> QED
  BY <1>1, <1>2, <1>5, <1>6, <1>7 DEF Init, TypeOK

LEMMA ProviderTyped ==
  ASSUME ProviderTypeOK, NEW a \in Admissions,
         Effect(a) \/ LogCall(a) \/ Enqueue(a) \/ Reject(a)
  PROVE  ProviderTypeOK'
<1>1. TargetOf[a] \in Targets
  BY ConstantsAssumption
<1>2. CASE Effect(a)
  <2>1. Append(history[TargetOf[a]], a) \in Seq(Admissions)
    BY <1>1 DEF ProviderTypeOK
  <2> QED
    BY <1>1, <1>2, <2>1 DEF ProviderTypeOK, Effect
<1>3. CASE LogCall(a)
  BY <1>3 DEF ProviderTypeOK, LogCall
<1>4. CASE Enqueue(a)
  BY <1>4 DEF ProviderTypeOK, Enqueue
<1>5. CASE Reject(a)
  BY <1>5 DEF ProviderTypeOK, Reject
<1> QED
  BY <1>2, <1>3, <1>4, <1>5

(* What the provider answers a readback is well typed. *)
LEMMA EvidenceTyped ==
  ASSUME TypeOK, NEW a \in Admissions, NEW mark \in Nat
  PROVE  /\ SettlementNow(a) \in Settlements
         /\ ObservationNow(a, mark) \in Observations
         /\ \A st \in DegradedSettlements(SettlementNow(a)) : st \in Settlements
         /\ \A obs \in DegradedObservations(ObservationNow(a, mark)) : obs \in Observations
<1>1. history[TargetOf[a]] \in Seq(Admissions) /\ settlement[a] \in {"NONE", "PENDING", "SETTLED_ABSENT"}
  BY ConstantsAssumption DEF TypeOK, ProviderTypeOK
<1>2. SettlementNow(a).status \in SettlementStatuses
  BY <1>1 DEF SettlementNow, SettlementStatuses
<1>3. SettlementNow(a) \in Settlements
  BY <1>2 DEF SettlementNow, Settlements
<1>4. ObservationNow(a, mark) \in Observations
  BY <1>1 DEF ObservationNow, Observations
<1>5. NoSettlement \in Settlements /\ NoObs \in Observations
  BY DEF NoSettlement, Settlements, SettlementStatuses, NoObs, Observations
<1>6. \A st \in DegradedSettlements(SettlementNow(a)) : st \in Settlements
  BY <1>3, <1>5 DEF DegradedSettlements, Settlements
<1>7. \A obs \in DegradedObservations(ObservationNow(a, mark)) : obs \in Observations
  BY <1>4, <1>5 DEF DegradedObservations, Observations
<1> QED
  BY <1>3, <1>4, <1>6, <1>7

LEMMA TypeStep == TypeOK /\ [Next]_vars => TypeOK'
<1> SUFFICES ASSUME TypeOK, [Next]_vars PROVE TypeOK'
  OBVIOUS
<1> USE DEF providerVars, storeVars
<1>u. ASSUME UNCHANGED providerVars PROVE ProviderTypeOK'
  BY <1>u DEF TypeOK, ProviderTypeOK
<1>1. ASSUME NEW w \in Workers, NEW a \in Admissions, ExecuteStart(w, a) PROVE TypeOK'
  <2>1. [Idle EXCEPT !.pc = "begin", !.op = "execute", !.adm = a] \in Threads
    BY IdleTyped DEF Threads, Points
  <2> QED
    BY <1>1, <1>u, <2>1 DEF ExecuteStart, TypeOK
<1>2. ASSUME NEW w \in Workers, Reserve(w) PROVE TypeOK'
  <2>1. worker' \in [Workers -> Threads]
    BY <1>2, GotoTyped DEF Reserve, Points
  <2> QED
    BY <1>2, <1>u, <2>1, AppendTyped, EventsTyped, ThreadFields DEF Reserve, TypeOK
<1>3. ASSUME NEW w \in Workers, ReserveLost(w) PROVE TypeOK'
  BY <1>3, <1>u, ReturnTyped DEF ReserveLost, TypeOK
<1>4. ASSUME NEW w \in Workers, ReserveUnconfirmed(w) PROVE TypeOK'
  BY <1>4, <1>u, ReturnTyped, UnconfirmedTyped, EventsTyped, ThreadFields
  DEF ReserveUnconfirmed, TypeOK
<1>5. ASSUME NEW w \in Workers, EnterActive(w) PROVE TypeOK'
  <2>1. worker' \in [Workers -> Threads]
    BY <1>5, GotoTyped DEF EnterActive, Points
  <2>2. active' \in [Processes -> SUBSET Admissions]
    BY <1>5, ThreadFields DEF EnterActive, TypeOK
  <2> QED
    BY <1>5, <1>u, <2>1, <2>2 DEF EnterActive, TypeOK
<1>6. ASSUME NEW w \in Workers, CallProvider(w) PROVE TypeOK'
  <2>1. worker' \in [Workers -> Threads]
    BY <1>6, GotoTyped DEF CallProvider, Points
  <2>2. ProviderTypeOK'
    BY <1>6, ProviderTyped, ThreadFields DEF CallProvider, TypeOK
  <2> QED
    BY <1>6, <2>1, <2>2 DEF CallProvider, TypeOK
<1>7. ASSUME NEW w \in Workers, ProviderAnswers(w) PROVE TypeOK'
  <2>1. PICK acked \in BOOLEAN : Answer(w, acked)
    BY <1>7 DEF ProviderAnswers, ProviderCommits, ProviderRefuses, ProviderFails,
       ProviderAcksNothing, ProviderRejects, ProviderDelays
  <2>2. worker' \in [Workers -> Threads]
    BY <2>1, ThreadFields, LearnTyped DEF Answer, TypeOK
  <2>3. ProviderTypeOK'
    BY <1>7, <1>u, ProviderTyped, ThreadFields
    DEF ProviderAnswers, ProviderCommits, ProviderRefuses, ProviderFails,
        ProviderAcksNothing, ProviderRejects, ProviderDelays, TypeOK
  <2> QED
    BY <2>1, <2>2, <2>3 DEF Answer, TypeOK
<1>8. ASSUME NEW w \in Workers, RecordResult(w) PROVE TypeOK'
  <2>1. worker' \in [Workers -> Threads]
    BY <1>8, GotoTyped DEF RecordResult, Points
  <2> QED
    BY <1>8, <1>u, <2>1, AppendTyped, EventsTyped, ThreadFields DEF RecordResult, TypeOK
<1>9. ASSUME NEW w \in Workers, RecordResultRefused(w) PROVE TypeOK'
  <2>1. worker' \in [Workers -> Threads]
    BY <1>9, ThreadFields, LearnTyped DEF RecordResultRefused, TypeOK
  <2> QED
    BY <1>9, <1>u, <2>1 DEF RecordResultRefused, TypeOK
<1>10. ASSUME NEW w \in Workers, RecordResultUnconfirmed(w) PROVE TypeOK'
  BY <1>10, <1>u, ReturnTyped, UnconfirmedTyped, EventsTyped, ThreadFields
  DEF RecordResultUnconfirmed, TypeOK
<1>11. ASSUME NEW w \in Workers, Reread(w) PROVE TypeOK'
  <2>1. [Forget(w) EXCEPT !.pc = "settle", !.seen = Snapshot(Adm(w))] \in Threads
    BY ZenonT(40), ForgetTyped, SnapshotTyped, ThreadFields DEF Threads, Points
  <2>2. worker' \in [Workers -> Threads] /\ active' \in [Processes -> SUBSET Admissions]
    BY <1>11, <2>1, ReturnTyped DEF Reread, TypeOK
  <2> QED
    BY <1>11, <1>u, <2>2 DEF Reread, TypeOK
<1>12. ASSUME NEW w \in Workers, RereadFails(w) PROVE TypeOK'
  BY <1>12, <1>u, ReturnTyped, ExecutorAssumption DEF RereadFails, Fault, TypeOK
<1>13. ASSUME NEW w \in Workers, NEW a \in Admissions, RecoverStart(w, a) PROVE TypeOK'
  <2>1. [Idle EXCEPT !.pc = "check", !.op = "recover", !.adm = a, !.seen = Snapshot(a)]
          \in Threads
    BY IdleTyped, SnapshotTyped DEF Threads, Points
  <2> QED
    BY <1>13, <1>u, <2>1 DEF RecoverStart, TypeOK
<1>14. ASSUME NEW w \in Workers, RecoverCheck(w) PROVE TypeOK'
  <2>1. worker' \in [Workers -> Threads] /\ active' \in [Processes -> SUBSET Admissions]
    BY <1>14, GotoTyped, ReturnTyped DEF RecoverCheck, Points, TypeOK
  <2> QED
    BY <1>14, <1>u, <2>1 DEF RecoverCheck, TypeOK
<1>15. ASSUME NEW w \in Workers, ReadSettlement(w) PROVE TypeOK'
  <2>1. PICK st \in {SettlementNow(Adm(w))} \cup DegradedSettlements(SettlementNow(Adm(w))) :
          /\ IF st = SettlementNow(Adm(w)) THEN UNCHANGED faults ELSE Fault
          /\ worker' = [worker EXCEPT ![w] = [@ EXCEPT !.pc = "observe", !.st = st,
                                    !.mark = Len(history[TargetOf[Adm(w)]])]]
    BY <1>15 DEF ReadSettlement
  <2>2. st \in Settlements
    BY <2>1, EvidenceTyped, ThreadFields
  <2>3. Len(history[TargetOf[Adm(w)]]) \in Nat
    BY ThreadFields, ConstantsAssumption DEF TypeOK, ProviderTypeOK
  <2>4. worker' \in [Workers -> Threads]
    BY <2>1, <2>2, <2>3, ThreadFields, LearnTyped DEF TypeOK
  <2>5. faults' \in 0..MaxFaults
    BY <2>1, ExecutorAssumption DEF Fault, TypeOK
  <2> QED
    BY <1>15, <1>u, <2>4, <2>5 DEF ReadSettlement, TypeOK
<1>16. ASSUME NEW w \in Workers, ReadObservation(w) PROVE TypeOK'
  <2>1. PICK mark \in Self(w).mark..Len(history[TargetOf[Adm(w)]]) :
          \E obs \in {ObservationNow(Adm(w), mark)}
                       \cup DegradedObservations(ObservationNow(Adm(w), mark)) :
            /\ IF obs = ObservationNow(Adm(w), mark) THEN UNCHANGED faults ELSE Fault
            /\ worker' = [worker EXCEPT ![w] = [@ EXCEPT !.pc = "decide", !.obs = obs, !.mark = 0]]
    BY <1>16 DEF ReadObservation
  <2>2. mark \in Nat
    BY <2>1, ThreadFields, ConstantsAssumption DEF TypeOK, ProviderTypeOK
  <2>3. PICK obs \in Observations :
            /\ faults' = faults \/ Fault
            /\ worker' = [worker EXCEPT ![w] = [@ EXCEPT !.pc = "decide", !.obs = obs, !.mark = 0]]
    BY <2>1, <2>2, EvidenceTyped, ThreadFields
  <2>4. worker' \in [Workers -> Threads]
    BY <2>3, ThreadFields, LearnTyped DEF TypeOK
  <2>5. faults' \in 0..MaxFaults
    BY <2>3, ExecutorAssumption DEF Fault, TypeOK
  <2> QED
    BY <1>16, <1>u, <2>4, <2>5 DEF ReadObservation, TypeOK

<1>w. ASSUME NEW w \in Workers, WriteReconciliation(Adm(w), Decision(w)) \/ UNCHANGED storeVars
      PROVE  /\ progress' \in [Admissions -> Progress]
             /\ ledger' \in [Admissions -> Seq(Events)]
  BY <1>w, AppendTyped, DecisionTyped, ThreadFields DEF WriteReconciliation, TypeOK
<1>17. ASSUME NEW w \in Workers, Reconcile(w) PROVE TypeOK'
  <2>1. [Forget(w) EXCEPT !.pc = "after"] \in Threads
    BY ForgetTyped DEF Threads, Points
  <2>2. worker' \in [Workers -> Threads]
    BY <1>17, <2>1, GotoTyped DEF Reconcile, Points, TypeOK
  <2> QED
    BY <1>17, <1>u, <1>w, <2>2 DEF Reconcile, TypeOK
<1>18. ASSUME NEW w \in Workers, ReconcileRefused(w) PROVE TypeOK'
  <2>1. [Forget(w) EXCEPT !.pc = "after", !.moved = TRUE] \in Threads
    BY ForgetTyped DEF Threads, Points
  <2> QED
    BY <1>18, <1>u, <2>1 DEF ReconcileRefused, TypeOK
<1>19. ASSUME NEW w \in Workers, ReconcileUnconfirmed(w) PROVE TypeOK'
  <2>1. faults' \in 0..MaxFaults
    BY <1>19, ExecutorAssumption DEF ReconcileUnconfirmed, Unconfirmed, Fault, TypeOK
  <2> QED
    BY <1>19, <1>u, <1>w, <2>1, ReturnTyped DEF ReconcileUnconfirmed, Unconfirmed, TypeOK
<1>20. ASSUME NEW w \in Workers, After(w) PROVE TypeOK'
  BY <1>20, <1>u, ReturnTyped DEF After, TypeOK
<1>21. ASSUME NEW w \in Workers, AfterFails(w) PROVE TypeOK'
  BY <1>21, <1>u, ReturnTyped, ThreadFields, ExecutorAssumption DEF AfterFails, Fault, TypeOK
<1>22. ASSUME NEW w \in Workers, NEW a \in Admissions, DeclareStart(w, a) PROVE TypeOK'
  <2>1. [Idle EXCEPT !.pc = "declare", !.op = "declare", !.adm = a] \in Threads
    BY IdleTyped DEF Threads, Points
  <2> QED
    BY <1>22, <1>u, <2>1 DEF DeclareStart, TypeOK
<1>23. ASSUME NEW w \in Workers, DeclareLost(w) PROVE TypeOK'
  BY <1>23, <1>u, ReturnTyped, AppendTyped, EventsTyped, ThreadFields DEF DeclareLost, TypeOK
<1>24. ASSUME NEW w \in Workers, DeclareLostUnconfirmed(w) PROVE TypeOK'
  BY <1>24, <1>u, ReturnTyped, UnconfirmedTyped, EventsTyped, ThreadFields
  DEF DeclareLostUnconfirmed, TypeOK
<1>25. ASSUME NEW p \in Processes, Crash(p) PROVE TypeOK'
  BY <1>25, <1>u, IdleTyped, ExecutorAssumption DEF Crash, Fault, TypeOK
<1>26. ASSUME NEW a \in Admissions, Expire(a) PROVE TypeOK'
  BY <1>26, <1>u, ExecutorAssumption DEF Expire, TypeOK
<1>27. ASSUME NEW a \in Admissions, ProviderActs(a) PROVE TypeOK'
  BY <1>27, ProviderTyped DEF ProviderActs, Deliver, SettleAbsent, TypeOK
<1>28. ASSUME UNCHANGED vars PROVE TypeOK'
  BY <1>28, <1>u DEF vars, TypeOK
<1> QED
  BY <1>1, <1>2, <1>3, <1>4, <1>5, <1>6, <1>7, <1>8, <1>9, <1>10, <1>11, <1>12, <1>13,
     <1>14, <1>15, <1>16, <1>17, <1>18, <1>19, <1>20, <1>21, <1>22, <1>23, <1>24, <1>25,
     <1>26, <1>27, <1>28 DEF Next, Continue

(* Every variable keeps its type, for every number of processes, threads,   *)
(* admissions and faults.                                                   *)
THEOREM TypeCorrect == Spec => []TypeOK
BY InitTyped, TypeStep, PTL DEF Spec

-----------------------------------------------------------------------------
(* What a step may change. *)

(* Every write of a step is one event of one thread's call. *)
Writes(w, e) ==
  /\ AppendEvent(Adm(w), e)
  /\ \/ At(w, "begin") /\ e = AttemptStarted
     \/ At(w, "returned") /\ e = ProviderResult(w)
     \/ Recordable(w) /\ ~AlreadyHead(Adm(w), e) /\ e = Decision(w)
     \/ Row(Adm(w)).state = "IN_FLIGHT" /\ e = DeclaredLost

LEMMA StoreSteps ==
  ASSUME TypeOK, [Next]_vars
  PROVE  \/ UNCHANGED storeVars
         \/ \E w \in Workers, e \in Events : Writes(w, e)
<1> SUFFICES ASSUME ~ UNCHANGED storeVars
             PROVE  \E w \in Workers, e \in Events : Writes(w, e)
  OBVIOUS
<1> USE DEF Writes
<1>1. ASSUME NEW w \in Workers, Reserve(w) \/ ReserveUnconfirmed(w)
      PROVE  \E e \in Events : Writes(w, e)
  BY <1>1, EventsTyped DEF Reserve, ReserveUnconfirmed, Unconfirmed
<1>2. ASSUME NEW w \in Workers, RecordResult(w) \/ RecordResultUnconfirmed(w)
      PROVE  \E e \in Events : Writes(w, e)
  BY <1>2, EventsTyped DEF RecordResult, RecordResultUnconfirmed, Unconfirmed
<1>3. ASSUME NEW w \in Workers, Reconcile(w) \/ ReconcileUnconfirmed(w)
      PROVE  \E e \in Events : Writes(w, e)
  <2>1. Recordable(w) /\ (WriteReconciliation(Adm(w), Decision(w)) \/ UNCHANGED storeVars)
    BY <1>3 DEF Reconcile, ReconcileUnconfirmed, Unconfirmed
  <2> QED
    BY <2>1, DecisionTyped DEF WriteReconciliation
<1>4. ASSUME NEW w \in Workers, DeclareLost(w) \/ DeclareLostUnconfirmed(w)
      PROVE  \E e \in Events : Writes(w, e)
  BY <1>4, EventsTyped DEF DeclareLost, DeclareLostUnconfirmed, Unconfirmed
<1>5. ASSUME NEW w \in Workers, ProviderAnswers(w)
      PROVE  FALSE
  BY <1>5 DEF ProviderAnswers, Answer, ProviderCommits, ProviderRefuses, ProviderFails,
     ProviderAcksNothing, ProviderRejects, ProviderDelays
<1>6. ASSUME NEW w \in Workers,
             \/ ReserveLost(w) \/ EnterActive(w) \/ CallProvider(w)
             \/ RecordResultRefused(w) \/ Reread(w) \/ RereadFails(w)
             \/ RecoverCheck(w) \/ ReadSettlement(w) \/ ReadObservation(w)
             \/ ReconcileRefused(w) \/ After(w) \/ AfterFails(w)
      PROVE  FALSE
  BY <1>6 DEF ReserveLost, EnterActive, CallProvider, RecordResultRefused, Reread,
     RereadFails, RecoverCheck, ReadSettlement, ReadObservation, ReconcileRefused,
     After, AfterFails
<1>7. ASSUME NEW w \in Workers, NEW a \in Admissions,
             ExecuteStart(w, a) \/ RecoverStart(w, a) \/ DeclareStart(w, a)
      PROVE  FALSE
  BY <1>7 DEF ExecuteStart, RecoverStart, DeclareStart
<1>8. ASSUME NEW p \in Processes, Crash(p) PROVE FALSE
  BY <1>8 DEF Crash
<1>9. ASSUME NEW a \in Admissions, Expire(a) \/ ProviderActs(a) PROVE FALSE
  BY <1>9 DEF Expire, ProviderActs
<1>10. ~ UNCHANGED vars
  BY DEF vars
<1> QED
  BY <1>1, <1>2, <1>3, <1>4, <1>5, <1>6, <1>7, <1>8, <1>9, <1>10 DEF Next, Continue

(* The provider changes only by a call, by its answer, or on its own. *)
LEMMA ProviderSteps ==
  ASSUME TypeOK, [Next]_vars
  PROVE  \/ UNCHANGED providerVars
         \/ \E w \in Workers : CallProvider(w)
         \/ \E w \in Workers : /\ At(w, "inside") /\ worker'[w].pc = "returned"
                               /\ Effect(Adm(w)) \/ Reject(Adm(w)) \/ Enqueue(Adm(w))
         \/ \E a \in Admissions : Deliver(a) \/ SettleAbsent(a)
<1>1. ASSUME NEW w \in Workers, ProviderAnswers(w), ~ UNCHANGED providerVars
      PROVE  /\ At(w, "inside") /\ worker'[w].pc = "returned"
             /\ Effect(Adm(w)) \/ Reject(Adm(w)) \/ Enqueue(Adm(w))
  <2>1. \E acked \in BOOLEAN : Answer(w, acked)
    BY <1>1 DEF ProviderAnswers, ProviderCommits, ProviderRefuses, ProviderFails,
       ProviderAcksNothing, ProviderRejects, ProviderDelays
  <2>2. At(w, "inside") /\ worker'[w].pc = "returned"
    BY <2>1, ThreadFields DEF Answer, TypeOK, Threads
  <2> QED
    BY <1>1, <2>2 DEF ProviderAnswers, ProviderCommits, ProviderRefuses, ProviderFails,
       ProviderAcksNothing, ProviderRejects, ProviderDelays
<1>2. ASSUME NEW w \in Workers,
             \/ Reserve(w) \/ ReserveLost(w) \/ ReserveUnconfirmed(w) \/ EnterActive(w)
             \/ RecordResult(w) \/ RecordResultRefused(w) \/ RecordResultUnconfirmed(w)
             \/ Reread(w) \/ RereadFails(w)
             \/ RecoverCheck(w) \/ ReadSettlement(w) \/ ReadObservation(w)
             \/ Reconcile(w) \/ ReconcileRefused(w) \/ ReconcileUnconfirmed(w)
             \/ After(w) \/ AfterFails(w) \/ DeclareLost(w) \/ DeclareLostUnconfirmed(w)
      PROVE  UNCHANGED providerVars
  BY <1>2 DEF Reserve, ReserveLost, ReserveUnconfirmed, EnterActive, RecordResult,
     RecordResultRefused, RecordResultUnconfirmed, Reread, RereadFails, RecoverCheck,
     ReadSettlement, ReadObservation, Reconcile, ReconcileRefused, ReconcileUnconfirmed,
     After, AfterFails, DeclareLost, DeclareLostUnconfirmed
<1>3. ASSUME NEW w \in Workers, NEW a \in Admissions,
             ExecuteStart(w, a) \/ RecoverStart(w, a) \/ DeclareStart(w, a)
      PROVE  UNCHANGED providerVars
  BY <1>3 DEF ExecuteStart, RecoverStart, DeclareStart
<1>4. ASSUME NEW p \in Processes, Crash(p) PROVE UNCHANGED providerVars
  BY <1>4 DEF Crash
<1>5. ASSUME NEW a \in Admissions, Expire(a) \/ ProviderActs(a)
      PROVE  UNCHANGED providerVars \/ Deliver(a) \/ SettleAbsent(a)
  BY <1>5 DEF Expire, ProviderActs
<1>6. UNCHANGED vars => UNCHANGED providerVars
  BY DEF vars
<1> QED
  BY <1>1, <1>2, <1>3, <1>4, <1>5, <1>6 DEF Next, Continue

(* A step after which the thread w holds no reservation it did not use, and *)
(* knows nothing it did not know.                                           *)
Untried == {"idle", "begin", "declare"}

Quiet(w) ==
  /\ worker'[w].pc \notin {"reserved", "calling", "inside"}
  /\ worker'[w].pc \notin Untried => Self(w).pc \notin Untried /\ worker'[w].adm = Adm(w)
  /\ \/ ~worker'[w].st.read /\ ~worker'[w].obs.read
     \/ worker'[w].st = Self(w).st /\ worker'[w].obs = Self(w).obs /\ worker'[w].adm = Adm(w)

LEMMA IdleIsQuiet ==
  ASSUME NEW w \in Workers, worker'[w] = Idle
  PROVE  Quiet(w)
BY DEF Quiet, Idle, Untried, NoSettlement, NoObs

LEMMA ReturnIsQuiet ==
  ASSUME TypeOK, NEW w \in Workers, NEW v \in Workers, Return(w)
  PROVE  worker'[v] = worker[v] \/ Quiet(v)
<1>1. worker'[v] = worker[v] \/ worker'[v] = Idle
  BY DEF Return, TypeOK
<1> QED
  BY <1>1, IdleIsQuiet

LEMMA ThreadSteps ==
  ASSUME TypeOK, [Next]_vars, NEW v \in Workers
  PROVE  \/ worker'[v] = worker[v]
         \/ Quiet(v)
         \/ Reserve(v) \/ EnterActive(v) \/ CallProvider(v)
         \/ ReadSettlement(v) \/ ReadObservation(v)
         \/ \E a \in Admissions : RecoverStart(v, a)
<1> SUFFICES ASSUME worker'[v] # worker[v]
             PROVE  \/ Quiet(v)
                    \/ Reserve(v) \/ EnterActive(v) \/ CallProvider(v)
                    \/ ReadSettlement(v) \/ ReadObservation(v)
                    \/ \E a \in Admissions : RecoverStart(v, a)
  OBVIOUS
<1>t. worker[v] \in Threads /\ \A w \in Workers : worker[w] \in Threads
  BY DEF TypeOK
<1>1. ASSUME NEW w \in Workers,
             \/ ReserveLost(w) \/ ReserveUnconfirmed(w) \/ RecordResultUnconfirmed(w)
             \/ RereadFails(w) \/ ReconcileUnconfirmed(w) \/ After(w) \/ AfterFails(w)
             \/ DeclareLost(w) \/ DeclareLostUnconfirmed(w)
      PROVE  Quiet(v)
  BY <1>1, ReturnIsQuiet DEF ReserveLost, ReserveUnconfirmed, RecordResultUnconfirmed,
     RereadFails, ReconcileUnconfirmed, After, AfterFails, DeclareLost, DeclareLostUnconfirmed
<1>2. ASSUME NEW w \in Workers,
             Reserve(w) \/ EnterActive(w) \/ CallProvider(w)
               \/ ReadSettlement(w) \/ ReadObservation(w)
      PROVE  w = v
  BY <1>2 DEF Reserve, EnterActive, CallProvider, ReadSettlement, ReadObservation, Goto, TypeOK
<1>3. ASSUME NEW w \in Workers, NEW a \in Admissions, RecoverStart(w, a)
      PROVE  w = v
  BY <1>3 DEF RecoverStart, TypeOK
<1>4. ASSUME NEW w \in Workers, NEW a \in Admissions, ExecuteStart(w, a) \/ DeclareStart(w, a)
      PROVE  Quiet(v)
  <2>1. worker'[v].pc \in Untried /\ worker'[v].st = NoSettlement /\ worker'[v].obs = NoObs
    BY ZenonT(40), <1>4 DEF ExecuteStart, DeclareStart, TypeOK, Idle, Untried
  <2> QED
    BY <2>1 DEF Quiet, Untried, NoSettlement, NoObs
<1>5. ASSUME NEW w \in Workers, ProviderAnswers(w)
      PROVE  Quiet(v)
  <2>1. PICK acked \in BOOLEAN : Answer(w, acked)
    BY <1>5 DEF ProviderAnswers, ProviderCommits, ProviderRefuses, ProviderFails,
       ProviderAcksNothing, ProviderRejects, ProviderDelays
  <2>2. w = v /\ At(v, "inside")
    BY <2>1 DEF Answer, TypeOK
  <2>3. /\ worker'[v].pc = "returned" /\ worker'[v].adm = Adm(v)
        /\ worker'[v].st = Self(v).st /\ worker'[v].obs = Self(v).obs
    BY <2>1, <2>2, <1>t DEF Answer, TypeOK, Threads, Adm, Self
  <2> QED
    BY <2>2, <2>3 DEF Quiet, Untried, At, Self
<1>6. ASSUME NEW w \in Workers, RecordResult(w) \/ RecordResultRefused(w)
      PROVE  Quiet(v)
  <2>1. w = v /\ At(v, "returned")
    BY <1>6 DEF RecordResult, RecordResultRefused, Goto, TypeOK
  <2>2. \/ Goto(v, "reread")
        \/ worker' = [worker EXCEPT ![v] = [@ EXCEPT !.pc = "reread", !.moved = TRUE]]
    BY <1>6, <2>1 DEF RecordResult, RecordResultRefused
  <2>3. /\ worker'[v].pc = "reread" /\ worker'[v].adm = Adm(v)
        /\ worker'[v].st = Self(v).st /\ worker'[v].obs = Self(v).obs
    <3>1. CASE Goto(v, "reread")
      BY <3>1, <1>t DEF Goto, TypeOK, Threads, Adm, Self
    <3>2. CASE worker' = [worker EXCEPT ![v] = [@ EXCEPT !.pc = "reread", !.moved = TRUE]]
      BY <3>2, <1>t DEF TypeOK, Threads, Adm, Self
    <3> QED
      BY <2>2, <3>1, <3>2
  <2> QED
    BY <2>1, <2>3 DEF Quiet, Untried, At, Self
<1>7. ASSUME NEW w \in Workers, Reread(w)
      PROVE  Quiet(v)
  <2>1. CASE Return(w)
    BY <2>1, ReturnIsQuiet
  <2>2. CASE worker' = [worker EXCEPT ![w] = [Forget(w) EXCEPT !.pc = "settle",
                                                              !.seen = Snapshot(Adm(w))]]
    <3>1. w = v /\ At(v, "reread")
      BY <1>7, <2>2 DEF Reread, TypeOK
    <3>2. /\ worker'[v].pc = "settle" /\ worker'[v].adm = Adm(v)
          /\ worker'[v].st = NoSettlement /\ worker'[v].obs = NoObs
      BY <2>2, <3>1 DEF TypeOK, Forget, Idle, Adm
    <3> QED
      BY <3>1, <3>2 DEF Quiet, Untried, At, Self, NoSettlement, NoObs
  <2> QED
    BY <1>7, <2>1, <2>2 DEF Reread
<1>8. ASSUME NEW w \in Workers, RecoverCheck(w)
      PROVE  Quiet(v)
  <2>1. CASE Return(w)
    BY <2>1, ReturnIsQuiet
  <2>2. CASE Goto(w, "settle")
    <3>1. w = v /\ At(v, "check")
      BY <1>8, <2>2 DEF RecoverCheck, Goto, TypeOK
    <3>2. /\ worker'[v].pc = "settle" /\ worker'[v].adm = Adm(v)
          /\ worker'[v].st = Self(v).st /\ worker'[v].obs = Self(v).obs
      BY <2>2, <3>1, <1>t DEF Goto, TypeOK, Threads, Adm, Self
    <3> QED
      BY <3>1, <3>2 DEF Quiet, Untried, At, Self
  <2> QED
    BY <1>8, <2>1, <2>2 DEF RecoverCheck
<1>9. ASSUME NEW w \in Workers, Reconcile(w) \/ ReconcileRefused(w)
      PROVE  Quiet(v)
  <2>1. w = v /\ Self(v).pc \in {"decide", "close"}
    BY <1>9 DEF Reconcile, ReconcileRefused, Goto, TypeOK
  <2>2. CASE Goto(v, "close")
    <3>1. /\ worker'[v].pc = "close" /\ worker'[v].adm = Adm(v)
          /\ worker'[v].st = Self(v).st /\ worker'[v].obs = Self(v).obs
      BY <2>2, <1>t DEF Goto, TypeOK, Threads, Adm, Self
    <3> QED
      BY <2>1, <3>1 DEF Quiet, Untried
  <2>3. CASE ~Goto(v, "close")
    <3>1. \/ worker' = [worker EXCEPT ![v] = [Forget(v) EXCEPT !.pc = "after"]]
          \/ worker' = [worker EXCEPT ![v] = [Forget(v) EXCEPT !.pc = "after", !.moved = TRUE]]
      BY <1>9, <2>1, <2>3 DEF Reconcile, ReconcileRefused
    <3>2. /\ worker'[v].pc = "after" /\ worker'[v].adm = Adm(v)
          /\ worker'[v].st = NoSettlement /\ worker'[v].obs = NoObs
      BY ZenonT(40), <3>1 DEF TypeOK, Forget, Idle, Adm
    <3> QED
      BY <2>1, <3>2 DEF Quiet, Untried, NoSettlement, NoObs
  <2> QED
    BY <2>2, <2>3
<1>10. ASSUME NEW p \in Processes, Crash(p) PROVE Quiet(v)
  <2>1. worker'[v] = Idle
    BY <1>10 DEF Crash
  <2> QED
    BY <2>1, IdleIsQuiet
<1>11. ASSUME NEW a \in Admissions, Expire(a) \/ ProviderActs(a) PROVE FALSE
  BY <1>11 DEF Expire, ProviderActs
<1>12. ~ UNCHANGED vars
  BY DEF vars
<1> QED
  BY <1>1, <1>2, <1>3, <1>4, <1>5, <1>6, <1>7, <1>8, <1>9, <1>10, <1>11, <1>12
  DEF Next, Continue

-----------------------------------------------------------------------------
(* What never goes back. *)

LEMMA OccursAppend ==
  ASSUME NEW h \in Seq(Admissions), NEW a \in Admissions, NEW b \in Admissions
  PROVE  Occurs(b, Append(h, a)) <=> Occurs(b, h) \/ b = a
<1>1. ASSUME Occurs(b, h) PROVE Occurs(b, Append(h, a))
  <2>1. PICK i \in 1..Len(h) : h[i] = b
    BY <1>1 DEF Occurs
  <2>2. i \in 1..Len(Append(h, a)) /\ Append(h, a)[i] = b
    BY <2>1
  <2> QED
    BY <2>2 DEF Occurs
<1>2. Append(h, a)[Len(h) + 1] = a /\ Len(h) + 1 \in 1..Len(Append(h, a))
  OBVIOUS
<1>3. ASSUME Occurs(b, Append(h, a)), ~Occurs(b, h) PROVE b = a
  <2>1. PICK i \in 1..Len(Append(h, a)) : Append(h, a)[i] = b
    BY <1>3 DEF Occurs
  <2>2. i \in 1..Len(h) => h[i] = b
    BY <2>1
  <2>3. i = Len(h) + 1
    BY <1>3, <2>1, <2>2 DEF Occurs
  <2> QED
    BY <2>1, <2>3
<1> QED
  BY <1>1, <1>2, <1>3 DEF Occurs

(* An effect adds one correlation, and only to its own target. *)
LEMMA EffectApplies ==
  ASSUME TypeOK, NEW a \in Admissions, Effect(a), NEW b \in Admissions
  PROVE  Applied(b)' <=> Applied(b) \/ b = a
<1>1. /\ TargetOf[a] \in Targets /\ TargetOf[b] \in Targets
      /\ history \in [Targets -> Seq(Admissions)]
  BY ConstantsAssumption DEF TypeOK, ProviderTypeOK
<1>2. history' = [history EXCEPT ![TargetOf[a]] = Append(@, a)]
  BY DEF Effect
<1>3. CASE TargetOf[b] = TargetOf[a]
  BY <1>1, <1>2, <1>3, OccursAppend DEF Applied
<1>4. CASE TargetOf[b] # TargetOf[a]
  <2>1. history'[TargetOf[b]] = history[TargetOf[b]]
    BY <1>1, <1>2, <1>4
  <2> QED
    BY <1>4, <2>1 DEF Applied
<1> QED
  BY <1>3, <1>4

(* Applied stays applied, and settled absent stays settled absent. *)
LEMMA FinalityStays ==
  ASSUME TypeOK, [Next]_vars, NEW b \in Admissions
  PROVE  /\ Applied(b) => Applied(b)'
         /\ settlement[b] = "SETTLED_ABSENT" => settlement'[b] = "SETTLED_ABSENT"
<1>0. settlement \in [Admissions -> {"NONE", "PENDING", "SETTLED_ABSENT"}]
  BY DEF TypeOK, ProviderTypeOK
<1>1. CASE UNCHANGED providerVars
  BY <1>1 DEF providerVars, Applied
<1>2. ASSUME NEW a \in Admissions, Effect(a)
      PROVE  /\ Applied(b) => Applied(b)'
             /\ settlement[b] = "SETTLED_ABSENT" => settlement'[b] = "SETTLED_ABSENT"
  BY <1>0, <1>2, EffectApplies DEF Effect, Applicable, Final
<1>3. ASSUME NEW a \in Admissions, Reject(a) \/ Enqueue(a) \/ LogCall(a)
      PROVE  /\ Applied(b) => Applied(b)'
             /\ settlement[b] = "SETTLED_ABSENT" => settlement'[b] = "SETTLED_ABSENT"
  BY <1>0, <1>3 DEF Reject, Enqueue, LogCall, Applied
<1>4. ASSUME ~ UNCHANGED providerVars
      PROVE  \E a \in Admissions : Effect(a) \/ Reject(a) \/ Enqueue(a) \/ LogCall(a)
  BY <1>4, ProviderSteps, ThreadFields DEF CallProvider, Deliver, SettleAbsent
<1> QED
  BY <1>1, <1>2, <1>3, <1>4

(* What one event does to the projection. *)
LEMMA AppendMoves ==
  ASSUME TypeOK, NEW w \in Workers, NEW e \in Events, AppendEvent(Adm(w), e)
  PROVE  /\ \A b \in Admissions : b # Adm(w) => progress'[b] = progress[b]
         /\ progress'[Adm(w)].state = e.after
         /\ progress'[Adm(w)].attempt <=> (Row(Adm(w)).attempt \/ e.kind = "ATTEMPT_STARTED")
         /\ e.after \in Transitions[Row(Adm(w)).state]
         /\ e.after # "FENCED"
<1>1. Row(Adm(w)).state \in States
  BY ThreadFields DEF TypeOK, Progress, Row
<1>2. e.after \in Transitions[Row(Adm(w)).state]
  BY DEF AppendEvent, Appendable
<1>3. e.after # "FENCED"
  BY <1>1, <1>2 DEF Transitions, States
<1> QED
  BY <1>2, <1>3, ThreadFields DEF AppendEvent, TypeOK, Row

LEMMA StartedStays ==
  ASSUME TypeOK, [Next]_vars, NEW b \in Admissions, Started(b)
  PROVE  Started(b)'
<1>1. CASE UNCHANGED storeVars
  BY <1>1 DEF storeVars, Started, Row
<1>2. ASSUME NEW w \in Workers, NEW e \in Events, Writes(w, e) PROVE Started(b)'
  <2>1. b # Adm(w) => progress'[b] = progress[b]
    BY <1>2, AppendMoves DEF Writes
  <2>2. progress'[Adm(w)].state # "FENCED"
    BY <1>2, AppendMoves DEF Writes
  <2> QED
    BY <2>1, <2>2 DEF Started, Row
<1> QED
  BY <1>1, <1>2, StoreSteps

-----------------------------------------------------------------------------
(* The call: one reservation, one call. *)

(* What the two readbacks leave in the thread's record. *)
LEMMA SettlementRead ==
  ASSUME TypeOK, NEW w \in Workers, ReadSettlement(w)
  PROVE  /\ Self(w).pc = "settle" /\ worker'[w].pc = "observe"
         /\ worker'[w].adm = Adm(w) /\ worker'[w].obs = Self(w).obs
         /\ worker'[w].st \in {SettlementNow(Adm(w))}
                               \cup DegradedSettlements(SettlementNow(Adm(w)))
<1>1. worker[w] \in Threads
  BY ThreadFields
<1>2. PICK st \in {SettlementNow(Adm(w))} \cup DegradedSettlements(SettlementNow(Adm(w))) :
        worker' = [worker EXCEPT ![w] = [@ EXCEPT !.pc = "observe", !.st = st,
                                    !.mark = Len(history[TargetOf[Adm(w)]])]]
  BY DEF ReadSettlement
<1>3. worker'[w] = [worker[w] EXCEPT !.pc = "observe", !.st = st,
                                     !.mark = Len(history[TargetOf[Adm(w)]])]
  BY <1>2 DEF TypeOK
<1> QED
  BY <1>1, <1>3 DEF ReadSettlement, At, Self, Adm, Threads

LEMMA ObservationRead ==
  ASSUME TypeOK, NEW w \in Workers, ReadObservation(w)
  PROVE  /\ Self(w).pc = "observe" /\ worker'[w].pc = "decide"
         /\ worker'[w].adm = Adm(w) /\ worker'[w].st = Self(w).st
         /\ worker'[w].obs.read => worker'[w].obs.history = history[TargetOf[Adm(w)]]
<1>1. worker[w] \in Threads
  BY ThreadFields
<1>2. PICK mark \in Self(w).mark..Len(history[TargetOf[Adm(w)]]) :
        \E obs \in {ObservationNow(Adm(w), mark)}
                     \cup DegradedObservations(ObservationNow(Adm(w), mark)) :
          worker' = [worker EXCEPT ![w] = [@ EXCEPT !.pc = "decide", !.obs = obs, !.mark = 0]]
  BY DEF ReadObservation
<1>3. PICK obs \in {ObservationNow(Adm(w), mark)}
                     \cup DegradedObservations(ObservationNow(Adm(w), mark)) :
          worker' = [worker EXCEPT ![w] = [@ EXCEPT !.pc = "decide", !.obs = obs, !.mark = 0]]
  BY <1>2
<1>4. obs.read => obs.history = history[TargetOf[Adm(w)]]
  BY <1>3 DEF DegradedObservations, ObservationNow, NoObs
<1>5. worker'[w] = [worker[w] EXCEPT !.pc = "decide", !.obs = obs, !.mark = 0]
  BY <1>3 DEF TypeOK
<1> QED
  BY <1>1, <1>4, <1>5 DEF ReadObservation, At, Self, Adm, Threads

(* Who holds the reservation after a step held it before, or just won it.   *)
LEMMA InCallSteps ==
  ASSUME TypeOK, [Next]_vars, NEW w \in Workers, InCall(w)'
  PROVE  /\ Adm(w)' = Adm(w)
         /\ \/ Reserve(w) /\ worker'[w].pc = "reserved"
            \/ InCall(w) /\ worker'[w] = worker[w]
            \/ InCall(w) /\ EnterActive(w) /\ worker'[w].pc = "calling"
            \/ InCall(w) /\ CallProvider(w) /\ worker'[w].pc = "inside"
<1> USE DEF InCall, Self, Adm
<1>t. worker[w] \in Threads
  BY DEF TypeOK
<1>1. CASE worker'[w] = worker[w]
  BY <1>1
<1>2. CASE Quiet(w)
  BY <1>2 DEF Quiet
<1>3. CASE Reserve(w)
  BY <1>3, <1>t DEF Reserve, Goto, TypeOK, Threads
<1>4. CASE EnterActive(w)
  BY <1>4, <1>t DEF EnterActive, At, Goto, TypeOK, Threads
<1>5. CASE CallProvider(w)
  BY <1>5, <1>t DEF CallProvider, At, Goto, TypeOK, Threads
<1>6. CASE ReadSettlement(w) \/ ReadObservation(w)
  BY <1>6, SettlementRead, ObservationRead
<1>7. CASE \E a \in Admissions : RecoverStart(w, a)
  <2>1. worker'[w].pc = "check"
    BY <1>7, <1>t DEF RecoverStart, TypeOK, Idle
  <2> QED
    BY <2>1
<1> QED
  BY <1>1, <1>2, <1>3, <1>4, <1>5, <1>6, <1>7, ThreadSteps

LEMMA AttemptStep ==
  ASSUME TypeOK, AttemptInv, StartedInv, [Next]_vars
  PROVE  AttemptInv'
<1> SUFFICES ASSUME NEW b \in Admissions
             PROVE  (Row(b).attempt <=> Started(b))'
  BY DEF AttemptInv
<1>1. CASE UNCHANGED storeVars
  BY <1>1 DEF storeVars, AttemptInv, Started, Row
<1>2. ASSUME NEW w \in Workers, NEW e \in Events, Writes(w, e)
      PROVE  (Row(b).attempt <=> Started(b))'
  <2>1. CASE b # Adm(w)
    BY <1>2, <2>1, AppendMoves DEF Writes, AttemptInv, Started, Row
  <2>2. CASE b = Adm(w)
    <3>1. progress'[b].state # "FENCED"
      BY <1>2, <2>2, AppendMoves DEF Writes
    <3>2. Row(b).attempt \/ e.kind = "ATTEMPT_STARTED"
      <4>1. CASE At(w, "begin") /\ e = AttemptStarted
        BY <4>1 DEF AttemptStarted, PlainEvent
      <4>2. CASE ~(At(w, "begin") /\ e = AttemptStarted)
        <5>1. Started(b)
          <6>1. CASE Self(w).pc \in {"returned", "decide", "close"}
            BY <2>2, <6>1 DEF StartedInv
          <6>2. CASE Row(Adm(w)).state = "IN_FLIGHT"
            BY <2>2, <6>2 DEF Started
          <6>3. CASE Recordable(w) /\ e = Decision(w)
            <7>1. e.after \in {"UNKNOWN_EFFECT", "COMMITTED_READBACK", "NO_COMMIT"}
              BY <6>3 DEF Decision, ReconciliationEvent, TargetState
            <7>2. e.after \in Transitions[Row(b).state]
              BY <1>2, <2>2, AppendMoves DEF Writes
            <7> QED
              BY <7>1, <7>2 DEF Transitions, States, Started
          <6> QED
            BY <1>2, <4>2, <6>1, <6>2, <6>3 DEF Writes, At, Self
        <5> QED
          BY <5>1 DEF AttemptInv
      <4> QED
        BY <4>1, <4>2
    <3>3. progress'[b].attempt
      BY <1>2, <2>2, <3>2, AppendMoves DEF Writes
    <3> QED
      BY <3>1, <3>3 DEF Started, Row
  <2> QED
    BY <2>1, <2>2
<1> QED
  BY <1>1, <1>2, StoreSteps

LEMMA StartedStep ==
  ASSUME TypeOK, StartedInv, [Next]_vars
  PROVE  StartedInv'
<1> SUFFICES ASSUME NEW w \in Workers, (Self(w).pc \notin {"idle", "begin", "declare"})'
             PROVE  Started(Adm(w))'
  BY DEF StartedInv
<1>t. worker[w] \in Threads /\ Adm(w) \in Admissions
  BY ThreadFields
<1>1. ASSUME Self(w).pc \notin {"idle", "begin", "declare"}, Adm(w)' = Adm(w)
      PROVE  Started(Adm(w))'
  BY <1>1, <1>t, StartedStays DEF StartedInv
<1>2. CASE worker'[w] = worker[w]
  BY <1>1, <1>2 DEF Self, Adm
<1>3. CASE Quiet(w)
  BY <1>1, <1>3 DEF Quiet, Untried, Self, Adm
<1>4. CASE Reserve(w)
  <2>1. Adm(w)' = Adm(w)
    BY <1>4, <1>t DEF Reserve, Goto, TypeOK, Threads, Adm
  <2>2. progress'[Adm(w)].state = "IN_FLIGHT"
    BY <1>4, AppendMoves, EventsTyped DEF Reserve, AttemptStarted, PlainEvent
  <2> QED
    BY <2>1, <2>2 DEF Started, Row
<1>5. CASE EnterActive(w) \/ CallProvider(w)
  <2>1. Adm(w)' = Adm(w) /\ Self(w).pc \notin {"idle", "begin", "declare"}
    BY <1>5, <1>t DEF EnterActive, CallProvider, At, Goto, TypeOK, Threads, Adm, Self
  <2> QED
    BY <1>1, <2>1
<1>6. CASE ReadSettlement(w) \/ ReadObservation(w)
  <2>1. Adm(w)' = Adm(w) /\ Self(w).pc \notin {"idle", "begin", "declare"}
    BY <1>6, SettlementRead, ObservationRead DEF Adm
  <2> QED
    BY <1>1, <2>1
<1>7. ASSUME NEW a \in Admissions, RecoverStart(w, a)
      PROVE  Started(Adm(w))'
  <2>1. Adm(w)' = a
    BY <1>7, <1>t DEF RecoverStart, TypeOK, Idle, Adm
  <2>2. Started(a)' 
    BY <1>7 DEF RecoverStart, Started, Row, storeVars
  <2> QED
    BY <2>1, <2>2
<1> QED
  BY <1>2, <1>3, <1>4, <1>5, <1>6, <1>7, ThreadSteps

(* A call is counted only for the thread that holds the reservation. *)
LEMMA CallsSteps ==
  ASSUME TypeOK, [Next]_vars, NEW b \in Admissions, calls'[b] # calls[b]
  PROVE  \E w \in Workers : CallProvider(w) /\ Adm(w) = b /\ calls'[b] = calls[b] + 1
<1>0. calls \in [Admissions -> Nat]
  BY DEF TypeOK, ProviderTypeOK
<1>1. ~ UNCHANGED calls
  OBVIOUS
<1>2. PICK w \in Workers : CallProvider(w)
  BY <1>1, ProviderSteps DEF providerVars, Effect, Reject, Enqueue, Deliver, SettleAbsent
<1>3. calls' = [calls EXCEPT ![Adm(w)] = @ + 1]
  BY <1>2 DEF CallProvider, LogCall
<1> QED
  BY <1>0, <1>2, <1>3, ThreadFields

LEMMA CallStep ==
  ASSUME TypeOK, CallPart, [Next]_vars
  PROVE  CallInv'
<1> SUFFICES ASSUME NEW b \in Admissions
             PROVE  (calls[b] <= 1 /\ (calls[b] = 1 => Started(b)))'
  BY DEF CallInv
<1>1. CASE calls'[b] = calls[b]
  BY <1>1, StartedStays DEF CallPart, CallInv
<1>2. CASE calls'[b] # calls[b]
  <2>1. PICK w \in Workers : CallProvider(w) /\ Adm(w) = b /\ calls'[b] = calls[b] + 1
    BY <1>2, CallsSteps
  <2>2. Self(w).pc = "calling"
    BY <2>1 DEF CallProvider, At, Self
  <2>3. calls[b] = 0 /\ Started(b)
    BY <2>1, <2>2 DEF CallPart, CallerInv, InCall, StartedInv
  <2> QED
    BY <2>1, <2>3, StartedStays
<1> QED
  BY <1>1, <1>2

LEMMA OneCallerStep ==
  ASSUME TypeOK, CallPart, [Next]_vars
  PROVE  OneCallerInv'
<1> SUFFICES ASSUME NEW v \in Workers, NEW w \in Workers, InCall(v)', InCall(w)',
                    Adm(v)' = Adm(w)', v # w
             PROVE  FALSE
  BY DEF OneCallerInv
<1>1. Adm(v)' = Adm(v) /\ Adm(w)' = Adm(w)
  BY InCallSteps
<1>2. CASE InCall(v) /\ InCall(w)
  BY <1>1, <1>2 DEF CallPart, OneCallerInv
<1>3. ASSUME NEW x \in Workers, NEW y \in Workers, Reserve(x), InCall(y), Adm(x) = Adm(y)
      PROVE  FALSE
  BY <1>3 DEF Reserve, CallPart, StartedInv, Started, InCall
<1>4. CASE Reserve(v) /\ Reserve(w)
  <2>1. worker'[w] = worker[w]
    BY <1>4 DEF Reserve, Goto, TypeOK
  <2> QED
    BY <1>4, <2>1 DEF Reserve, InCall, Self, At
<1> QED
  BY <1>1, <1>2, <1>3, <1>4, InCallSteps

(* A correlation that is neither queued nor applied stays so, unless the    *)
(* answer to its own call changes it.                                       *)
LEMMA OpenStays ==
  ASSUME TypeOK, [Next]_vars, NEW b \in Admissions, b \notin queued, ~Applied(b),
         \A v \in Workers :
           At(v, "inside") /\ worker'[v].pc = "returned" => Adm(v) # b
  PROVE  b \notin queued' /\ ~Applied(b)'
<1>1. CASE UNCHANGED providerVars
  BY <1>1 DEF providerVars, Applied
<1>2. ASSUME NEW v \in Workers, CallProvider(v)
      PROVE  b \notin queued' /\ ~Applied(b)'
  BY <1>2 DEF CallProvider, LogCall, Applied
<1>3. ASSUME NEW a \in Admissions, a # b, Effect(a)
      PROVE  b \notin queued' /\ ~Applied(b)'
  BY <1>3, EffectApplies DEF Effect
<1>4. ASSUME NEW a \in Admissions, Reject(a)
      PROVE  b \notin queued' /\ ~Applied(b)'
  BY <1>4 DEF Reject, Applied
<1>5. ASSUME NEW a \in Admissions, a # b, Enqueue(a)
      PROVE  b \notin queued' /\ ~Applied(b)'
  BY <1>5 DEF Enqueue, Applied
<1>6. ASSUME NEW v \in Workers, At(v, "inside"), worker'[v].pc = "returned",
             Effect(Adm(v)) \/ Reject(Adm(v)) \/ Enqueue(Adm(v))
      PROVE  b \notin queued' /\ ~Applied(b)'
  <2>1. Adm(v) \in Admissions /\ Adm(v) # b
    BY <1>6, ThreadFields
  <2>2. PICK a \in Admissions : a # b /\ (Effect(a) \/ Reject(a) \/ Enqueue(a))
    BY <1>6, <2>1
  <2> QED
    BY <2>2, <1>3, <1>4, <1>5
<1>7. ASSUME NEW a \in Admissions, Deliver(a) \/ SettleAbsent(a)
      PROVE  b \notin queued' /\ ~Applied(b)'
  <2>1. (a # b /\ Effect(a)) \/ Reject(a)
    BY <1>7 DEF Deliver, SettleAbsent
  <2> QED
    BY <2>1, <1>3, <1>4
<1> QED
  BY <1>1, <1>2, <1>6, <1>7, ProviderSteps

(* The provider moves a correlation whose call is under way only through    *)
(* that call.                                                               *)
LEMMA CallerStep ==
  ASSUME TypeOK, CallPart, ProviderPart, [Next]_vars
  PROVE  CallerInv'
<1> SUFFICES ASSUME NEW w \in Workers, InCall(w)'
             PROVE  (/\ calls[Adm(w)] = (IF Self(w).pc = "inside" THEN 1 ELSE 0)
                     /\ Adm(w) \notin queued
                     /\ ~Applied(Adm(w)))'
  BY DEF CallerInv
<1>a. PICK b \in Admissions : b = Adm(w) /\ b = Adm(w)'
  BY InCallSteps, ThreadFields
<1>0. calls \in [Admissions -> Nat]
  BY DEF TypeOK, ProviderTypeOK
<1>g. SUFFICES /\ calls'[b] = (IF worker'[w].pc = "inside" THEN 1 ELSE 0)
               /\ b \notin queued'
               /\ ~Applied(b)'
  BY <1>a DEF Self, Applied
<1>1. CASE Reserve(w) /\ worker'[w].pc = "reserved"
  <2>1. calls[b] = 0
    BY <1>0, <1>1, <1>a DEF Reserve, CallPart, CallInv, Started
  <2>2. b \notin queued /\ ~Applied(b)
    BY <1>a, <2>1 DEF ProviderPart, QueueInv, AppliedInv
  <2> QED
    BY <1>1, <2>1, <2>2 DEF Reserve, providerVars, Applied
<1>2. CASE InCall(w) /\ EnterActive(w) /\ worker'[w].pc = "calling"
  <2>1. calls[b] = 0 /\ b \notin queued /\ ~Applied(b)
    BY <1>2, <1>a DEF EnterActive, At, CallPart, CallerInv, Self
  <2> QED
    BY <1>2, <2>1 DEF EnterActive, providerVars, Applied
<1>3. CASE InCall(w) /\ CallProvider(w) /\ worker'[w].pc = "inside"
  <2>1. calls[b] = 0 /\ b \notin queued /\ ~Applied(b)
    BY <1>3, <1>a DEF CallProvider, At, CallPart, CallerInv, Self
  <2>2. calls' = [calls EXCEPT ![b] = @ + 1] /\ queued' = queued /\ history' = history
    BY <1>3, <1>a DEF CallProvider, LogCall
  <2> QED
    BY <1>0, <1>3, <2>1, <2>2 DEF Applied
<1>4. CASE InCall(w) /\ worker'[w] = worker[w]
  <2>1. /\ calls[b] = (IF Self(w).pc = "inside" THEN 1 ELSE 0)
        /\ b \notin queued /\ ~Applied(b)
    BY <1>4, <1>a DEF CallPart, CallerInv
  <2>2. ASSUME NEW v \in Workers, InCall(v), Adm(v) = b
        PROVE  v = w
    BY <1>4, <1>a, <2>2 DEF CallPart, OneCallerInv
  <2>3. calls'[b] = calls[b]
    <3>1. ASSUME NEW v \in Workers, CallProvider(v), Adm(v) = b
          PROVE  FALSE
      <4>1. v = w
        BY <2>2, <3>1 DEF CallProvider, At, InCall, Self
      <4> QED
        BY <1>4, <3>1, <4>1, ThreadFields DEF CallProvider, At, Goto, TypeOK, Threads
    <3> QED
      BY <3>1, CallsSteps
  <2>4. ASSUME NEW v \in Workers, At(v, "inside"), worker'[v].pc = "returned"
        PROVE  Adm(v) # b
    BY <1>4, <2>2, <2>4 DEF At, InCall, Self
  <2>5. b \notin queued' /\ ~Applied(b)'
    BY <2>1, <2>4, OpenStays
  <2> QED
    BY <1>4, <2>1, <2>3, <2>5 DEF Self
<1> QED
  BY <1>1, <1>2, <1>3, <1>4, InCallSteps

LEMMA CallPartStep ==
  ASSUME TypeOK, CallPart, ProviderPart, [Next]_vars
  PROVE  CallPart'
BY AttemptStep, StartedStep, CallStep, OneCallerStep, CallerStep DEF CallPart

LEMMA CallsStay ==
  ASSUME TypeOK, CallPart, [Next]_vars, NEW b \in Admissions, calls[b] = 1
  PROVE  calls'[b] = 1
<1>1. ASSUME NEW w \in Workers, CallProvider(w), Adm(w) = b PROVE FALSE
  BY <1>1 DEF CallProvider, At, InCall, Self, CallPart, CallerInv
<1> QED
  BY <1>1, CallsSteps

(* What enters the slow queue, and what is applied, comes from the call.    *)
LEMMA QueueStep ==
  ASSUME TypeOK, CallPart, ProviderPart, [Next]_vars
  PROVE  QueueInv'
<1> SUFFICES ASSUME NEW b \in Admissions, b \in queued'
             PROVE  calls'[b] = 1
  BY TypeStep DEF QueueInv, TypeOK, ProviderTypeOK
<1>1. CASE b \in queued
  BY <1>1, CallsStay DEF ProviderPart, QueueInv
<1>2. CASE b \notin queued
  <2>1. ASSUME NEW a \in Admissions, Effect(a) \/ Reject(a)
        PROVE  FALSE
    BY <1>2, <2>1 DEF Effect, Reject
  <2>2. ~ UNCHANGED providerVars /\ \A w \in Workers : ~CallProvider(w)
    BY <1>2 DEF providerVars, CallProvider, LogCall
  <2>3. PICK w \in Workers : At(w, "inside") /\ Enqueue(Adm(w))
    BY <2>1, <2>2, ProviderSteps, ThreadFields DEF Deliver, SettleAbsent
  <2>4. b = Adm(w)
    BY <1>2, <2>3 DEF Enqueue
  <2>5. calls[b] = 1
    BY <2>3, <2>4 DEF At, InCall, Self, CallPart, CallerInv
  <2> QED
    BY <2>5, CallsStay
<1> QED
  BY <1>1, <1>2

LEMMA AppliedStep ==
  ASSUME TypeOK, CallPart, ProviderPart, [Next]_vars
  PROVE  AppliedInv'
<1> SUFFICES ASSUME NEW b \in Admissions, Applied(b)'
             PROVE  calls'[b] = 1 /\ settlement'[b] # "SETTLED_ABSENT"
  BY DEF AppliedInv
<1>0. settlement \in [Admissions -> {"NONE", "PENDING", "SETTLED_ABSENT"}]
  BY DEF TypeOK, ProviderTypeOK
<1>a. Applied(b) => calls'[b] = 1 /\ settlement[b] # "SETTLED_ABSENT"
  BY CallsStay DEF ProviderPart, AppliedInv
<1>b. ASSUME NEW w \in Workers, At(w, "inside")
      PROVE  calls[Adm(w)] = 1 /\ ~Applied(Adm(w)) /\ Adm(w) \in Admissions
  BY <1>b, ThreadFields DEF At, InCall, Self, CallPart, CallerInv
<1>1. CASE UNCHANGED providerVars \/ \E w \in Workers : CallProvider(w)
  BY <1>1, <1>a DEF providerVars, CallProvider, LogCall, Applied
<1>2. ASSUME NEW a \in Admissions, Effect(a), calls[a] = 1
      PROVE  calls'[b] = 1 /\ settlement'[b] # "SETTLED_ABSENT"
  <2>1. Applied(b) \/ b = a
    BY <1>2, EffectApplies
  <2>2. calls'[b] = 1
    BY <1>2, <1>a, <2>1, CallsStay
  <2>3. settlement' = [settlement EXCEPT ![a] = "NONE"]
    BY <1>2 DEF Effect
  <2> QED
    BY <1>0, <1>a, <2>1, <2>2, <2>3
<1>3. ASSUME NEW a \in Admissions, Reject(a), ~Applied(a)
      PROVE  calls'[b] = 1 /\ settlement'[b] # "SETTLED_ABSENT"
  <2>1. Applied(b) /\ b # a
    BY <1>3 DEF Reject, Applied
  <2>2. settlement' = [settlement EXCEPT ![a] = "SETTLED_ABSENT"]
    BY <1>3 DEF Reject
  <2> QED
    BY <1>0, <1>a, <2>1, <2>2
<1>4. ASSUME NEW a \in Admissions, Enqueue(a)
      PROVE  calls'[b] = 1 /\ settlement'[b] # "SETTLED_ABSENT"
  <2>1. Applied(b)
    BY <1>4 DEF Enqueue, Applied
  <2>2. settlement' = [settlement EXCEPT ![a] = "PENDING"] \/ settlement' = settlement
    BY <1>4 DEF Enqueue
  <2> QED
    BY <1>0, <1>a, <2>1, <2>2
<1>5. ASSUME NEW w \in Workers, At(w, "inside"),
             Effect(Adm(w)) \/ Reject(Adm(w)) \/ Enqueue(Adm(w))
      PROVE  calls'[b] = 1 /\ settlement'[b] # "SETTLED_ABSENT"
  BY <1>5, <1>b, <1>2, <1>3, <1>4
<1>6. ASSUME NEW a \in Admissions, Deliver(a) \/ SettleAbsent(a)
      PROVE  calls'[b] = 1 /\ settlement'[b] # "SETTLED_ABSENT"
  <2>1. CASE Deliver(a)
    BY <1>2, <2>1 DEF Deliver, ProviderPart, QueueInv
  <2>2. CASE SettleAbsent(a)
    BY <1>3, <2>2 DEF SettleAbsent, Final
  <2> QED
    BY <1>6, <2>1, <2>2
<1> QED
  BY <1>1, <1>5, <1>6, ProviderSteps

-----------------------------------------------------------------------------
(* The evidence, and the answers drawn from it. *)

LEMMA SettlementIsNow ==
  ASSUME NEW a \in Admissions,
         NEW st \in {SettlementNow(a)} \cup DegradedSettlements(SettlementNow(a)),
         st.read, st.status = "SETTLED_ABSENT"
  PROVE  settlement[a] = "SETTLED_ABSENT"
<1>1. SettlementNow(a).status = "SETTLED_ABSENT"
  BY DEF DegradedSettlements, SettlementNow, NoSettlement
<1> QED
  BY <1>1 DEF SettlementNow

LEMMA EvidenceStep ==
  ASSUME TypeOK, EvidenceInv, [Next]_vars
  PROVE  EvidenceInv'
<1> DEFINE Absent(x)  == x.st.read /\ x.st.status = "SETTLED_ABSENT"
           Seen(x, b) == x.obs.read /\ Occurs(b, x.obs.history)
<1> SUFFICES ASSUME NEW w \in Workers
             PROVE  (/\ Absent(Self(w)) => settlement[Adm(w)] = "SETTLED_ABSENT"
                     /\ Seen(Self(w), Adm(w)) => Applied(Adm(w)))'
  BY DEF EvidenceInv
<1>t. worker[w] \in Threads /\ worker'[w] \in Threads
  BY ThreadFields, TypeStep DEF TypeOK
<1>b. PICK b \in Admissions : b = worker'[w].adm
  BY <1>t DEF Threads
<1>g. SUFFICES /\ Absent(worker'[w]) => settlement'[b] = "SETTLED_ABSENT"
               /\ Seen(worker'[w], b) => Applied(b)'
  BY <1>b DEF Self, Adm, Applied
<1>s. /\ Applied(b) => Applied(b)'
      /\ settlement[b] = "SETTLED_ABSENT" => settlement'[b] = "SETTLED_ABSENT"
  BY FinalityStays
<1>e. ASSUME Adm(w) = b
      PROVE  /\ Absent(worker[w]) => settlement[b] = "SETTLED_ABSENT"
             /\ Seen(worker[w], b) => Applied(b)
  BY <1>e DEF EvidenceInv, Self
<1>1. CASE worker'[w] = worker[w]
  BY <1>1, <1>b, <1>e, <1>s DEF Adm
<1>2. CASE Quiet(w)
  <2>1. CASE ~worker'[w].st.read /\ ~worker'[w].obs.read
    BY <2>1
  <2>2. CASE worker'[w].st = Self(w).st /\ worker'[w].obs = Self(w).obs /\ worker'[w].adm = Adm(w)
    BY <2>2, <1>b, <1>e, <1>s DEF Self
  <2> QED
    BY <1>2, <2>1, <2>2 DEF Quiet
<1>3. CASE Reserve(w) \/ EnterActive(w) \/ CallProvider(w)
  <2>1. worker'[w].st = worker[w].st /\ worker'[w].obs = worker[w].obs /\ Adm(w) = b
    BY <1>3, <1>b, <1>t DEF Reserve, EnterActive, CallProvider, Goto, TypeOK, Threads, Adm
  <2> QED
    BY <2>1, <1>e, <1>s
<1>4. CASE ReadSettlement(w)
  <2>1. Adm(w) = b /\ worker'[w].obs = worker[w].obs
    BY <1>4, <1>b, SettlementRead DEF Self
  <2>2. Absent(worker'[w]) => settlement[b] = "SETTLED_ABSENT"
    BY <1>4, <2>1, SettlementRead, SettlementIsNow
  <2> QED
    BY <1>e, <1>s, <2>1, <2>2
<1>5. CASE ReadObservation(w)
  <2>1. Adm(w) = b /\ worker'[w].st = worker[w].st
    BY <1>5, <1>b, ObservationRead DEF Self
  <2>2. Seen(worker'[w], b) => Applied(b)
    BY <1>5, <2>1, ObservationRead DEF Applied
  <2> QED
    BY <1>e, <1>s, <2>1, <2>2
<1>6. ASSUME NEW a \in Admissions, RecoverStart(w, a)
      PROVE  /\ Absent(worker'[w]) => settlement'[b] = "SETTLED_ABSENT"
             /\ Seen(worker'[w], b) => Applied(b)'
  <2>1. worker'[w].st = NoSettlement /\ worker'[w].obs = NoObs
    BY <1>6, <1>t DEF RecoverStart, TypeOK, Idle
  <2> QED
    BY <2>1 DEF NoSettlement, NoObs
<1> QED
  BY <1>1, <1>2, <1>3, <1>4, <1>5, <1>6, ThreadSteps

(* Committed is only concluded from a readback that has the correlation.    *)
LEMMA CommittedNeedsOccurrence ==
  ASSUME NEW a, NEW obs, NEW st, NEW acked,
         ClassifyDurable(a, obs, st, acked).class = "COMMITTED"
  PROVE  obs.read /\ Occurs(a, obs.history)
<1>1. ClassifyObservation(a, obs, acked).class = "COMMITTED"
  BY DEF ClassifyDurable, Verdict
<1> QED
  BY <1>1 DEF ClassifyObservation, Verdict

(* A terminal event is a reconciliation on the evidence of its thread.      *)
LEMMA TerminalEvent ==
  ASSUME TypeOK, NEW w \in Workers, NEW e \in Events, Writes(w, e)
  PROVE  /\ e.after = "NO_COMMIT" =>
              Self(w).st.read /\ Self(w).st.status = "SETTLED_ABSENT"
         /\ e.after = "COMMITTED_READBACK" =>
              Self(w).obs.read /\ Occurs(Adm(w), Self(w).obs.history)
<1>1. CASE ~(Recordable(w) /\ e = Decision(w))
  BY <1>1 DEF Writes, AttemptStarted, ProviderResult, DeclaredLost, PlainEvent
<1>2. CASE Recordable(w) /\ e = Decision(w)
  <2>1. e.st = Self(w).st /\ CarriesSettlement(e.after, e.st)
    BY <1>2 DEF Recordable, Acceptable, Decision, ReconciliationEvent
  <2>2. e.after = "COMMITTED_READBACK" => TargetState(VerdictOf(w).class) = "COMMITTED_READBACK"
    BY <1>2 DEF Decision, ReconciliationEvent
  <2>3. e.after = "COMMITTED_READBACK" => VerdictOf(w).class = "COMMITTED"
    BY <2>2 DEF TargetState
  <2> QED
    BY <2>1, <2>3, CommittedNeedsOccurrence DEF CarriesSettlement, VerdictOf
<1> QED
  BY <1>1, <1>2

LEMMA AnswerStep ==
  ASSUME TypeOK, ProviderPart', AnswerPart, [Next]_vars
  PROVE  NoCommitIsFinal' /\ CommittedIsApplied'
<1> SUFFICES ASSUME NEW b \in Admissions
             PROVE  /\ progress'[b].state = "NO_COMMIT" =>
                         ~Applied(b)' /\ settlement'[b] = "SETTLED_ABSENT"
                    /\ progress'[b].state = "COMMITTED_READBACK" => Applied(b)'
  BY DEF NoCommitIsFinal, CommittedIsApplied, Row
<1>a. /\ Applied(b) => Applied(b)'
      /\ settlement[b] = "SETTLED_ABSENT" => settlement'[b] = "SETTLED_ABSENT"
  BY FinalityStays
<1>b. settlement'[b] = "SETTLED_ABSENT" => ~Applied(b)'
  BY DEF ProviderPart, AppliedInv
<1>1. CASE progress'[b] = progress[b]
  BY <1>1, <1>a, <1>b DEF AnswerPart, NoCommitIsFinal, CommittedIsApplied, Row
<1>2. ASSUME NEW w \in Workers, NEW e \in Events, Writes(w, e), b = Adm(w)
      PROVE  /\ progress'[b].state = "NO_COMMIT" =>
                  ~Applied(b)' /\ settlement'[b] = "SETTLED_ABSENT"
             /\ progress'[b].state = "COMMITTED_READBACK" => Applied(b)'
  <2>1. progress'[b].state = e.after
    BY <1>2, AppendMoves DEF Writes
  <2>2. /\ e.after = "NO_COMMIT" => settlement[b] = "SETTLED_ABSENT"
        /\ e.after = "COMMITTED_READBACK" => Applied(b)
    BY <1>2, TerminalEvent DEF AnswerPart, EvidenceInv
  <2> QED
    BY <2>1, <2>2, <1>a, <1>b
<1>3. ASSUME progress'[b] # progress[b]
      PROVE  \E w \in Workers, e \in Events : Writes(w, e) /\ b = Adm(w)
  <2>1. PICK w \in Workers, e \in Events : Writes(w, e)
    BY <1>3, StoreSteps DEF storeVars
  <2> QED
    BY <1>3, <2>1, AppendMoves DEF Writes
<1> QED
  BY <1>1, <1>2, <1>3

-----------------------------------------------------------------------------
(* The inductive invariant. *)

LEMMA InitInvariant ==
  ASSUME Init
  PROVE  IInv
<1>1. TypeOK
  BY InitTyped
<1>2. CallPart
  <2>1. \A a \in Admissions :
          /\ Row(a).state = "FENCED" /\ ~Row(a).attempt
          /\ calls[a] = 0
    BY DEF Init, ProviderInit, Row
  <2>2. \A w \in Workers : Self(w).pc = "idle"
    BY DEF Init, Self, Idle
  <2>3. AttemptInv /\ CallInv
    BY <2>1 DEF AttemptInv, CallInv, Started
  <2>4. StartedInv
    BY <2>2 DEF StartedInv
  <2>5. CallerInv /\ OneCallerInv
    <3>1. \A w \in Workers : ~InCall(w)
      BY <2>2 DEF InCall
    <3> QED
      BY <3>1 DEF CallerInv, OneCallerInv
  <2> QED
    BY <2>3, <2>4, <2>5 DEF CallPart
<1>3. ProviderPart
  <2>1. ASSUME NEW a \in Admissions PROVE ~Applied(a)
    <3>1. history[TargetOf[a]] = << >>
      BY ConstantsAssumption DEF Init, ProviderInit
    <3>2. ~Occurs(a, << >>)
      BY DEF Occurs
    <3> QED
      BY <3>1, <3>2 DEF Applied
  <2> QED
    BY <2>1 DEF Init, ProviderInit, ProviderPart, QueueInv, AppliedInv
<1>4. AnswerPart
  BY DEF Init, AnswerPart, EvidenceInv, NoCommitIsFinal, CommittedIsApplied, Row, Self,
     Idle, NoSettlement, NoObs
<1> QED
  BY <1>1, <1>2, <1>3, <1>4 DEF IInv

LEMMA InvariantStep ==
  ASSUME IInv, [Next]_vars
  PROVE  IInv'
<1>1. TypeOK' /\ CallPart'
  BY TypeStep, CallPartStep DEF IInv
<1>2. ProviderPart'
  BY QueueStep, AppliedStep DEF IInv, ProviderPart
<1>3. AnswerPart'
  BY <1>2, EvidenceStep, AnswerStep DEF IInv, AnswerPart
<1> QED
  BY <1>1, <1>2, <1>3 DEF IInv

(* The inductive invariant holds, for every number of processes, threads,   *)
(* admissions, targets and faults.                                          *)
THEOREM InvariantHolds == Spec => []IInv
BY InitInvariant, InvariantStep, PTL DEF Spec

(* The provider is called at most once per admission, whatever crashes and  *)
(* whatever commit goes unconfirmed (execute, begin_attempt).               *)
THEOREM CalledAtMostOnce == Spec => []AtMostOneCall
<1>1. IInv => AtMostOneCall
  BY DEF IInv, CallPart, CallInv, AttemptInv, AtMostOneCall, Row
<1> QED
  BY <1>1, InvariantHolds, PTL

(* A NO_COMMIT is final: no effect, and none can come (classify_durable).   *)
THEOREM NoCommitCorrect == Spec => []NoCommitIsFinal
<1>1. IInv => NoCommitIsFinal
  BY DEF IInv, AnswerPart
<1> QED
  BY <1>1, InvariantHolds, PTL

(* A COMMITTED_READBACK is true (classify_observation).                     *)
THEOREM CommittedCorrect == Spec => []CommittedIsApplied
<1>1. IInv => CommittedIsApplied
  BY DEF IInv, AnswerPart
<1> QED
  BY <1>1, InvariantHolds, PTL

(* The provider applies an effect only on the version its batch was         *)
(* approved for, whichever batches the slow queue lets through before it.   *)
LEMMA PreconditionStep ==
  ASSUME TypeOK, PreconditionHeld, [Next]_vars
  PROVE  PreconditionHeld'
<1>1. ASSUME UNCHANGED history PROVE PreconditionHeld'
  BY <1>1 DEF PreconditionHeld
<1>2. ASSUME NEW a \in Admissions, Effect(a) PROVE PreconditionHeld'
  <2>1. /\ TargetOf[a] \in Targets /\ history \in [Targets -> Seq(Admissions)]
        /\ history' = [history EXCEPT ![TargetOf[a]] = Append(@, a)]
        /\ PreconditionOf[a] \in {AnyVersion, Len(history[TargetOf[a]])}
    BY <1>2, ConstantsAssumption DEF Effect, Applicable, TypeOK, ProviderTypeOK
  <2> SUFFICES ASSUME NEW t \in Targets, NEW i \in 1..Len(history'[t])
               PROVE  PreconditionOf[history'[t][i]] \in {AnyVersion, i - 1}
    BY DEF PreconditionHeld
  <2>2. CASE t # TargetOf[a]
    BY <2>1, <2>2 DEF PreconditionHeld
  <2>3. CASE t = TargetOf[a]
    <3>1. history[t] \in Seq(Admissions) /\ history'[t] = Append(history[t], a)
      BY <2>1, <2>3
    <3>2. CASE i \in 1..Len(history[t])
      BY <3>1, <3>2 DEF PreconditionHeld
    <3>3. CASE i = Len(history[t]) + 1
      BY <2>1, <2>3, <3>1, <3>3
    <3> QED
      BY <3>1, <3>2, <3>3
  <2> QED
    BY <2>2, <2>3
<1>3. UNCHANGED history \/ \E a \in Admissions : Effect(a)
  BY ProviderSteps, ThreadFields
     DEF providerVars, CallProvider, LogCall, Deliver, SettleAbsent, Reject, Enqueue
<1> QED
  BY <1>1, <1>2, <1>3

(* Of the batches approved for one version of a target, at most the first   *)
(* applies (_effect, synthetic_pg.py:292-304).                              *)
THEOREM PreconditionsHold == Spec => []PreconditionHeld
<1>1. Init => PreconditionHeld
  BY DEF Init, ProviderInit, PreconditionHeld
<1>2. TypeOK /\ PreconditionHeld /\ [Next]_vars => PreconditionHeld'
  BY PreconditionStep
<1> QED
  BY <1>1, <1>2, TypeCorrect, PTL DEF Spec

-----------------------------------------------------------------------------
(* The executor implements its promise. *)

Effects == [a \in Admissions |-> EffectOf(a)]
Answers == [a \in Admissions |-> AnswerOf(a)]

(* No transaction spans the ledger and the provider: a step moves one or    *)
(* the other.                                                               *)
LEMMA StoreOrProvider ==
  ASSUME TypeOK, [Next]_vars
  PROVE  UNCHANGED storeVars \/ UNCHANGED providerVars
<1>1. ASSUME NEW w \in Workers, CallProvider(w) \/ ProviderAnswers(w)
      PROVE  UNCHANGED storeVars
  BY <1>1 DEF CallProvider, ProviderAnswers, Answer, ProviderCommits, ProviderRefuses,
     ProviderFails, ProviderAcksNothing, ProviderRejects, ProviderDelays
<1>2. ASSUME NEW w \in Workers, Continue(w), ~CallProvider(w), ~ProviderAnswers(w)
      PROVE  UNCHANGED providerVars
  BY <1>2 DEF Continue, Reserve, ReserveLost, ReserveUnconfirmed, EnterActive,
     RecordResult, RecordResultRefused, RecordResultUnconfirmed, Reread, RereadFails,
     RecoverCheck, ReadSettlement, ReadObservation, Reconcile, ReconcileRefused,
     ReconcileUnconfirmed, After, AfterFails, DeclareLost, DeclareLostUnconfirmed
<1>3. ASSUME NEW w \in Workers, NEW a \in Admissions,
             ExecuteStart(w, a) \/ RecoverStart(w, a) \/ DeclareStart(w, a)
      PROVE  UNCHANGED storeVars
  BY <1>3 DEF ExecuteStart, RecoverStart, DeclareStart
<1>4. ASSUME NEW p \in Processes, Crash(p) PROVE UNCHANGED storeVars
  BY <1>4 DEF Crash
<1>5. ASSUME NEW a \in Admissions, Expire(a) \/ ProviderActs(a) PROVE UNCHANGED storeVars
  BY <1>5 DEF Expire, ProviderActs
<1>6. UNCHANGED vars => UNCHANGED storeVars
  BY DEF vars
<1> QED
  BY <1>1, <1>2, <1>3, <1>4, <1>5, <1>6 DEF Next

(* An effect transaction applies an effect that was still open ...          *)
LEMMA EffectIsPromised ==
  ASSUME TypeOK, NEW a \in Admissions, Effect(a), calls[a] = 1, UNCHANGED storeVars
  PROVE  Promise!Apply(a)
<1>0. settlement \in [Admissions -> {"NONE", "PENDING", "SETTLED_ABSENT"}]
  BY DEF TypeOK, ProviderTypeOK
<1>1. /\ ~Applied(a) /\ settlement[a] # "SETTLED_ABSENT"
      /\ settlement' = [settlement EXCEPT ![a] = "NONE"] /\ calls' = calls
  BY DEF Effect, Applicable, Final
<1>2. \A b \in Admissions : Applied(b)' <=> Applied(b) \/ b = a
  BY EffectApplies
<1>3. EffectOf(a) = "open" /\ EffectOf(a)' = "applied"
  BY <1>1, <1>2 DEF EffectOf
<1>4. \A b \in Admissions : b # a => EffectOf(b)' = EffectOf(b)
  BY <1>0, <1>1, <1>2 DEF EffectOf
<1>5. Effects' = [Effects EXCEPT ![a] = "applied"]
  BY <1>3, <1>4 DEF Effects
<1>6. Answers' = Answers
  BY DEF Answers, AnswerOf, Row, storeVars
<1> QED
  BY <1>1, <1>3, <1>5, <1>6 DEF Promise!Apply, Effects, Answers

(* ... and a durable refusal excludes it, once.                             *)
LEMMA RejectIsPromised ==
  ASSUME TypeOK, NEW a \in Admissions, Reject(a), ~Applied(a), UNCHANGED storeVars
  PROVE  Promise!Exclude(a) \/ UNCHANGED Promise!promiseVars
<1>0. settlement \in [Admissions -> {"NONE", "PENDING", "SETTLED_ABSENT"}]
  BY DEF TypeOK, ProviderTypeOK
<1>1. /\ settlement' = [settlement EXCEPT ![a] = "SETTLED_ABSENT"]
      /\ calls' = calls /\ history' = history
  BY DEF Reject
<1>2. \A b \in Admissions : Applied(b)' <=> Applied(b)
  BY <1>1 DEF Applied
<1>3. EffectOf(a) \in {"open", "excluded"} /\ EffectOf(a)' = "excluded"
  BY <1>0, <1>1, <1>2 DEF EffectOf
<1>4. \A b \in Admissions : b # a => EffectOf(b)' = EffectOf(b)
  BY <1>0, <1>1, <1>2 DEF EffectOf
<1>5. Effects' = [Effects EXCEPT ![a] = "excluded"]
  BY <1>3, <1>4 DEF Effects
<1>6. Answers' = Answers
  BY DEF Answers, AnswerOf, Row, storeVars
<1>7. CASE EffectOf(a) = "open"
  BY <1>1, <1>5, <1>6, <1>7 DEF Promise!Exclude, Effects, Answers
<1>8. CASE EffectOf(a) = "excluded"
  <2>1. Effects' = Effects
    BY <1>5, <1>8 DEF Effects
  <2> QED
    BY <1>1, <1>6, <2>1 DEF Promise!promiseVars, Effects, Answers
<1> QED
  BY <1>3, <1>7, <1>8

(* A call under way waits in the slow queue: nothing the owner can tell.    *)
LEMMA EnqueueIsSilent ==
  ASSUME TypeOK, NEW a \in Admissions, Enqueue(a), UNCHANGED storeVars
  PROVE  UNCHANGED Promise!promiseVars
<1>0. settlement \in [Admissions -> {"NONE", "PENDING", "SETTLED_ABSENT"}]
  BY DEF TypeOK, ProviderTypeOK
<1>1. /\ calls' = calls /\ history' = history
      /\ \A b \in Admissions :
           settlement'[b] = "SETTLED_ABSENT" <=> settlement[b] = "SETTLED_ABSENT"
  BY <1>0 DEF Enqueue
<1>2. Effects' = Effects
  BY <1>1 DEF Effects, EffectOf, Applied
<1>3. Answers' = Answers
  BY DEF Answers, AnswerOf, Row, storeVars
<1> QED
  BY <1>1, <1>2, <1>3 DEF Promise!promiseVars, Effects, Answers

LEMMA ProviderIsPromised ==
  ASSUME IInv, [Next]_vars, UNCHANGED storeVars
  PROVE  [Promise!PromiseNext]_(Promise!promiseVars)
<1>t. TypeOK
  BY DEF IInv
<1>1. CASE UNCHANGED providerVars
  BY <1>1 DEF providerVars, storeVars, Promise!promiseVars, EffectOf, AnswerOf, Applied, Row
<1>2. ASSUME NEW w \in Workers, CallProvider(w) PROVE Promise!Call(Adm(w))
  <2>1. Adm(w) \in Admissions /\ calls \in [Admissions -> Nat]
    BY <1>t, ThreadFields DEF TypeOK, ProviderTypeOK
  <2>2. /\ calls' = [calls EXCEPT ![Adm(w)] = @ + 1]
        /\ history' = history /\ settlement' = settlement
    BY <1>2 DEF CallProvider, LogCall
  <2>3. calls[Adm(w)] = 0
    BY <1>2 DEF IInv, CallPart, CallerInv, InCall, CallProvider, At, Self
  <2>4. calls' = [calls EXCEPT ![Adm(w)] = 1]
    BY <2>1, <2>2, <2>3
  <2>5. Effects' = Effects
    BY <2>2 DEF Effects, EffectOf, Applied
  <2>6. Answers' = Answers
    BY DEF Answers, AnswerOf, Row, storeVars
  <2> QED
    BY <2>3, <2>4, <2>5, <2>6 DEF Promise!Call, Effects, Answers
<1>3. ASSUME NEW w \in Workers, At(w, "inside"),
             Effect(Adm(w)) \/ Reject(Adm(w)) \/ Enqueue(Adm(w))
      PROVE  \/ Promise!Apply(Adm(w)) \/ Promise!Exclude(Adm(w))
             \/ UNCHANGED Promise!promiseVars
  <2>1. Adm(w) \in Admissions
    BY <1>t, ThreadFields
  <2>2. calls[Adm(w)] = 1 /\ ~Applied(Adm(w))
    BY <1>3 DEF IInv, CallPart, CallerInv, InCall, At, Self
  <2> QED
    BY <1>t, <1>3, <2>1, <2>2, EffectIsPromised, RejectIsPromised, EnqueueIsSilent
<1>4. ASSUME NEW a \in Admissions, Deliver(a) PROVE Promise!Apply(a)
  <2>1. calls[a] = 1 /\ Effect(a)
    BY <1>4 DEF Deliver, IInv, ProviderPart, QueueInv
  <2> QED
    BY <1>t, <2>1, EffectIsPromised
<1>5. ASSUME NEW a \in Admissions, SettleAbsent(a)
      PROVE  Promise!Exclude(a) \/ UNCHANGED Promise!promiseVars
  BY <1>t, <1>5, RejectIsPromised DEF SettleAbsent, Final
<1>6. \A w \in Workers : Adm(w) \in Admissions
  BY <1>t, ThreadFields
<1> QED
  BY <1>t, <1>1, <1>2, <1>3, <1>4, <1>5, <1>6, ProviderSteps DEF Promise!PromiseNext

(* The ledger gives one answer at most, and gives it when it is true.       *)
LEMMA WriteIsPromised ==
  ASSUME IInv, IInv', UNCHANGED providerVars,
         NEW w \in Workers, NEW e \in Events, Writes(w, e)
  PROVE  \/ Promise!AnswerCommitted(Adm(w)) \/ Promise!AnswerAbsent(Adm(w))
         \/ UNCHANGED Promise!promiseVars
<1>0. PICK a \in Admissions : a = Adm(w)
  BY ThreadFields DEF IInv
<1>1. a \in Admissions /\ TypeOK /\ progress \in [Admissions -> Progress]
  BY DEF IInv, TypeOK
<1>2. /\ \A b \in Admissions : b # a => progress'[b] = progress[b]
      /\ progress'[a].state = e.after /\ e.after \in Transitions[Row(a).state]
  BY <1>0, <1>1, AppendMoves DEF Writes
<1>3. Row(a).state \in States /\ e.after \in States
  BY <1>1 DEF TypeOK, Row, Progress, Events
<1>4. Row(a).state \notin Terminal
  BY <1>2, <1>3 DEF Transitions, Terminal, States
<1>5. calls' = calls /\ Effects' = Effects
  BY DEF providerVars, Effects, EffectOf, Applied
<1>6. AnswerOf(a) = "none"
  BY <1>4 DEF AnswerOf, Terminal
<1>7. \A b \in Admissions : b # a => AnswerOf(b)' = AnswerOf(b)
  BY <1>2 DEF AnswerOf, Row
<1>8. CASE e.after = "COMMITTED_READBACK"
  <2>1. Row(a)'.state = "COMMITTED_READBACK"
    BY <1>2, <1>8 DEF Row
  <2>2. Applied(a)'
    BY <1>1, <2>1 DEF IInv, AnswerPart, CommittedIsApplied, Row
  <2>3. EffectOf(a) = "applied"
    BY <2>2 DEF EffectOf, Applied, providerVars
  <2>4. Answers' = [Answers EXCEPT ![a] = "committed"]
    BY <1>7, <2>1 DEF Answers, AnswerOf, Row
  <2> QED
    BY <1>0, <1>1, <1>5, <1>6, <2>3, <2>4 DEF Promise!AnswerCommitted, Effects, Answers
<1>9. CASE e.after = "NO_COMMIT"
  <2>1. Row(a)'.state = "NO_COMMIT"
    BY <1>2, <1>9 DEF Row
  <2>2. ~Applied(a)' /\ settlement'[a] = "SETTLED_ABSENT"
    BY <1>1, <2>1 DEF IInv, AnswerPart, NoCommitIsFinal, Row
  <2>3. EffectOf(a) = "excluded"
    BY <2>2 DEF EffectOf, Applied, providerVars
  <2>4. Answers' = [Answers EXCEPT ![a] = "absent"]
    BY <1>7, <2>1 DEF Answers, AnswerOf, Row
  <2> QED
    BY <1>0, <1>1, <1>5, <1>6, <2>3, <2>4 DEF Promise!AnswerAbsent, Effects, Answers
<1>10. CASE e.after \notin Terminal
  <2>1. AnswerOf(a)' = "none"
    BY <1>2, <1>10 DEF AnswerOf, Terminal, Row
  <2>2. Answers' = Answers
    BY <1>6, <1>7, <2>1 DEF Answers
  <2> QED
    BY <1>5, <2>2 DEF Promise!promiseVars, Effects, Answers
<1> QED
  BY <1>0, <1>8, <1>9, <1>10 DEF Terminal

LEMMA StepIsPromised ==
  ASSUME IInv, IInv', [Next]_vars
  PROVE  [Promise!PromiseNext]_(Promise!promiseVars)
<1>t. TypeOK
  BY DEF IInv
<1>1. CASE UNCHANGED storeVars
  BY <1>1, ProviderIsPromised
<1>2. CASE ~ UNCHANGED storeVars
  <2>1. UNCHANGED providerVars
    BY <1>t, <1>2, StoreOrProvider
  <2>2. PICK w \in Workers, e \in Events : Writes(w, e)
    BY <1>t, <1>2, StoreSteps
  <2>3. Adm(w) \in Admissions
    BY <1>t, ThreadFields
  <2> QED
    BY <2>1, <2>2, <2>3, WriteIsPromised DEF Promise!PromiseNext
<1> QED
  BY <1>1, <1>2

(* Whatever processes, crashes and messages lie behind it, the owner sees   *)
(* one call at most, an effect only because of that call, and an answer     *)
(* that is true when it is given and stays true (execute, recover).         *)
THEOREM ExecutorKeepsPromise == Spec => ImplementsPromise
<1>1. Init => Promise!PromiseInit
  <2> SUFFICES ASSUME Init PROVE Promise!PromiseInit
    OBVIOUS
  <2>1. /\ calls = [a \in Admissions |-> 0]
        /\ \A a \in Admissions : settlement[a] = "NONE" /\ Row(a).state = "FENCED"
    BY DEF Init, ProviderInit, Row
  <2>2. \A a \in Admissions : ~Applied(a)
    <3> SUFFICES ASSUME NEW a \in Admissions PROVE ~Applied(a)
      OBVIOUS
    <3>1. TargetOf[a] \in Targets
      BY ConstantsAssumption
    <3>2. history[TargetOf[a]] = << >>
      BY <3>1 DEF Init, ProviderInit
    <3>3. ~Occurs(a, << >>)
      BY DEF Occurs
    <3> QED
      BY <3>2, <3>3 DEF Applied
  <2>3. \A a \in Admissions : EffectOf(a) = "open" /\ AnswerOf(a) = "none"
    BY <2>1, <2>2 DEF EffectOf, AnswerOf
  <2> QED
    BY <2>1, <2>3 DEF Promise!PromiseInit
<1>2. IInv /\ IInv' /\ [Next]_vars => [Promise!PromiseNext]_(Promise!promiseVars)
  BY StepIsPromised
<1> QED
  BY <1>1, <1>2, InvariantHolds, PTL DEF Spec, ImplementsPromise, Promise!PromiseSpec
=============================================================================
