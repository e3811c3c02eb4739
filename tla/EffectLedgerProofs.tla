------------------------- MODULE EffectLedgerProofs -------------------------
(***************************************************************************)
(* TLAPS proofs about what the executors write: every ledger passes the    *)
(* repository's own verifiers and the database's triggers, and says only   *)
(* what is so.                                                             *)
(***************************************************************************)
EXTENDS EffectExecutorProofs

-----------------------------------------------------------------------------
(* Ledgers that grow by one event. *)

LEMMA AckedByAppend ==
  ASSUME NEW l \in Seq(Events), NEW e \in Events
  PROVE  /\ \A n \in 0..Len(l) : AckedBy(Append(l, e), n) <=> AckedBy(l, n)
         /\ AckedBy(Append(l, e), Len(l) + 1) <=>
              AckedBy(l, Len(l)) \/ (e.kind = "PROVIDER_RESULT" /\ e.acked)
<1>1. /\ \A i \in 1..Len(l) : Append(l, e)[i] = l[i]
      /\ Append(l, e)[Len(l) + 1] = e
  OBVIOUS
<1>2. ASSUME NEW n \in 0..Len(l)
      PROVE  AckedBy(Append(l, e), n) <=> AckedBy(l, n)
  <2>1. \A i \in 1..n : Append(l, e)[i] = l[i]
    BY <1>1
  <2> QED
    BY <2>1 DEF AckedBy
<1>3. AckedBy(Append(l, e), Len(l) + 1) <=>
        AckedBy(Append(l, e), Len(l)) \/ (e.kind = "PROVIDER_RESULT" /\ e.acked)
  <2>1. \A i : i \in 1..(Len(l) + 1) <=> i \in 1..Len(l) \/ i = Len(l) + 1
    OBVIOUS
  <2> QED
    BY <1>1, <2>1 DEF AckedBy
<1> QED
  BY <1>2, <1>3

(* An event that takes a legal edge and is derived from its own evidence    *)
(* keeps a verified ledger verified (verify_provenance_durable).            *)
LEMMA ProvenanceExtends ==
  ASSUME NEW l \in Seq(Events), NEW e \in Events, VerifiedProvenance(l),
         e.after \in Transitions[l[Len(l)].after],
         e.kind = "RECONCILIATION" =>
           /\ DerivedFromObservation(e.after, e, e.obs, AckedBy(l, Len(l)))
           /\ CarriesSettlement(e.after, e.st),
         e.kind = "PROVIDER_RESULT" =>
           e.after = IF e.acked THEN "IN_FLIGHT" ELSE "UNKNOWN_EFFECT"
  PROVE  VerifiedProvenance(Append(l, e))
<1> DEFINE m == Append(l, e)
           Derived(k, i) ==
             /\ k[i].kind = "RECONCILIATION" =>
                  /\ DerivedFromObservation(k[i].after, k[i], k[i].obs, AckedBy(k, i-1))
                  /\ CarriesSettlement(k[i].after, k[i].st)
             /\ k[i].kind = "PROVIDER_RESULT" =>
                  k[i].after = IF k[i].acked THEN "IN_FLIGHT" ELSE "UNKNOWN_EFFECT"
<1>1. Len(l) > 0 /\ Len(l) \in Nat
  BY DEF VerifiedProvenance
<1>2. /\ Len(m) = Len(l) + 1 /\ m[Len(l) + 1] = e
      /\ \A i \in 1..Len(l) : m[i] = l[i]
  OBVIOUS
<1>3. m[1].kind = "ADMISSION_FENCED" /\ m[1].after = "FENCED"
  BY <1>1, <1>2 DEF VerifiedProvenance
<1>4. ASSUME NEW i \in 2..Len(m) PROVE m[i].after \in Transitions[m[i-1].after]
  <2>1. CASE i \in 2..Len(l)
    <3>1. m[i] = l[i] /\ m[i-1] = l[i-1]
      BY <1>2, <2>1
    <3> QED
      BY <2>1, <3>1 DEF VerifiedProvenance
  <2>2. CASE i = Len(l) + 1
    <3>1. m[i] = e /\ m[i-1] = l[Len(l)]
      BY <1>1, <1>2, <2>2
    <3> QED
      BY <3>1
  <2> QED
    BY <1>2, <2>1, <2>2
<1>5. ASSUME NEW i \in 1..Len(m) PROVE Derived(m, i)
  <2>1. AckedBy(m, i-1) <=> AckedBy(l, i-1)
    BY <1>2, AckedByAppend
  <2>2. CASE i \in 1..Len(l)
    <3>1. m[i] = l[i]
      BY <1>2, <2>2
    <3>2. Derived(l, i)
      BY <2>2 DEF VerifiedProvenance
    <3> QED
      BY <2>1, <3>1, <3>2 DEF DerivedFromObservation
  <2>3. CASE i = Len(l) + 1
    <3>1. m[i] = e /\ i - 1 = Len(l)
      BY <1>2, <2>3
    <3> QED
      BY <2>1, <3>1 DEF DerivedFromObservation
  <2> QED
    BY <1>2, <2>2, <2>3
<1> QED
  BY <1>1, <1>2, <1>3, <1>4, <1>5 DEF VerifiedProvenance
(* The projection of one more event, as _append computes it, is what the    *)
(* longer ledger says (verify_projection).                                  *)
LEMMA ProjectionExtends ==
  ASSUME NEW l \in Seq(Events), NEW e \in Events, NEW p \in Progress, NEW q,
         VerifiedProjection(p, l),
         q = [state   |-> e.after,
              seq     |-> p.seq + 1,
              attempt |-> p.attempt \/ e.kind = "ATTEMPT_STARTED",
              ack     |-> p.ack \/ (e.kind = "PROVIDER_RESULT" /\ e.acked)]
  PROVE  VerifiedProjection(q, Append(l, e))
<1> DEFINE m == Append(l, e)
<1>1. /\ Len(m) = Len(l) + 1 /\ m[Len(m)] = e
      /\ \A i \in 1..Len(l) : m[i] = l[i]
  OBVIOUS
<1>2. q.seq = Len(m) /\ q.state = m[Len(m)].after
  BY <1>1 DEF VerifiedProjection
<1>3. q.attempt <=> \E i \in 1..Len(m) : m[i].kind = "ATTEMPT_STARTED"
  <2>1. q.attempt <=> p.attempt \/ e.kind = "ATTEMPT_STARTED"
    OBVIOUS
  <2>2. p.attempt <=> \E i \in 1..Len(l) : l[i].kind = "ATTEMPT_STARTED"
    BY DEF VerifiedProjection
  <2>3. \A i : i \in 1..Len(m) <=> i \in 1..Len(l) \/ i = Len(m)
    BY <1>1
  <2> QED
    BY <1>1, <2>1, <2>2, <2>3
<1>4. q.ack <=> AckedBy(m, Len(m))
  <2>1. q.ack <=> p.ack \/ (e.kind = "PROVIDER_RESULT" /\ e.acked)
    OBVIOUS
  <2>2. p.ack <=> AckedBy(l, Len(l))
    BY DEF VerifiedProjection
  <2> QED
    BY <1>1, <2>1, <2>2, AckedByAppend
<1> QED
  BY <1>2, <1>3, <1>4 DEF VerifiedProjection

-----------------------------------------------------------------------------
(* What the store writes. *)

(* One write appends one event to one ledger and moves one row.             *)
LEMMA OneEvent ==
  ASSUME TypeOK, NEW w \in Workers, NEW e \in Events, AppendEvent(Adm(w), e)
  PROVE  /\ \A b \in Admissions : b # Adm(w) =>
              ledger'[b] = ledger[b] /\ progress'[b] = progress[b]
         /\ ledger'[Adm(w)] = Append(ledger[Adm(w)], e)
         /\ progress'[Adm(w)] =
              [state   |-> e.after,
               seq     |-> Row(Adm(w)).seq + 1,
               attempt |-> Row(Adm(w)).attempt \/ e.kind = "ATTEMPT_STARTED",
               ack     |-> Row(Adm(w)).ack \/ (e.kind = "PROVIDER_RESULT" /\ e.acked)]
         /\ ledger[Adm(w)] \in Seq(Events) /\ Row(Adm(w)) \in Progress
BY ThreadFields DEF AppendEvent, TypeOK, Row

LEMMA OneMove ==
  ASSUME TypeOK, NEW w \in Workers, NEW e \in Events, AppendEvent(Adm(w), e)
  PROVE  /\ progress'[Adm(w)].state = e.after
         /\ progress'[Adm(w)].seq = Row(Adm(w)).seq + 1
         /\ progress'[Adm(w)].attempt = (Row(Adm(w)).attempt \/ e.kind = "ATTEMPT_STARTED")
         /\ progress'[Adm(w)].ack =
              (Row(Adm(w)).ack \/ (e.kind = "PROVIDER_RESULT" /\ e.acked))
<1>1. progress'[Adm(w)] =
        [state   |-> e.after,
         seq     |-> Row(Adm(w)).seq + 1,
         attempt |-> Row(Adm(w)).attempt \/ e.kind = "ATTEMPT_STARTED",
         ack     |-> Row(Adm(w)).ack \/ (e.kind = "PROVIDER_RESULT" /\ e.acked)]
  BY OneEvent
<1>2. progress'[Adm(w)].state = e.after /\ progress'[Adm(w)].seq = Row(Adm(w)).seq + 1
  BY <1>1
<1>3. /\ progress'[Adm(w)].attempt = (Row(Adm(w)).attempt \/ e.kind = "ATTEMPT_STARTED")
      /\ progress'[Adm(w)].ack =
           (Row(Adm(w)).ack \/ (e.kind = "PROVIDER_RESULT" /\ e.acked))
  BY <1>1
<1> QED
  BY <1>2, <1>3

LEMMA DecisionIsReconciliation ==
  ASSUME NEW w \in Workers
  PROVE  /\ Decision(w).kind = "RECONCILIATION"
         /\ Decision(w).after \in {"COMMITTED_READBACK", "NO_COMMIT", "UNKNOWN_EFFECT"}
BY DEF Decision, ReconciliationEvent, TargetState

(* The store writes legal edges only, a reconciliation only when it follows *)
(* from its own evidence and the recorded acks, a NO_COMMIT only with its   *)
(* settlement, a result as it was received.                                 *)
LEMMA WriteIsLegal ==
  ASSUME TypeOK, NEW w \in Workers, NEW e \in Events, Writes(w, e)
  PROVE  /\ e.after \in Transitions[Row(Adm(w)).state]
         /\ CarriesSettlement(e.after, e.st)
         /\ e.kind = "RECONCILIATION" =>
              DerivedFromObservation(e.after, e, e.obs, Row(Adm(w)).ack)
         /\ e.kind = "PROVIDER_RESULT" =>
              e.after = IF e.acked THEN "IN_FLIGHT" ELSE "UNKNOWN_EFFECT"
<1>1. e.after \in Transitions[Row(Adm(w)).state]
  BY DEF Writes, AppendEvent, Appendable
<1>2. CASE Recordable(w) /\ e = Decision(w)
  BY <1>1, <1>2, DecisionIsReconciliation DEF Recordable, Acceptable
<1>3. CASE e = AttemptStarted \/ e = DeclaredLost
  BY <1>1, <1>3 DEF AttemptStarted, DeclaredLost, PlainEvent, CarriesSettlement
<1>4. CASE e = ProviderResult(w)
  <2>1. CASE Self(w).acked
    BY <1>1, <1>4, <2>1 DEF ProviderResult, PlainEvent, CarriesSettlement
  <2>2. CASE ~Self(w).acked
    BY <1>1, <1>4, <2>2 DEF ProviderResult, PlainEvent, CarriesSettlement
  <2> QED
    BY <2>1, <2>2
<1> QED
  BY <1>2, <1>3, <1>4 DEF Writes

LEMMA VerifiesStep ==
  ASSUME TypeOK, LedgerVerifies, [Next]_vars
  PROVE  LedgerVerifies'
<1>1. CASE UNCHANGED storeVars
  BY <1>1 DEF storeVars, LedgerVerifies, Row
<1>2. ASSUME NEW w \in Workers, NEW e \in Events, Writes(w, e)
      PROVE  LedgerVerifies'
  <2> SUFFICES ASSUME NEW b \in Admissions
               PROVE  /\ VerifiedProvenance(ledger'[b])
                      /\ VerifiedProjection(progress'[b], ledger'[b])
    BY DEF LedgerVerifies, Row
  <2>1. VerifiedProvenance(ledger[b]) /\ VerifiedProjection(progress[b], ledger[b])
    BY DEF LedgerVerifies, Row
  <2>2. AppendEvent(Adm(w), e)
    BY <1>2 DEF Writes
  <2>3. CASE b # Adm(w)
    BY <2>1, <2>2, <2>3, OneEvent
  <2>4. CASE b = Adm(w)
    <3>1. /\ ledger[b] \in Seq(Events) /\ progress[b] \in Progress
          /\ ledger'[b] = Append(ledger[b], e)
      BY <2>2, <2>4, OneEvent DEF Row
    <3>2. progress[b].state = ledger[b][Len(ledger[b])].after
      BY <2>1 DEF VerifiedProjection
    <3>3. progress[b].ack <=> AckedBy(ledger[b], Len(ledger[b]))
      BY <2>1 DEF VerifiedProjection
    <3>4. e.kind = "RECONCILIATION" =>
            DerivedFromObservation(e.after, e, e.obs, AckedBy(ledger[b], Len(ledger[b])))
      BY <1>2, <2>4, <3>3, WriteIsLegal DEF DerivedFromObservation, Row
    <3>5. VerifiedProvenance(ledger'[b])
      BY <1>2, <2>1, <2>4, <3>1, <3>2, <3>4, WriteIsLegal, ProvenanceExtends DEF Row
    <3>6. VerifiedProjection(progress'[b], ledger'[b])
      BY <2>1, <2>2, <2>4, <3>1, OneEvent, ProjectionExtends DEF Row
    <3> QED
      BY <3>5, <3>6
  <2> QED
    BY <2>3, <2>4
<1> QED
  BY <1>1, <1>2, StoreSteps

LEMMA InitVerifies == Init => LedgerVerifies
<1> SUFFICES ASSUME Init, NEW a \in Admissions
             PROVE  VerifiedProvenance(ledger[a]) /\ VerifiedProjection(Row(a), ledger[a])
  BY DEF LedgerVerifies
<1>1. ledger[a] = <<FencedEvent>> /\ ledger[a][1] = FencedEvent /\ Len(ledger[a]) = 1
  BY DEF Init
<1>2. FencedEvent.kind = "ADMISSION_FENCED" /\ FencedEvent.after = "FENCED"
  BY DEF FencedEvent, PlainEvent
<1>3. Row(a) = [state |-> "FENCED", seq |-> 1, attempt |-> FALSE, ack |-> FALSE]
  BY DEF Init, Row
<1>4. VerifiedProvenance(ledger[a])
  BY <1>1, <1>2 DEF VerifiedProvenance
<1>5. VerifiedProjection(Row(a), ledger[a])
  BY <1>1, <1>2, <1>3 DEF VerifiedProjection, AckedBy
<1> QED
  BY <1>4, <1>5

(* Every ledger passes verify_provenance_durable and its row passes         *)
(* verify_projection, after any number of calls, crashes and faults.        *)
THEOREM LedgersVerify == Spec => []LedgerVerifies
BY InitVerifies, VerifiesStep, TypeCorrect, PTL DEF Spec

(* The triggers of the database, cee_event_guard and cee_progress_guard,    *)
(* accept every event and every row the store writes.                       *)
THEOREM TriggersAgree == Spec => TriggersAccept
<1> DEFINE Accepted(a) ==
             /\ ledger'[a] = Append(ledger[a], ledger'[a][Len(ledger'[a])])
             /\ EventGuard(ledger[a], ledger'[a][Len(ledger'[a])])
             /\ ProgressGuard(Row(a), progress'[a], ledger'[a])
<1>1. ASSUME TypeOK, LedgerVerifies, [Next]_vars, NEW a \in Admissions,
             ledger'[a] # ledger[a]
      PROVE  Accepted(a)
  <2>1. PICK w \in Workers, e \in Events : Writes(w, e)
    BY <1>1, StoreSteps DEF storeVars
  <2>2. a = Adm(w)
    BY <1>1, <2>1, OneEvent DEF Writes
  <2>3. /\ ledger[a] \in Seq(Events) /\ Row(a) \in Progress
        /\ ledger'[a] = Append(ledger[a], e)
    BY <1>1, <2>1, <2>2, OneEvent DEF Writes
  <2>8. progress'[a].state = e.after /\ progress'[a].seq = Row(a).seq + 1
    BY <1>1, <2>1, <2>2, OneMove DEF Writes
  <2>9. /\ progress'[a].attempt = (Row(a).attempt \/ e.kind = "ATTEMPT_STARTED")
        /\ progress'[a].ack = (Row(a).ack \/ (e.kind = "PROVIDER_RESULT" /\ e.acked))
    BY <1>1, <2>1, <2>2, OneMove DEF Writes
  <2>4. /\ Len(ledger[a]) > 0 /\ Row(a).seq = Len(ledger[a])
        /\ Row(a).state = ledger[a][Len(ledger[a])].after
    BY <1>1 DEF LedgerVerifies, VerifiedProvenance, VerifiedProjection
  <2>5. /\ Len(ledger'[a]) = Len(ledger[a]) + 1
        /\ ledger'[a][Len(ledger'[a])] = e
    BY <2>3
  <2>6. EventGuard(ledger[a], e)
    BY <1>1, <2>1, <2>2, <2>4, WriteIsLegal DEF EventGuard
  <2>7. ProgressGuard(Row(a), progress'[a], ledger'[a])
    <3>1. (Row(a).attempt => progress'[a].attempt) /\ (Row(a).ack => progress'[a].ack)
      BY <2>9
    <3>2. progress'[a].seq = Len(ledger'[a]) /\ progress'[a].seq \in 1..Len(ledger'[a])
      BY <2>3, <2>4, <2>5, <2>8
    <3>3. ledger'[a][progress'[a].seq].after = progress'[a].state
      BY <2>5, <2>8, <3>2
    <3> QED
      BY <2>8, <3>1, <3>2, <3>3 DEF ProgressGuard
  <2> QED
    BY <2>3, <2>5, <2>6, <2>7
<1>2. TypeOK /\ LedgerVerifies /\ [Next]_vars
        => [\A a \in Admissions : ledger'[a] # ledger[a] => Accepted(a)]_vars
  BY <1>1
<1> QED
  BY <1>2, TypeCorrect, LedgersVerify, PTL DEF Spec, TriggersAccept

-----------------------------------------------------------------------------
(* What a thread remembers of a row. *)

Remembers(v) ==
  \/ worker'[v].seen = Self(v).seen /\ worker'[v].adm = Adm(v)
  \/ worker'[v].seen = NoSnapshot /\ worker'[v].adm \in Admissions
  \/ /\ UNCHANGED storeVars
     /\ \E a \in Admissions : worker'[v].adm = a /\ worker'[v].seen = Snapshot(a)

LEMMA ReturnRemembers ==
  ASSUME TypeOK, NEW w \in Workers, NEW v \in Workers, Return(w)
  PROVE  Remembers(v)
<1>1. worker'[v] = worker[v] \/ worker'[v] = Idle
  BY DEF Return, TypeOK
<1>2. Idle.seen = NoSnapshot /\ Idle.adm \in Admissions
  BY IdleTyped DEF Idle, Threads
<1> QED
  BY <1>1, <1>2 DEF Remembers, Self, Adm

LEMMA GotoRemembers ==
  ASSUME TypeOK, NEW w \in Workers, NEW v \in Workers, NEW pc, Goto(w, pc)
  PROVE  Remembers(v)
<1>1. worker[w] \in Threads
  BY DEF TypeOK
<1> QED
  BY <1>1 DEF Goto, TypeOK, Threads, Remembers, Self, Adm

(* A thread keeps its snapshot, drops it, or takes a fresh one while the    *)
(* tables stand still.                                                      *)
LEMMA SnapshotSteps ==
  ASSUME TypeOK, [Next]_vars, NEW v \in Workers
  PROVE  Remembers(v)
<1>t. \A w \in Workers : worker[w] \in Threads
  BY DEF TypeOK
<1>0. worker'[v] = worker[v] => Remembers(v)
  BY DEF Remembers, Self, Adm
<1>1. ASSUME NEW w \in Workers,
             \/ ReserveLost(w) \/ ReserveUnconfirmed(w) \/ RecordResultUnconfirmed(w)
             \/ RereadFails(w) \/ ReconcileUnconfirmed(w) \/ After(w) \/ AfterFails(w)
             \/ DeclareLost(w) \/ DeclareLostUnconfirmed(w)
      PROVE  Remembers(v)
  BY <1>1, ReturnRemembers DEF ReserveLost, ReserveUnconfirmed, RecordResultUnconfirmed,
     RereadFails, ReconcileUnconfirmed, After, AfterFails, DeclareLost, DeclareLostUnconfirmed
<1>2. ASSUME NEW w \in Workers,
             Reserve(w) \/ EnterActive(w) \/ CallProvider(w) \/ RecordResult(w)
      PROVE  Remembers(v)
  BY <1>2, GotoRemembers DEF Reserve, EnterActive, CallProvider, RecordResult
<1>3. ASSUME NEW w \in Workers, NEW a \in Admissions,
             ExecuteStart(w, a) \/ RecoverStart(w, a) \/ DeclareStart(w, a)
      PROVE  Remembers(v)
  <2>1. CASE v # w
    BY <1>0, <1>3, <2>1 DEF ExecuteStart, RecoverStart, DeclareStart, TypeOK
  <2>2. CASE v = w /\ RecoverStart(w, a)
    <3>1. worker'[v].adm = a /\ worker'[v].seen = Snapshot(a)
      BY <2>2, <1>t DEF RecoverStart, TypeOK, Idle
    <3> QED
      BY <2>2, <3>1 DEF RecoverStart, Remembers
  <2>3. CASE v = w /\ (ExecuteStart(w, a) \/ DeclareStart(w, a))
    <3>1. worker'[v].adm = a /\ worker'[v].seen = NoSnapshot
      BY ZenonT(40), <2>3, <1>t DEF ExecuteStart, DeclareStart, TypeOK, Idle
    <3> QED
      BY <3>1 DEF Remembers
  <2> QED
    BY <1>3, <2>1, <2>2, <2>3
<1>4. ASSUME NEW w \in Workers, ProviderAnswers(w)
      PROVE  Remembers(v)
  <2>1. PICK acked \in BOOLEAN : Answer(w, acked)
    BY <1>4 DEF ProviderAnswers, ProviderCommits, ProviderRefuses, ProviderFails,
       ProviderAcksNothing, ProviderRejects, ProviderDelays
  <2> QED
    BY <2>1, <1>t DEF Answer, TypeOK, Threads, Remembers, Self, Adm
<1>5. ASSUME NEW w \in Workers, RecordResultRefused(w)
      PROVE  Remembers(v)
  BY <1>5, <1>t DEF RecordResultRefused, TypeOK, Threads, Remembers, Self, Adm
<1>6. ASSUME NEW w \in Workers, Reread(w)
      PROVE  Remembers(v)
  <2>1. CASE Return(w)
    BY <2>1, ReturnRemembers
  <2>2. CASE worker' = [worker EXCEPT ![w] = [Forget(w) EXCEPT !.pc = "settle",
                                                              !.seen = Snapshot(Adm(w))]]
    <3>1. CASE v # w
      BY <1>0, <2>2, <3>1 DEF TypeOK
    <3>2. CASE v = w
      <4>1. worker'[v].adm = Adm(w) /\ worker'[v].seen = Snapshot(Adm(w))
        BY <2>2, <3>2 DEF TypeOK, Forget, Idle, Adm
      <4> QED
        BY <1>6, <4>1, ThreadFields DEF Reread, Remembers
    <3> QED
      BY <3>1, <3>2
  <2> QED
    BY <1>6, <2>1, <2>2 DEF Reread
<1>7. ASSUME NEW w \in Workers, RecoverCheck(w)
      PROVE  Remembers(v)
  BY <1>7, ReturnRemembers, GotoRemembers DEF RecoverCheck
<1>8. ASSUME NEW w \in Workers, ReadSettlement(w)
      PROVE  Remembers(v)
  BY <1>8, <1>t DEF ReadSettlement, TypeOK, Threads, Remembers, Self, Adm
<1>9. ASSUME NEW w \in Workers, ReadObservation(w)
      PROVE  Remembers(v)
  BY <1>9, <1>t DEF ReadObservation, TypeOK, Threads, Remembers, Self, Adm
<1>10. ASSUME NEW w \in Workers, Reconcile(w) \/ ReconcileRefused(w)
       PROVE  Remembers(v)
  <2>1. CASE Goto(w, "close")
    BY <2>1, GotoRemembers
  <2>2. CASE ~Goto(w, "close")
    <3>1. \/ worker' = [worker EXCEPT ![w] = [Forget(w) EXCEPT !.pc = "after"]]
          \/ worker' = [worker EXCEPT ![w] = [Forget(w) EXCEPT !.pc = "after", !.moved = TRUE]]
      BY <1>10, <2>2 DEF Reconcile, ReconcileRefused
    <3>2. CASE v # w
      BY <1>0, <3>1, <3>2 DEF TypeOK
    <3>3. CASE v = w
      <4>1. worker'[v].adm = Adm(v) /\ worker'[v].seen = NoSnapshot
        BY ZenonT(40), <3>1, <3>3 DEF TypeOK, Forget, Idle, Adm
      <4> QED
        BY <4>1, ThreadFields DEF Remembers
    <3> QED
      BY <3>2, <3>3
  <2> QED
    BY <2>1, <2>2
<1>11. ASSUME NEW p \in Processes, Crash(p) PROVE Remembers(v)
  <2>1. worker'[v] = worker[v] \/ worker'[v] = Idle
    BY <1>11 DEF Crash
  <2>2. Idle.seen = NoSnapshot /\ Idle.adm \in Admissions
    BY IdleTyped DEF Idle, Threads
  <2> QED
    BY <1>0, <2>1, <2>2 DEF Remembers
<1>12. ASSUME NEW a \in Admissions, Expire(a) \/ ProviderActs(a) PROVE Remembers(v)
  BY <1>12, <1>0 DEF Expire, ProviderActs
<1>13. UNCHANGED vars => Remembers(v)
  BY <1>0 DEF vars
<1> QED
  BY <1>1, <1>2, <1>3, <1>4, <1>5, <1>6, <1>7, <1>8, <1>9, <1>10, <1>11, <1>12, <1>13
  DEF Next, Continue

(* A row stands still, or its sequence number moves on by one. *)
LEMMA RowMoves ==
  ASSUME TypeOK, [Next]_vars, NEW b \in Admissions
  PROVE  \/ progress'[b] = progress[b]
         \/ progress'[b].seq = progress[b].seq + 1
<1>1. CASE UNCHANGED storeVars
  BY <1>1 DEF storeVars
<1>2. ASSUME NEW w \in Workers, NEW e \in Events, Writes(w, e)
      PROVE  \/ progress'[b] = progress[b]
             \/ progress'[b].seq = progress[b].seq + 1
  <2>1. AppendEvent(Adm(w), e)
    BY <1>2 DEF Writes
  <2>2. CASE b # Adm(w)
    BY <2>1, <2>2, OneEvent
  <2>3. CASE b = Adm(w)
    BY <2>1, <2>3, OneMove DEF Row
  <2> QED
    BY <2>2, <2>3
<1> QED
  BY <1>1, <1>2, StoreSteps

LEMMA SnapshotStep ==
  ASSUME TypeOK, LedgerVerifies, SnapshotInv, [Next]_vars
  PROVE  SnapshotInv'
<1> DEFINE Fits(s, r) ==
             /\ s.seq <= r.seq
             /\ s.seq = r.seq => s.state = r.state /\ (s.ack <=> r.ack)
<1> SUFFICES ASSUME NEW w \in Workers
             PROVE  Fits(worker'[w].seen, progress'[worker'[w].adm])
  BY DEF SnapshotInv, Self, Adm, Row
<1>1. CASE worker'[w].seen = Self(w).seen /\ worker'[w].adm = Adm(w)
  <2>1. PICK b \in Admissions : b = Adm(w)
    BY ThreadFields
  <2>2. progress[b] \in Progress /\ Self(w).seen \in Snapshots
    BY ThreadFields DEF TypeOK
  <2>3. progress[b].seq \in Nat /\ Self(w).seen.seq \in Nat
    BY <2>2 DEF Progress, Snapshots
  <2>4. Fits(Self(w).seen, progress[b])
    BY <2>1 DEF SnapshotInv, Row
  <2>5. Fits(Self(w).seen, progress'[b])
    <3>1. CASE progress'[b] = progress[b]
      BY <2>4, <3>1
    <3>2. CASE progress'[b].seq = progress[b].seq + 1
      BY <2>3, <2>4, <3>2
    <3> QED
      BY <3>1, <3>2, RowMoves
  <2> QED
    BY <1>1, <2>1, <2>5
<1>2. CASE worker'[w].seen = NoSnapshot /\ worker'[w].adm \in Admissions
  <2>1. PICK b \in Admissions : b = worker'[w].adm
    BY <1>2
  <2>2. progress'[b].seq > 0 /\ progress'[b].seq \in Nat
    <3>1. LedgerVerifies' /\ TypeOK'
      BY VerifiesStep, TypeStep
    <3>2. Len(ledger'[b]) > 0 /\ progress'[b].seq = Len(ledger'[b])
      BY <3>1 DEF LedgerVerifies, VerifiedProvenance, VerifiedProjection, Row
    <3>3. ledger'[b] \in Seq(Events)
      BY <3>1 DEF TypeOK
    <3> QED
      BY <3>2, <3>3
  <2>3. NoSnapshot.seq = 0
    BY DEF NoSnapshot
  <2>4. Fits(NoSnapshot, progress'[b])
    BY <2>2, <2>3
  <2> QED
    BY <1>2, <2>1, <2>4
<1>3. ASSUME UNCHANGED storeVars, NEW a \in Admissions, worker'[w].adm = a,
             worker'[w].seen = Snapshot(a)
      PROVE  Fits(worker'[w].seen, progress'[worker'[w].adm])
  <2>1. progress' = progress
    BY <1>3 DEF storeVars
  <2>2. progress[a].seq \in Nat
    BY DEF TypeOK, Progress
  <2>3. Fits(Snapshot(a), progress[a])
    BY <2>2 DEF Snapshot, Row
  <2> QED
    BY <1>3, <2>1, <2>3
<1> QED
  BY <1>1, <1>2, <1>3, SnapshotSteps DEF Remembers

(* After a result without an ack the row never comes back to IN_FLIGHT.     *)
LEMMA ResultStep ==
  ASSUME TypeOK, ResultInv, [Next]_vars
  PROVE  ResultInv'
<1> SUFFICES ASSUME NEW b \in Admissions, progress'[b].state \in {"FENCED", "IN_FLIGHT"},
                    ~progress'[b].ack, NEW i \in 1..Len(ledger'[b])
             PROVE  ledger'[b][i].kind # "PROVIDER_RESULT"
  BY DEF ResultInv, Row
<1>1. CASE ledger'[b] = ledger[b] /\ progress'[b] = progress[b]
  BY <1>1 DEF ResultInv, Row
<1>2. ASSUME NEW w \in Workers, NEW e \in Events, Writes(w, e), b = Adm(w)
      PROVE  ledger'[b][i].kind # "PROVIDER_RESULT"
  <2>1. /\ ledger'[b] = Append(ledger[b], e) /\ ledger[b] \in Seq(Events)
        /\ progress'[b].state = e.after
        /\ progress'[b].ack = (Row(b).ack \/ (e.kind = "PROVIDER_RESULT" /\ e.acked))
    BY <1>2, OneEvent, OneMove DEF Writes
  <2>2. Row(b).state \in States /\ e.after \in Transitions[Row(b).state]
    BY <1>2, WriteIsLegal DEF TypeOK, Progress, Row
  <2>3. Row(b).state \in {"FENCED", "IN_FLIGHT"}
    BY <2>1, <2>2 DEF Transitions, States
  <2>4. ~Row(b).ack /\ ~(e.kind = "PROVIDER_RESULT" /\ e.acked)
    BY <2>1
  <2>5. e.kind # "PROVIDER_RESULT"
    BY <1>2, <2>1, <2>2, <2>4, WriteIsLegal DEF Transitions, States
  <2>6. \A j \in 1..Len(ledger[b]) : ledger[b][j].kind # "PROVIDER_RESULT"
    BY <2>3, <2>4 DEF ResultInv
  <2> QED
    BY <2>1, <2>5, <2>6
<1>3. ASSUME ~(ledger'[b] = ledger[b] /\ progress'[b] = progress[b])
      PROVE  \E w \in Workers, e \in Events : Writes(w, e) /\ b = Adm(w)
  <2>1. PICK w \in Workers, e \in Events : Writes(w, e)
    BY <1>3, StoreSteps DEF storeVars
  <2> QED
    BY <1>3, <2>1, OneEvent DEF Writes
<1> QED
  BY <1>1, <1>2, <1>3

-----------------------------------------------------------------------------
(* What a verdict can be. *)

LEMMA NoCommitNeedsNoAck ==
  ASSUME NEW a, NEW obs, NEW st, NEW acked,
         ClassifyDurable(a, obs, st, acked).class = "NO_COMMIT"
  PROVE  ~acked
<1>1. ClassifyObservation(a, obs, acked).class = "NO_COMMIT"
  BY DEF ClassifyDurable, Verdict
<1> QED
  BY <1>1 DEF ClassifyObservation, Verdict

(* No readback by itself says that the result was never recorded.           *)
LEMMA VerdictIsNotLoss ==
  ASSUME NEW a, NEW obs, NEW st, NEW acked
  PROVE  ClassifyDurable(a, obs, st, acked).reason # NotRecorded.reason
<1>1. NotRecorded.reason = "RECOVERY_ATTEMPT_RESULT_NOT_RECORDED"
  BY DEF NotRecorded, Verdict
<1>2. ClassifyObservation(a, obs, acked).reason # "RECOVERY_ATTEMPT_RESULT_NOT_RECORDED"
  BY DEF ClassifyObservation, Verdict
<1>3. NoCommitObstacle(st) # "RECOVERY_ATTEMPT_RESULT_NOT_RECORDED"
  BY DEF NoCommitObstacle
<1> QED
  BY <1>1, <1>2, <1>3 DEF ClassifyDurable, Verdict

(* Who writes that a result was never recorded decided so on a snapshot     *)
(* that was still the row: in flight, no ack, hence no result.              *)
LEMMA LossIsTrue ==
  ASSUME TypeOK, ResultInv, SnapshotInv, NEW w \in Workers, NEW e \in Events,
         Writes(w, e), e.reason = NotRecorded.reason
  PROVE  \A i \in 1..Len(ledger[Adm(w)]) : ledger[Adm(w)][i].kind # "PROVIDER_RESULT"
<1>1. NotRecorded.reason = "RECOVERY_ATTEMPT_RESULT_NOT_RECORDED"
  BY DEF NotRecorded, Verdict
<1>2. Recordable(w) /\ e = Decision(w)
  <2>1. e # AttemptStarted /\ e # DeclaredLost /\ e # ProviderResult(w)
    BY <1>1 DEF AttemptStarted, DeclaredLost, ProviderResult, PlainEvent
  <2> QED
    BY <2>1 DEF Writes
<1>3. At(w, "decide") /\ (FirstOfTwo(w) \/ ResultLost(w))
  <2> SUFFICES ASSUME ~(At(w, "decide") /\ (FirstOfTwo(w) \/ ResultLost(w))) PROVE FALSE
    OBVIOUS
  <2>1. e.reason = VerdictOf(w).reason
    BY <1>2 DEF Decision, ReconciliationEvent
  <2> QED
    BY <2>1, VerdictIsNotLoss DEF VerdictOf
<1>4. Self(w).seen.state = "IN_FLIGHT" /\ ~Self(w).seen.ack
  <2>1. CASE FirstOfTwo(w)
    <3>1. VerdictOf(w).class = "NO_COMMIT"
      BY <2>1 DEF FirstOfTwo, TargetState
    <3> QED
      BY <2>1, <3>1, NoCommitNeedsNoAck DEF FirstOfTwo, VerdictOf
  <2>2. CASE ResultLost(w)
    BY <2>2 DEF ResultLost
  <2> QED
    BY <1>3, <2>1, <2>2
<1>5. Row(Adm(w)).seq = Self(w).seen.seq
  <2>1. Self(w).seen.seq \in Nat
    BY ThreadFields DEF Snapshots
  <2>2. ~At(w, "close")
    BY <1>3 DEF At
  <2> QED
    BY <1>2, <2>1, <2>2 DEF Recordable, RowUnmoved, ExpectedSeq
<1>6. Row(Adm(w)).state = "IN_FLIGHT" /\ ~Row(Adm(w)).ack
  BY <1>4, <1>5 DEF SnapshotInv
<1> QED
  BY <1>6, ThreadFields DEF ResultInv

(* A reconciliation never repeats the event before it: only an unknown      *)
(* effect may be followed by an unknown effect, and the store compares.     *)
LEMMA NoRepeat ==
  ASSUME TypeOK, LedgerVerifies, NEW w \in Workers, NEW e \in Events, Writes(w, e),
         e.kind = "RECONCILIATION"
  PROVE  ledger[Adm(w)][Len(ledger[Adm(w)])] # e
<1> SUFFICES ASSUME ledger[Adm(w)][Len(ledger[Adm(w)])] = e PROVE FALSE
  OBVIOUS
<1>1. e = Decision(w) /\ ~AlreadyHead(Adm(w), e)
  <2>1. e # AttemptStarted /\ e # DeclaredLost /\ e # ProviderResult(w)
    BY DEF AttemptStarted, DeclaredLost, ProviderResult, PlainEvent
  <2> QED
    BY <2>1 DEF Writes
<1>2. /\ Row(Adm(w)).seq = Len(ledger[Adm(w)])
      /\ Row(Adm(w)).state = e.after
  BY ThreadFields DEF LedgerVerifies, VerifiedProjection
<1>3. e.after \in Transitions[e.after]
  BY <1>2, WriteIsLegal
<1>4. e.after = "UNKNOWN_EFFECT"
  BY <1>1, <1>3, DecisionIsReconciliation DEF Transitions, States
<1> QED
  BY <1>1, <1>2, <1>4 DEF AlreadyHead

LEMMA HonestStep ==
  ASSUME LedgerInv, [Next]_vars
  PROVE  LedgerIsHonest'
<1> USE DEF LedgerInv
<1> SUFFICES ASSUME NEW b \in Admissions, NEW i \in 1..Len(ledger'[b]),
                    NEW j \in 1..Len(ledger'[b]), i < j
             PROVE  /\ ledger'[b][i].kind = "PROVIDER_RESULT" =>
                         ledger'[b][j].reason # NotRecorded.reason
                    /\ j = i + 1 /\ ledger'[b][j].kind = "RECONCILIATION" =>
                         ledger'[b][i] # ledger'[b][j]
  BY DEF LedgerIsHonest
<1>1. CASE ledger'[b] = ledger[b]
  BY <1>1 DEF LedgerIsHonest
<1>2. CASE ledger'[b] # ledger[b]
  <2>1. PICK w \in Workers, e \in Events : Writes(w, e)
    BY <1>2, StoreSteps DEF storeVars
  <2>2. b = Adm(w)
    BY <1>2, <2>1, OneEvent DEF Writes
  <2>3. ledger'[b] = Append(ledger[b], e) /\ ledger[b] \in Seq(Events)
    BY <2>1, <2>2, OneEvent DEF Writes
  <2>4. i \in 1..Len(ledger[b]) /\ ledger'[b][i] = ledger[b][i]
    BY <2>3
  <2>5. CASE j \in 1..Len(ledger[b])
    <3>1. ledger'[b][j] = ledger[b][j]
      BY <2>3, <2>5
    <3> QED
      BY <2>4, <2>5, <3>1 DEF LedgerIsHonest
  <2>6. CASE j = Len(ledger[b]) + 1
    <3>1. ledger'[b][j] = e
      BY <2>3, <2>6
    <3>2. e.reason = NotRecorded.reason => ledger[b][i].kind # "PROVIDER_RESULT"
      BY <2>1, <2>2, <2>4, LossIsTrue
    <3>3. e.kind = "RECONCILIATION" => ledger[b][Len(ledger[b])] # e
      BY <2>1, <2>2, NoRepeat
    <3>4. j = i + 1 => i = Len(ledger[b])
      BY <2>3, <2>6
    <3> QED
      BY <2>4, <3>1, <3>2, <3>3, <3>4
  <2> QED
    BY <2>3, <2>5, <2>6
<1> QED
  BY <1>1, <1>2

LEMMA LedgerInit == Init => LedgerInv
<1> SUFFICES ASSUME Init PROVE LedgerInv
  OBVIOUS
<1>1. TypeOK /\ LedgerVerifies
  BY InitTyped, InitVerifies
<1>2. \A a \in Admissions : Len(ledger[a]) = 1 /\ ledger[a][1] = FencedEvent
  BY DEF Init
<1>3. FencedEvent.kind = "ADMISSION_FENCED"
  BY DEF FencedEvent, PlainEvent
<1>4. ResultInv
  BY <1>2, <1>3 DEF ResultInv
<1>5. SnapshotInv
  <2> SUFFICES ASSUME NEW w \in Workers
               PROVE  Self(w).seen.seq = 0 /\ Row(Adm(w)).seq = 1
    BY DEF SnapshotInv
  <2>1. Self(w).seen.seq = 0
    BY DEF Init, Self, Idle, NoSnapshot
  <2>2. \A a \in Admissions : Row(a).seq = 1
    BY DEF Init, Row
  <2> QED
    BY <1>1, <2>1, <2>2, ThreadFields
<1>6. LedgerIsHonest
  BY <1>2 DEF LedgerIsHonest
<1> QED
  BY <1>1, <1>4, <1>5, <1>6 DEF LedgerInv

(* The invariant behind the ledger's honesty: a snapshot whose sequence     *)
(* number is the row's is the row, and an unacknowledged IN_FLIGHT row has  *)
(* no result on record.                                                     *)
THEOREM LedgerInvariant == Spec => []LedgerInv
<1>1. LedgerInv /\ [Next]_vars => LedgerInv'
  BY TypeStep, VerifiesStep, ResultStep, SnapshotStep, HonestStep DEF LedgerInv
<1> QED
  BY LedgerInit, <1>1, PTL DEF Spec

(* "The result of this attempt was never recorded" is only written when no  *)
(* result is on record, and no reconciliation repeats the one before it     *)
(* (_resolve, record_reconciliation).                                       *)
THEOREM LedgersHonest == Spec => []LedgerIsHonest
<1>1. LedgerInv => LedgerIsHonest
  BY DEF LedgerInv
<1> QED
  BY <1>1, LedgerInvariant, PTL

-----------------------------------------------------------------------------
(* Who is executing. *)

Outside == {"idle", "begin", "reserved", "declare"}

(* A thread takes the next step of its own call, or starts one. *)
Proceeds(w) ==
  /\ \A v \in Workers \ {w} : worker'[v] = worker[v]
  /\ \/ /\ At(w, "idle")
        /\ \/ worker'[w].pc = "begin" /\ worker'[w].op = "execute"
           \/ worker'[w].pc = "check" /\ worker'[w].op = "recover"
           \/ worker'[w].pc = "declare" /\ worker'[w].op = "declare"
     \/ /\ Reserve(w)
        /\ worker'[w].pc = "reserved"
        /\ worker'[w].op = Self(w).op /\ worker'[w].adm = Adm(w)
     \/ /\ Self(w).pc \notin Outside /\ worker'[w].pc \notin Outside
        /\ worker'[w].op = Self(w).op /\ worker'[w].adm = Adm(w)

LEMMA GotoGoesOn ==
  ASSUME TypeOK, NEW w \in Workers, NEW pc, Goto(w, pc)
  PROVE  /\ \A v \in Workers \ {w} : worker'[v] = worker[v]
         /\ worker'[w].pc = pc /\ worker'[w].op = Self(w).op /\ worker'[w].adm = Adm(w)
<1>1. worker[w] \in Threads
  BY DEF TypeOK
<1> QED
  BY <1>1 DEF Goto, TypeOK, Threads, Self, Adm

LEMMA CallSteps ==
  ASSUME TypeOK, [Next]_vars
  PROVE  \/ \E w \in Workers : Return(w)
         \/ \E w \in Workers : EnterActive(w)
         \/ \E p \in Processes : Crash(p)
         \/ UNCHANGED active /\ \E w \in Workers : Proceeds(w)
         \/ UNCHANGED <<active, worker>>
<1>t. \A w \in Workers : worker[w] \in Threads
  BY DEF TypeOK
<1> USE DEF Outside
<1>1. ASSUME NEW w \in Workers,
             \/ ReserveLost(w) \/ ReserveUnconfirmed(w) \/ RecordResultUnconfirmed(w)
             \/ RereadFails(w) \/ ReconcileUnconfirmed(w) \/ After(w) \/ AfterFails(w)
             \/ DeclareLost(w) \/ DeclareLostUnconfirmed(w)
      PROVE  Return(w)
  BY <1>1 DEF ReserveLost, ReserveUnconfirmed, RecordResultUnconfirmed,
     RereadFails, ReconcileUnconfirmed, After, AfterFails, DeclareLost, DeclareLostUnconfirmed
<1>2. ASSUME NEW w \in Workers, Reserve(w)
      PROVE  UNCHANGED active /\ Proceeds(w)
  BY <1>2, GotoGoesOn DEF Reserve, Proceeds
<1>3. ASSUME NEW w \in Workers, CallProvider(w) \/ RecordResult(w)
      PROVE  UNCHANGED active /\ Proceeds(w)
  <2>1. Self(w).pc \in {"calling", "returned"}
    BY <1>3 DEF CallProvider, RecordResult, At, Self
  <2>2. Goto(w, "inside") \/ Goto(w, "reread")
    BY <1>3 DEF CallProvider, RecordResult
  <2> QED
    BY <1>3, <2>1, <2>2, GotoGoesOn DEF CallProvider, RecordResult, Proceeds
<1>4. ASSUME NEW w \in Workers, NEW a \in Admissions, ExecuteStart(w, a)
      PROVE  UNCHANGED active /\ Proceeds(w)
  <2>1. worker'[w].pc = "begin" /\ worker'[w].op = "execute"
    BY ZenonT(40), <1>4 DEF ExecuteStart, TypeOK, Idle
  <2> QED
    BY <1>4, <2>1 DEF ExecuteStart, Proceeds, TypeOK
<1>5. ASSUME NEW w \in Workers, NEW a \in Admissions, RecoverStart(w, a)
      PROVE  UNCHANGED active /\ Proceeds(w)
  <2>1. worker'[w].pc = "check" /\ worker'[w].op = "recover"
    BY ZenonT(40), <1>5 DEF RecoverStart, TypeOK, Idle
  <2> QED
    BY <1>5, <2>1 DEF RecoverStart, Proceeds, TypeOK
<1>6. ASSUME NEW w \in Workers, NEW a \in Admissions, DeclareStart(w, a)
      PROVE  UNCHANGED active /\ Proceeds(w)
  <2>1. worker'[w].pc = "declare" /\ worker'[w].op = "declare"
    BY ZenonT(40), <1>6 DEF DeclareStart, TypeOK, Idle
  <2> QED
    BY <1>6, <2>1 DEF DeclareStart, Proceeds, TypeOK
<1>7. ASSUME NEW w \in Workers, ProviderAnswers(w)
      PROVE  UNCHANGED active /\ Proceeds(w)
  <2>1. PICK acked \in BOOLEAN : Answer(w, acked)
    BY <1>7 DEF ProviderAnswers, ProviderCommits, ProviderRefuses, ProviderFails,
       ProviderAcksNothing, ProviderRejects, ProviderDelays
  <2>2. /\ worker'[w].pc = "returned" /\ worker'[w].op = Self(w).op
        /\ worker'[w].adm = Adm(w) /\ Self(w).pc = "inside"
    BY <2>1, <1>t DEF Answer, TypeOK, Threads, Self, Adm, At
  <2> QED
    BY <2>1, <2>2 DEF Answer, Proceeds, TypeOK
<1>8. ASSUME NEW w \in Workers, RecordResultRefused(w)
      PROVE  UNCHANGED active /\ Proceeds(w)
  <2>1. /\ worker'[w].pc = "reread" /\ worker'[w].op = Self(w).op
        /\ worker'[w].adm = Adm(w) /\ Self(w).pc = "returned"
    BY <1>8, <1>t DEF RecordResultRefused, TypeOK, Threads, Self, Adm, At
  <2> QED
    BY <1>8, <2>1 DEF RecordResultRefused, Proceeds, TypeOK
<1>9. ASSUME NEW w \in Workers, Reread(w), ~Return(w)
      PROVE  UNCHANGED active /\ Proceeds(w)
  <2>1. worker' = [worker EXCEPT ![w] = [Forget(w) EXCEPT !.pc = "settle",
                                                          !.seen = Snapshot(Adm(w))]]
    BY <1>9 DEF Reread
  <2>2. /\ worker'[w].pc = "settle" /\ worker'[w].op = Self(w).op
        /\ worker'[w].adm = Adm(w) /\ Self(w).pc = "reread"
    BY <1>9, <2>1, <1>t DEF Reread, TypeOK, Forget, Idle, Self, Adm, At
  <2> QED
    BY <1>9, <2>1, <2>2 DEF Reread, Proceeds, TypeOK
<1>10. ASSUME NEW w \in Workers, RecoverCheck(w), ~Return(w)
       PROVE  UNCHANGED active /\ Proceeds(w)
  <2>1. Goto(w, "settle") /\ UNCHANGED active /\ Self(w).pc = "check"
    BY <1>10 DEF RecoverCheck, At, Self
  <2> QED
    BY <2>1, GotoGoesOn DEF Proceeds
<1>11. ASSUME NEW w \in Workers, ReadSettlement(w)
       PROVE  UNCHANGED active /\ Proceeds(w)
  <2>1. worker'[w].op = Self(w).op /\ \A v \in Workers \ {w} : worker'[v] = worker[v]
    BY <1>11, <1>t DEF ReadSettlement, TypeOK, Threads, Self
  <2> QED
    BY <1>11, <2>1, SettlementRead DEF ReadSettlement, Proceeds
<1>12. ASSUME NEW w \in Workers, ReadObservation(w)
       PROVE  UNCHANGED active /\ Proceeds(w)
  <2>1. worker'[w].op = Self(w).op /\ \A v \in Workers \ {w} : worker'[v] = worker[v]
    BY <1>12, <1>t DEF ReadObservation, TypeOK, Threads, Self
  <2> QED
    BY <1>12, <2>1, ObservationRead DEF ReadObservation, Proceeds
<1>13. ASSUME NEW w \in Workers, Reconcile(w) \/ ReconcileRefused(w)
       PROVE  UNCHANGED active /\ Proceeds(w)
  <2>1. UNCHANGED active /\ Self(w).pc \in {"decide", "close"}
    BY <1>13 DEF Reconcile, ReconcileRefused
  <2>2. CASE Goto(w, "close")
    BY <2>1, <2>2, GotoGoesOn DEF Proceeds
  <2>3. CASE ~Goto(w, "close")
    <3>1. \/ worker' = [worker EXCEPT ![w] = [Forget(w) EXCEPT !.pc = "after"]]
          \/ worker' = [worker EXCEPT ![w] = [Forget(w) EXCEPT !.pc = "after", !.moved = TRUE]]
      BY <1>13, <2>3 DEF Reconcile, ReconcileRefused
    <3>2. /\ worker'[w].pc = "after" /\ worker'[w].op = Self(w).op
          /\ worker'[w].adm = Adm(w)
      BY ZenonT(40), <3>1 DEF TypeOK, Forget, Idle, Adm, Self
    <3>3. \A v \in Workers \ {w} : worker'[v] = worker[v]
      BY <3>1 DEF TypeOK
    <3> QED
      BY <2>1, <3>2, <3>3 DEF Proceeds
  <2> QED
    BY <2>2, <2>3
<1>14. ASSUME \/ \E a \in Admissions : Expire(a) \/ ProviderActs(a)
              \/ UNCHANGED vars
       PROVE  UNCHANGED <<active, worker>>
  BY <1>14 DEF Expire, ProviderActs, vars
<1> QED
  BY <1>1, <1>2, <1>3, <1>4, <1>5, <1>6, <1>7, <1>8, <1>9, <1>10, <1>11, <1>12, <1>13,
     <1>14 DEF Next, Continue

Executing(v) == Self(v).op = "execute" /\ Self(v).pc \notin {"begin", "reserved"}

LEMMA IdleFields == Idle.pc = "idle" /\ Idle.op = "none"
BY DEF Idle

(* A thread that returned, and one whose process died, has no call. *)
LEMMA ReturnEnds ==
  ASSUME TypeOK, NEW w \in Workers, Return(w)
  PROVE  /\ worker'[w] = Idle
         /\ \A v \in Workers \ {w} : worker'[v] = worker[v]
BY DEF Return, TypeOK

LEMMA OpStep ==
  ASSUME TypeOK, OpInv, [Next]_vars
  PROVE  OpInv'
<1> DEFINE Fits(x) ==
             /\ x.pc = "idle" => x.op = "none"
             /\ x.pc = "declare" => x.op = "declare"
             /\ x.pc \in {"begin", "reserved"} => x.op = "execute"
<1> SUFFICES ASSUME NEW v \in Workers PROVE Fits(worker'[v])
  BY DEF OpInv, At, Self
<1>1. Fits(worker[v])
  BY DEF OpInv, At, Self
<1>2. Fits(Idle)
  BY IdleFields
<1>3. ASSUME NEW w \in Workers, Return(w) PROVE Fits(worker'[v])
  BY <1>1, <1>2, <1>3, ReturnEnds
<1>4. ASSUME NEW w \in Workers, EnterActive(w) PROVE Fits(worker'[v])
  BY <1>1, <1>4, GotoGoesOn DEF EnterActive
<1>5. ASSUME NEW p \in Processes, Crash(p) PROVE Fits(worker'[v])
  BY <1>1, <1>2, <1>5 DEF Crash
<1>6. ASSUME NEW w \in Workers, Proceeds(w) PROVE Fits(worker'[v])
  <2>1. CASE v # w
    BY <1>1, <1>6, <2>1 DEF Proceeds
  <2>2. CASE v = w /\ Reserve(w)
    BY <1>1, <1>6, <2>2, GotoGoesOn DEF Reserve, At, Self
  <2>3. CASE v = w /\ ~Reserve(w)
    BY <1>6, <2>3 DEF Proceeds, Outside
  <2> QED
    BY <2>1, <2>2, <2>3
<1> QED
  BY <1>1, <1>3, <1>4, <1>5, <1>6, CallSteps

(* A thread that holds its admission after a step held it before, or has    *)
(* just won the reservation of an admission nobody had started.             *)
LEMMA HoldsSteps ==
  ASSUME TypeOK, OpInv, [Next]_vars, NEW v \in Workers, Holds(v)'
  PROVE  /\ Adm(v)' = Adm(v)
         /\ Holds(v) \/ (Reserve(v) /\ \A u \in Workers \ {v} : worker'[u] = worker[u])
<1> USE DEF Holds, Self, Adm
<1>1. CASE worker'[v] = worker[v]
  BY <1>1
<1>2. ASSUME worker'[v] = Idle PROVE FALSE
  BY <1>2, IdleFields
<1>3. ASSUME NEW w \in Workers, Return(w)
      PROVE  worker'[v] = worker[v] \/ worker'[v] = Idle
  BY <1>3, ReturnEnds
<1>4. ASSUME NEW p \in Processes, Crash(p)
      PROVE  worker'[v] = worker[v] \/ worker'[v] = Idle
  BY <1>4 DEF Crash
<1>5. ASSUME NEW w \in Workers, EnterActive(w), worker'[v] # worker[v]
      PROVE  Adm(v)' = Adm(v) /\ Holds(v)
  <2>1. v = w /\ worker'[v].op = Self(v).op /\ worker'[v].adm = Adm(v) /\ Self(v).pc = "reserved"
    BY <1>5, GotoGoesOn DEF EnterActive, At
  <2> QED
    BY <2>1
<1>6. ASSUME NEW w \in Workers, Proceeds(w), worker'[v] # worker[v]
      PROVE  /\ Adm(v)' = Adm(v)
             /\ Holds(v) \/ (Reserve(v) /\ \A u \in Workers \ {v} : worker'[u] = worker[u])
  <2>1. v = w
    BY <1>6 DEF Proceeds
  <2>2. CASE At(v, "idle")
    BY <1>6, <2>1, <2>2 DEF Proceeds, Reserve, At, Outside
  <2>3. CASE Reserve(v)
    BY <1>6, <2>1, <2>3, GotoGoesOn DEF Reserve
  <2>4. CASE ~At(v, "idle") /\ ~Reserve(v)
    BY <1>6, <2>1, <2>4 DEF Proceeds, Outside
  <2> QED
    BY <2>2, <2>3, <2>4
<1> QED
  BY <1>1, <1>2, <1>3, <1>4, <1>5, <1>6, CallSteps

LEMMA HolderStep ==
  ASSUME TypeOK, StartedInv, OpInv, HolderInv, [Next]_vars
  PROVE  HolderInv'
<1> SUFFICES ASSUME NEW v \in Workers, NEW w \in Workers, Holds(v)', Holds(w)',
                    Adm(v)' = Adm(w)', v # w
             PROVE  FALSE
  BY DEF HolderInv
<1>1. Adm(v) = Adm(w)
  BY HoldsSteps
<1>2. CASE Holds(v) /\ Holds(w)
  BY <1>1, <1>2 DEF HolderInv
<1>3. ASSUME NEW x \in Workers, NEW y \in Workers, Reserve(x), Holds(y), Adm(x) = Adm(y)
      PROVE  FALSE
  <2>1. Self(y).pc \notin {"idle", "begin", "declare"}
    BY <1>3 DEF Holds, OpInv, At, Self
  <2>2. Started(Adm(y))
    BY <2>1 DEF StartedInv
  <2> QED
    BY <1>3, <2>2 DEF Reserve, Started
<1>4. CASE ~Holds(v) /\ ~Holds(w)
  <2>1. Reserve(v) /\ worker'[w] = worker[w]
    BY <1>4, HoldsSteps
  <2> QED
    BY <1>4, <2>1 DEF Holds, Self
<1> QED
  BY <1>1, <1>2, <1>3, <1>4, HoldsSteps

LEMMA ActiveStep ==
  ASSUME TypeOK, OpInv, HolderInv, ActiveIsExact, [Next]_vars
  PROVE  ActiveIsExact'
<1> DEFINE In(p, a) == \E v \in Workers : ProcessOf[v] = p /\ Executing(v) /\ Adm(v) = a
<1>a. \A p \in Processes : \A a : a \in active[p] <=> In(p, a)
  BY DEF ActiveIsExact, Executing
<1> SUFFICES ASSUME NEW p \in Processes, NEW a
             PROVE  a \in active'[p] <=> In(p, a)'
  BY DEF ActiveIsExact, Executing
<1>b. active \in [Processes -> SUBSET Admissions] /\ \A w \in Workers : ProcessOf[w] \in Processes
  BY ThreadFields DEF TypeOK
<1> USE DEF Executing, Self, Adm
<1>1. CASE UNCHANGED <<active, worker>>
  BY <1>1, <1>a
<1>2. ASSUME NEW q \in Processes, Crash(q)
      PROVE  a \in active'[p] <=> In(p, a)'
  <2>1. CASE p = q
    <3>1. active'[p] = {}
      BY <1>2, <1>b, <2>1 DEF Crash
    <3>2. \A v \in Workers : ProcessOf[v] = p => worker'[v].op = "none"
      BY <1>2, <2>1, IdleFields DEF Crash
    <3> QED
      BY <3>1, <3>2
  <2>2. CASE p # q
    <3>1. active'[p] = active[p]
      BY <1>2, <1>b, <2>2 DEF Crash
    <3>2. \A v \in Workers : ProcessOf[v] = p => worker'[v] = worker[v]
      BY <1>2, <2>2 DEF Crash
    <3> QED
      BY <1>a, <3>1, <3>2
  <2> QED
    BY <2>1, <2>2
<1>3. ASSUME NEW w \in Workers, EnterActive(w)
      PROVE  a \in active'[p] <=> In(p, a)'
  <2>1. active'[p] = IF p = ProcessOf[w] THEN active[p] \cup {Adm(w)} ELSE active[p]
    BY <1>3, <1>b DEF EnterActive
  <2>2. /\ \A v \in Workers \ {w} : worker'[v] = worker[v]
        /\ worker'[w].pc = "calling" /\ worker'[w].op = Self(w).op /\ worker'[w].adm = Adm(w)
    BY <1>3, GotoGoesOn DEF EnterActive
  <2>3. Self(w).op = "execute" /\ ~Executing(w)
    BY <1>3 DEF EnterActive, OpInv, At
  <2>4. In(p, a)' <=> In(p, a) \/ (p = ProcessOf[w] /\ a = Adm(w))
    BY <2>2, <2>3
  <2> QED
    BY <1>a, <2>1, <2>4
<1>4. ASSUME NEW w \in Workers, Return(w)
      PROVE  a \in active'[p] <=> In(p, a)'
  <2>1. /\ \A v \in Workers \ {w} : worker'[v] = worker[v]
        /\ worker'[w].op = "none"
    BY <1>4, ReturnEnds, IdleFields
  <2>2. CASE Executing(w)
    <3>1. active'[p] = IF p = ProcessOf[w] THEN active[p] \ {Adm(w)} ELSE active[p]
      BY <1>4, <1>b, <2>2 DEF Return
    <3>2. ASSUME NEW v \in Workers, Executing(v), Adm(v) = Adm(w) PROVE v = w
      BY <2>2, <3>2 DEF HolderInv, Holds
    <3>3. In(p, a)' <=> In(p, a) /\ ~(p = ProcessOf[w] /\ a = Adm(w))
      BY <2>1, <2>2, <3>2
    <3> QED
      BY <1>a, <3>1, <3>3
  <2>3. CASE ~Executing(w)
    <3>1. active' = active
      BY <1>4, <2>3 DEF Return
    <3>2. In(p, a)' <=> In(p, a)
      BY <2>1, <2>3
    <3> QED
      BY <1>a, <3>1, <3>2
  <2> QED
    BY <2>2, <2>3
<1>5. ASSUME NEW w \in Workers, UNCHANGED active, Proceeds(w)
      PROVE  a \in active'[p] <=> In(p, a)'
  <2>1. \A v \in Workers \ {w} : worker'[v] = worker[v]
    BY <1>5 DEF Proceeds
  <2>2. CASE ~Executing(w) /\ ~Executing(w)'
    BY <1>a, <1>5, <2>1, <2>2
  <2>3. CASE Executing(w) /\ Executing(w)' /\ Adm(w)' = Adm(w)
    BY <1>a, <1>5, <2>1, <2>3
  <2>4. \/ ~Executing(w) /\ ~Executing(w)'
        \/ Executing(w) /\ Executing(w)' /\ Adm(w)' = Adm(w)
    <3>1. CASE At(w, "idle")
      BY <1>5, <3>1 DEF Proceeds, Reserve, At, Outside, OpInv
    <3>2. CASE ~At(w, "idle")
      BY <1>5, <3>2 DEF Proceeds, Reserve, At, Outside
    <3> QED
      BY <3>1, <3>2
  <2> QED
    BY <2>2, <2>3, <2>4
<1> QED
  BY <1>1, <1>2, <1>3, <1>4, <1>5, CallSteps

LEMMA ActiveInit == Init => ActiveInv
<1> SUFFICES ASSUME Init PROVE ActiveInv
  OBVIOUS
<1>1. TypeOK /\ StartedInv
  BY InitTyped, InitInvariant DEF IInv, CallPart
<1>2. \A w \in Workers : Self(w).pc = "idle" /\ Self(w).op = "none"
  BY IdleFields DEF Init, Self
<1>3. OpInv
  BY <1>2 DEF OpInv, At, Self
<1>4. HolderInv
  BY <1>2 DEF HolderInv, Holds
<1>5. ActiveIsExact
  BY <1>2 DEF Init, ActiveIsExact
<1> QED
  BY <1>1, <1>3, <1>4, <1>5 DEF ActiveInv

(* One thread at most holds an admission, in all processes, and each        *)
(* process's _active is what its threads hold.                              *)
THEOREM ActiveInvariant == Spec => []ActiveInv
<1>1. ActiveInv /\ [Next]_vars => ActiveInv'
  BY TypeStep, StartedStep, OpStep, HolderStep, ActiveStep DEF ActiveInv
<1> QED
  BY ActiveInit, <1>1, PTL DEF Spec

(* _active holds exactly what a thread of the process is executing: nothing *)
(* leaks that would refuse recovery for ever, nothing is discarded under a  *)
(* running call, crashes and faults included (execute's finally).           *)
THEOREM ActiveExact == Spec => []ActiveIsExact
<1>1. ActiveInv => ActiveIsExact
  BY DEF ActiveInv
<1> QED
  BY <1>1, ActiveInvariant, PTL
=============================================================================
