--------------------------- MODULE EffectExecutor ---------------------------
(***************************************************************************)
(* The durable controlled effect executor: executor processes that share   *)
(* one PostgreSQL ledger and one provider. A worker is a thread of an      *)
(* executor process; it runs one public call at a time (execute, recover   *)
(* or declare_in_flight_lost), each step of which is one transaction, one  *)
(* provider interaction or one access to the process's _active set.        *)
(*                                                                         *)
(* Failures: a process may crash between any two steps (its threads and    *)
(* _active are lost, ledger and provider are not); a transaction may fail, *)
(* or commit without the caller learning it; a readback may be missing,    *)
(* incomplete or not authoritative. MaxFaults bounds the number of these.  *)
(* A provider may, on any call, lose its answer, refuse, answer without    *)
(* doing anything, or commit much later.                                   *)
(***************************************************************************)
EXTENDS EffectProvider, FiniteSets

CONSTANTS
  Processes,        \* executor processes, one store and executor object each
  Workers,          \* threads
  ProcessOf,        \* [Workers -> Processes]
  Declarers,        \* the threads an owner uses for declare_in_flight_lost
  Expiring,         \* admissions whose delegation has an expiry
  MaxFaults         \* bound on crashes, storage faults and bad readbacks

ASSUME ExecutorAssumption ==
  /\ ProcessOf \in [Workers -> Processes]
  /\ Declarers \subseteq Workers
  /\ Expiring \subseteq Admissions
  /\ MaxFaults \in Nat

VARIABLES
  progress,      \* [Admissions -> row of cee_progress]
  ledger,        \* [Admissions -> Seq(Events)]: cee_event
  active,        \* [Processes -> SUBSET Admissions]: each executor's _active
  worker,        \* [Workers -> thread state]
  expired,       \* admissions past their delegation_expiry
  faults,        \* crashes, storage faults and bad readbacks so far
  escaped        \* history: admissions whose execute raised after the call

storeVars  == <<progress, ledger>>
vars == <<providerVars, storeVars, active, worker, expired, faults, escaped>>

-----------------------------------------------------------------------------
Progress == [state: States, seq: Nat, attempt: BOOLEAN, ack: BOOLEAN]

(* What a thread remembers of the progress row it read. *)
Snapshots == [state: States, seq: Nat, ack: BOOLEAN]
NoSnapshot == [state |-> "FENCED", seq |-> 0, ack |-> FALSE]

Points == {"idle", "begin", "reserved", "calling", "inside", "returned",
           "reread", "check", "settle", "observe", "decide", "close",
           "after", "declare"}

(* op, adm: the call and its admission. acked: the provider's answer.       *)
(* moved: the ledger refused the last write. seen: the snapshot decided on. *)
(* mark: history length when the readback began.                            *)
Threads == [pc: Points, op: {"none", "execute", "recover", "declare"},
            adm: Admissions, acked: BOOLEAN, moved: BOOLEAN,
            seen: Snapshots, obs: Observations, st: Settlements, mark: Nat]

AnyAdmission == CHOOSE a \in Admissions : TRUE

Idle == [pc |-> "idle", op |-> "none", adm |-> AnyAdmission, acked |-> FALSE,
         moved |-> FALSE, seen |-> NoSnapshot, obs |-> NoObs,
         st |-> NoSettlement, mark |-> 0]

TypeOK ==
  /\ ProviderTypeOK
  /\ progress \in [Admissions -> Progress]
  /\ ledger \in [Admissions -> Seq(Events)]
  /\ active \in [Processes -> SUBSET Admissions]
  /\ worker \in [Workers -> Threads]
  /\ expired \subseteq Admissions
  /\ faults \in 0..MaxFaults
  /\ escaped \subseteq Admissions

Init ==
  /\ ProviderInit
  /\ progress = [a \in Admissions |->
                   [state |-> "FENCED", seq |-> 1, attempt |-> FALSE, ack |-> FALSE]]
  /\ ledger = [a \in Admissions |-> <<FencedEvent>>]
  /\ active = [p \in Processes |-> {}]
  /\ worker = [w \in Workers |-> Idle]
  /\ expired = {}
  /\ faults = 0
  /\ escaped = {}

-----------------------------------------------------------------------------
(* Transactions of the store. *)

Row(a) == progress[a]

(* Mutant: the store trusts its callers with the edges. *)
MutantAnyEdge(a, after) == after \in States

(* _append: legal edges only; one event and the projection move together. *)
Appendable(a, after) == after \in Transitions[Row(a).state]

(* Mutant: a later event forgets the recorded ack. *)
MutantForgetsAck(a, e) ==
  /\ Appendable(a, e.after)
  /\ ledger' = [ledger EXCEPT ![a] = Append(@, e)]
  /\ progress' = [progress EXCEPT ![a] =
       [state   |-> e.after,
        seq     |-> @.seq + 1,
        attempt |-> @.attempt \/ e.kind = "ATTEMPT_STARTED",
        ack     |-> e.kind = "PROVIDER_RESULT" /\ e.acked]]

AppendEvent(a, e) ==
  /\ Appendable(a, e.after)
  /\ ledger' = [ledger EXCEPT ![a] = Append(@, e)]
  /\ progress' = [progress EXCEPT ![a] =
       [state   |-> e.after,
        seq     |-> @.seq + 1,
        attempt |-> @.attempt \/ e.kind = "ATTEMPT_STARTED",
        ack     |-> @.ack \/ (e.kind = "PROVIDER_RESULT" /\ e.acked)]]

Fault == faults < MaxFaults /\ faults' = faults + 1

(* A write transaction that the caller sees fail: rolled back, or committed *)
(* with the confirmation lost.                                              *)
Unconfirmed(write) == Fault /\ (write \/ UNCHANGED storeVars)

-----------------------------------------------------------------------------
(* Steps of a thread. *)

Self(w) == worker[w]
Adm(w)  == worker[w].adm
At(w, pc) == worker[w].pc = pc

(* The thread continues at pc with the fields of its record unchanged. *)
Goto(w, pc) == worker' = [worker EXCEPT ![w].pc = pc]

(* The call goes on with none of the values read so far. *)
Forget(w) == [Idle EXCEPT !.op = worker[w].op, !.adm = worker[w].adm]

(* Mutant: whoever returns discards the admission from _active. *)
MutantDiscardsForAll(w) ==
  /\ worker' = [worker EXCEPT ![w] = Idle]
  /\ active' = [active EXCEPT ![ProcessOf[w]] = @ \ {Adm(w)}]

(* Mutant: an early return of execute leaves the admission in _active. *)
MutantLeaksActive(w) ==
  /\ worker' = [worker EXCEPT ![w] = Idle]
  /\ UNCHANGED active

(* The call returns. Only an execute past the reservation is inside the try *)
(* block whose finally clause discards the admission from _active.          *)
Return(w) ==
  /\ worker' = [worker EXCEPT ![w] = Idle]
  /\ active' = IF Self(w).op = "execute" /\ Self(w).pc \notin {"begin", "reserved"}
               THEN [active EXCEPT ![ProcessOf[w]] = @ \ {Adm(w)}]
               ELSE active

Snapshot(a) == [state |-> Row(a).state, seq |-> Row(a).seq, ack |-> Row(a).ack]

(* execute, up to the reservation: the progress row is FENCED and the       *)
(* delegation has not expired. Every other answer changes nothing.          *)
ExecuteStart(w, a) ==
  /\ At(w, "idle")
  /\ Row(a).state = "FENCED"
  /\ a \notin expired
  /\ worker' = [worker EXCEPT ![w] = [Idle EXCEPT !.pc = "begin", !.op = "execute",
                                                  !.adm = a]]
  /\ UNCHANGED <<providerVars, storeVars, active, expired, faults, escaped>>

AttemptStarted ==
  PlainEvent("ATTEMPT_STARTED", "IN_FLIGHT", "ATTEMPT_RECORDED_BEFORE_PROVIDER_CALL", FALSE)

(* Mutant: the reservation is not a compare-and-set on FENCED; IN_FLIGHT to *)
(* IN_FLIGHT is a legal edge.                                               *)
MutantReservesTwice(w) ==
  /\ At(w, "begin")
  /\ AppendEvent(Adm(w), AttemptStarted)
  /\ Goto(w, "reserved")
  /\ UNCHANGED <<providerVars, active, expired, faults, escaped>>

(* begin_attempt, confirmed: this thread alone may call the provider. *)
Reserve(w) ==
  /\ At(w, "begin")
  /\ Row(Adm(w)).state = "FENCED"
  /\ AppendEvent(Adm(w), AttemptStarted)
  /\ Goto(w, "reserved")
  /\ UNCHANGED <<providerVars, active, expired, faults, escaped>>

(* begin_attempt lost the compare-and-set. *)
ReserveLost(w) ==
  /\ At(w, "begin")
  /\ Row(Adm(w)).state # "FENCED"
  /\ Return(w)
  /\ UNCHANGED <<providerVars, storeVars, expired, faults, escaped>>

(* Mutant: an unconfirmed reservation is taken for a reservation. *)
MutantCallsUnconfirmed(w) ==
  /\ At(w, "begin")
  /\ Row(Adm(w)).state = "FENCED"
  /\ Unconfirmed(AppendEvent(Adm(w), AttemptStarted))
  /\ Goto(w, "reserved")
  /\ UNCHANGED <<providerVars, active, expired, escaped>>

(* begin_attempt raises (StorageError, or ReservationNotConfirmed when its  *)
(* COMMIT did): no call, whatever became durable.                           *)
ReserveUnconfirmed(w) ==
  /\ At(w, "begin")
  /\ Row(Adm(w)).state = "FENCED"
  /\ Unconfirmed(AppendEvent(Adm(w), AttemptStarted))
  /\ Return(w)
  /\ UNCHANGED <<providerVars, expired, escaped>>

(* The admission enters _active only after the reservation committed. *)
EnterActive(w) ==
  /\ At(w, "reserved")
  /\ active' = [active EXCEPT ![ProcessOf[w]] = @ \cup {Adm(w)}]
  /\ Goto(w, "calling")
  /\ UNCHANGED <<providerVars, storeVars, expired, faults, escaped>>

CallProvider(w) ==
  /\ At(w, "calling")
  /\ LogCall(Adm(w))
  /\ Goto(w, "inside")
  /\ UNCHANGED <<storeVars, active, expired, faults, escaped>>

(* provider.apply returns a valid ack, or anything else. *)
Answer(w, acked) ==
  /\ At(w, "inside")
  /\ worker' = [worker EXCEPT ![w] = [@ EXCEPT !.pc = "returned", !.acked = acked]]
  /\ UNCHANGED <<storeVars, active, expired, faults, escaped>>

ProviderCommits(w, acked) == Answer(w, acked) /\ Effect(Adm(w))
ProviderRefuses(w) ==
  Answer(w, FALSE) /\ ~Applicable(Adm(w)) /\ UNCHANGED providerVars
ProviderFails(w)         == Answer(w, FALSE) /\ UNCHANGED providerVars
ProviderAcksNothing(w)   == Answer(w, TRUE)  /\ UNCHANGED providerVars
ProviderRejects(w)       == Answer(w, FALSE) /\ Reject(Adm(w))
ProviderDelays(w)        == Answer(w, FALSE) /\ Enqueue(Adm(w))

ProviderResult(w) ==
  IF Self(w).acked
  THEN PlainEvent("PROVIDER_RESULT", "IN_FLIGHT", "PROVIDER_ACK_UNVERIFIED", TRUE)
  ELSE PlainEvent("PROVIDER_RESULT", "UNKNOWN_EFFECT", "PROVIDER_RESPONSE_NOT_RECEIVED", FALSE)

(* record_provider_result commits. *)
RecordResult(w) ==
  /\ At(w, "returned")
  /\ AppendEvent(Adm(w), ProviderResult(w))
  /\ Goto(w, "reread")
  /\ UNCHANGED <<providerVars, active, expired, faults, escaped>>

(* record_provider_result is refused: a concurrent recovery moved on. *)
RecordResultRefused(w) ==
  /\ At(w, "returned")
  /\ ~Appendable(Adm(w), ProviderResult(w).after)
  /\ worker' = [worker EXCEPT ![w] = [@ EXCEPT !.pc = "reread", !.moved = TRUE]]
  /\ UNCHANGED <<providerVars, storeVars, active, expired, faults, escaped>>

(* record_provider_result raises StorageError: reported, left to recover. *)
RecordResultUnconfirmed(w) ==
  /\ At(w, "returned")
  /\ Unconfirmed(AppendEvent(Adm(w), ProviderResult(w)))
  /\ Return(w)
  /\ UNCHANGED <<providerVars, expired, escaped>>

(* _after_call re-reads the row: an ack, or a refused write on a row that   *)
(* is not terminal, goes on to reconcile with what the row says.            *)
Reread(w) ==
  /\ At(w, "reread")
  /\ IF \/ Self(w).moved /\ Row(Adm(w)).state \notin Terminal
        \/ ~Self(w).moved /\ Self(w).acked
     THEN /\ worker' = [worker EXCEPT ![w] = [Forget(w) EXCEPT !.pc = "settle",
                                                               !.seen = Snapshot(Adm(w))]]
          /\ UNCHANGED active
     ELSE Return(w)
  /\ UNCHANGED <<providerVars, storeVars, expired, faults, escaped>>

RereadFails(w) ==
  /\ At(w, "reread")
  /\ Fault
  /\ Return(w)
  /\ UNCHANGED <<providerVars, storeVars, expired, escaped>>

-----------------------------------------------------------------------------
(* Mutant: recovery looks at IN_FLIGHT attempts only. *)
MutantRecoversInFlight(w, a) ==
  /\ At(w, "idle")
  /\ Row(a).state = "IN_FLIGHT"
  /\ worker' = [worker EXCEPT ![w] = [Idle EXCEPT !.pc = "check", !.op = "recover",
                                                  !.adm = a, !.seen = Snapshot(a)]]
  /\ UNCHANGED <<providerVars, storeVars, active, expired, faults, escaped>>

(* recover, up to the readback: only an attempt that is started and not     *)
(* resolved is looked at. Every other answer changes nothing.               *)
RecoverStart(w, a) ==
  /\ At(w, "idle")
  /\ Row(a).state \notin Terminal \cup {"FENCED"}
  /\ worker' = [worker EXCEPT ![w] = [Idle EXCEPT !.pc = "check", !.op = "recover",
                                                  !.adm = a, !.seen = Snapshot(a)]]
  /\ UNCHANGED <<providerVars, storeVars, active, expired, faults, escaped>>

(* recover is refused while a call is active in this process. *)
RecoverCheck(w) ==
  /\ At(w, "check")
  /\ IF Adm(w) \in active[ProcessOf[w]]
     THEN Return(w)
     ELSE Goto(w, "settle") /\ UNCHANGED active
  /\ UNCHANGED <<providerVars, storeVars, expired, faults, escaped>>

(* The answers a reader may get instead of the good one. *)
DegradedSettlements(st) ==
  {NoSettlement, [st EXCEPT !.authoritative = FALSE], [st EXCEPT !.authenticated = FALSE]}
DegradedObservations(obs) ==
  {NoObs, [obs EXCEPT !.authoritative = FALSE], [obs EXCEPT !.complete = FALSE]}

(* read_evidence reads the settlement first ... *)
ReadSettlement(w) ==
  /\ At(w, "settle")
  /\ \E st \in {SettlementNow(Adm(w))} \cup DegradedSettlements(SettlementNow(Adm(w))) :
       /\ IF st = SettlementNow(Adm(w)) THEN UNCHANGED faults ELSE Fault
       /\ worker' = [worker EXCEPT ![w] = [@ EXCEPT !.pc = "observe", !.st = st,
                                 !.mark = Len(history[TargetOf[Adm(w)]])]]
  /\ UNCHANGED <<providerVars, storeVars, active, expired, escaped>>

(* ... and then the target: its row at some length mark, its history now. *)
ReadObservation(w) ==
  /\ At(w, "observe")
  /\ \E mark \in Self(w).mark..Len(history[TargetOf[Adm(w)]]) :
       LET good == ObservationNow(Adm(w), mark)
       IN \E obs \in {good} \cup DegradedObservations(good) :
            /\ IF obs = good THEN UNCHANGED faults ELSE Fault
            /\ worker' = [worker EXCEPT ![w] = [@ EXCEPT !.pc = "decide", !.obs = obs,
                                                        !.mark = 0]]
  /\ UNCHANGED <<providerVars, storeVars, active, expired, escaped>>

-----------------------------------------------------------------------------
(* _resolve: what to write, as (event, expected sequence number). *)

VerdictOf(w) == ClassifyDurable(Adm(w), Self(w).obs, Self(w).st, Self(w).seen.ack)

NotRecorded == Verdict("INDETERMINATE", "RECOVERY_ATTEMPT_RESULT_NOT_RECORDED")

(* An IN_FLIGHT attempt goes to NO_COMMIT in two events, the first of which *)
(* says that its result was never recorded; so does the only event of an    *)
(* inconclusive readback when no ack is on record.                          *)
FirstOfTwo(w) ==
  Self(w).seen.state = "IN_FLIGHT" /\ TargetState(VerdictOf(w).class) = "NO_COMMIT"
ResultLost(w) ==
  /\ Self(w).seen.state = "IN_FLIGHT"
  /\ TargetState(VerdictOf(w).class) = "UNKNOWN_EFFECT"
  /\ ~Self(w).seen.ack

Decision(w) ==
  IF At(w, "decide") /\ (FirstOfTwo(w) \/ ResultLost(w))
  THEN ReconciliationEvent("UNKNOWN_EFFECT", NotRecorded, Self(w).obs, Self(w).st)
  ELSE ReconciliationEvent(TargetState(VerdictOf(w).class), VerdictOf(w),
                           Self(w).obs, Self(w).st)

ExpectedSeq(w) == Self(w).seen.seq + (IF At(w, "close") THEN 1 ELSE 0)

(* Mutant: the decision is written whatever happened since it was made. *)
MutantWritesStale(w) == Row(Adm(w)).seq >= ExpectedSeq(w)

(* record_reconciliation: the row has not moved since the decision, and the *)
(* event is derived from its evidence. *)
RowUnmoved(w) == Row(Adm(w)).seq = ExpectedSeq(w)
Acceptable(a, e) ==
  /\ DerivedFromObservation(e.after, e, e.obs, Row(a).ack)
  /\ CarriesSettlement(e.after, e.st)

(* The verdict is already the head of an UNKNOWN_EFFECT ledger. *)
AlreadyHead(a, e) ==
  /\ Row(a).state = "UNKNOWN_EFFECT" /\ e.after = "UNKNOWN_EFFECT"
  /\ ledger[a][Row(a).seq] = e

WriteReconciliation(a, e) ==
  IF AlreadyHead(a, e) THEN UNCHANGED storeVars ELSE AppendEvent(a, e)

Recordable(w) ==
  /\ RowUnmoved(w)
  /\ Acceptable(Adm(w), Decision(w))
  /\ Appendable(Adm(w), Decision(w).after)

Reconcile(w) ==
  /\ Self(w).pc \in {"decide", "close"}
  /\ Recordable(w)
  /\ WriteReconciliation(Adm(w), Decision(w))
  /\ IF At(w, "decide") /\ FirstOfTwo(w)
     THEN Goto(w, "close")
     ELSE worker' = [worker EXCEPT ![w] = [Forget(w) EXCEPT !.pc = "after"]]
  /\ UNCHANGED <<providerVars, active, expired, faults, escaped>>

(* StateMoved or another LedgerBasisError: report, never overwrite. *)
ReconcileRefused(w) ==
  /\ Self(w).pc \in {"decide", "close"}
  /\ ~Recordable(w)
  /\ worker' = [worker EXCEPT ![w] = [Forget(w) EXCEPT !.pc = "after", !.moved = TRUE]]
  /\ UNCHANGED <<providerVars, storeVars, active, expired, faults, escaped>>

ReconcileUnconfirmed(w) ==
  /\ Self(w).pc \in {"decide", "close"}
  /\ Recordable(w)
  /\ Unconfirmed(WriteReconciliation(Adm(w), Decision(w)))
  /\ Return(w)
  /\ UNCHANGED <<providerVars, expired, escaped>>

(* _after reads the row for the result it reports. *)
After(w) ==
  /\ At(w, "after")
  /\ Return(w)
  /\ UNCHANGED <<providerVars, storeVars, expired, faults, escaped>>

(* That read fails: a refused write falls back to the earlier snapshot, a   *)
(* successful one has no fallback and the assertion raises.                 *)
AfterFails(w) ==
  /\ At(w, "after")
  /\ Fault
  /\ escaped' = IF Self(w).op = "execute" /\ ~Self(w).moved
                THEN escaped \cup {Adm(w)} ELSE escaped
  /\ Return(w)
  /\ UNCHANGED <<providerVars, storeVars, expired>>

-----------------------------------------------------------------------------
(* declare_in_flight_lost: refused while the call is active in this process *)
(* (checked first), legal only on an IN_FLIGHT row (checked in the write).  *)
DeclareStart(w, a) ==
  /\ w \in Declarers
  /\ At(w, "idle")
  /\ a \notin active[ProcessOf[w]]
  /\ worker' = [worker EXCEPT ![w] = [Idle EXCEPT !.pc = "declare", !.op = "declare",
                                                  !.adm = a]]
  /\ UNCHANGED <<providerVars, storeVars, active, expired, faults, escaped>>

DeclaredLost ==
  PlainEvent("IN_FLIGHT_DECLARED_LOST", "UNKNOWN_EFFECT", "OWNER_DECLARED_IN_FLIGHT_LOST", FALSE)

DeclareLost(w) ==
  /\ At(w, "declare")
  /\ IF Row(Adm(w)).state = "IN_FLIGHT"
     THEN AppendEvent(Adm(w), DeclaredLost)
     ELSE UNCHANGED storeVars
  /\ Return(w)
  /\ UNCHANGED <<providerVars, expired, faults, escaped>>

DeclareLostUnconfirmed(w) ==
  /\ At(w, "declare")
  /\ Row(Adm(w)).state = "IN_FLIGHT"
  /\ Unconfirmed(AppendEvent(Adm(w), DeclaredLost))
  /\ Return(w)
  /\ UNCHANGED <<providerVars, expired, escaped>>

-----------------------------------------------------------------------------
(* The environment. *)

(* A process dies: its threads and its _active set are gone. *)
Crash(p) ==
  /\ Fault
  /\ worker' = [w \in Workers |-> IF ProcessOf[w] = p THEN Idle ELSE worker[w]]
  /\ active' = [active EXCEPT ![p] = {}]
  /\ UNCHANGED <<providerVars, storeVars, expired, escaped>>

Expire(a) ==
  /\ a \in Expiring \ expired
  /\ expired' = expired \cup {a}
  /\ UNCHANGED <<providerVars, storeVars, active, worker, faults, escaped>>

ProviderActs(a) ==
  /\ Deliver(a) \/ SettleAbsent(a)
  /\ UNCHANGED <<storeVars, active, worker, expired, faults, escaped>>

-----------------------------------------------------------------------------
ProviderAnswers(w) ==
  \/ \E acked \in BOOLEAN : ProviderCommits(w, acked)
  \/ ProviderRefuses(w) \/ ProviderFails(w) \/ ProviderAcksNothing(w)
  \/ ProviderRejects(w) \/ ProviderDelays(w)

(* The steps of a call that is under way, up to its return. *)
Continue(w) ==
  \/ Reserve(w) \/ ReserveLost(w) \/ ReserveUnconfirmed(w)
  \/ EnterActive(w) \/ CallProvider(w) \/ ProviderAnswers(w)
  \/ RecordResult(w) \/ RecordResultRefused(w) \/ RecordResultUnconfirmed(w)
  \/ Reread(w) \/ RereadFails(w)
  \/ RecoverCheck(w) \/ ReadSettlement(w) \/ ReadObservation(w)
  \/ Reconcile(w) \/ ReconcileRefused(w) \/ ReconcileUnconfirmed(w)
  \/ After(w) \/ AfterFails(w)
  \/ DeclareLost(w) \/ DeclareLostUnconfirmed(w)

Next ==
  \/ \E w \in Workers : Continue(w)
  \/ \E w \in Workers, a \in Admissions :
       ExecuteStart(w, a) \/ RecoverStart(w, a) \/ DeclareStart(w, a)
  \/ \E p \in Processes : Crash(p)
  \/ \E a \in Admissions : Expire(a) \/ ProviderActs(a)

Spec == Init /\ [][Next]_vars

(***************************************************************************)
(* Safety.                                                                 *)
(***************************************************************************)

(* The provider is called at most once per admission, by any process, after *)
(* any crash and any unconfirmed commit, and only after the reservation of  *)
(* that attempt is durable (execute, begin_attempt).                        *)
AtMostOneCall ==
  \A a \in Admissions : calls[a] <= 1 /\ (calls[a] = 1 => Row(a).attempt)

(* A NO_COMMIT is final: the effect is absent and the provider can never    *)
(* apply it any more, late deliveries and calls under way included          *)
(* (classify_durable, _resolve).                                            *)
NoCommitIsFinal ==
  \A a \in Admissions : Row(a).state = "NO_COMMIT" =>
    ~Applied(a) /\ settlement[a] = "SETTLED_ABSENT"

(* A COMMITTED_READBACK is true: the provider has applied the effect        *)
(* (classify_observation, _resolve).                                        *)
CommittedIsApplied ==
  \A a \in Admissions : Row(a).state = "COMMITTED_READBACK" => Applied(a)

(* Every ledger the executors write passes the repository's own verifiers:  *)
(* verify_provenance_durable on the events, verify_projection on the row.   *)
LedgerVerifies ==
  \A a \in Admissions :
    VerifiedProvenance(ledger[a]) /\ VerifiedProjection(Row(a), ledger[a])

(* "The result of this attempt was never recorded" is only written when it  *)
(* is so: no PROVIDER_RESULT precedes it (_resolve, expected_last_seq). And  *)
(* a periodic sweep does not grow the ledger: two consecutive events never   *)
(* repeat the same reconciliation (record_reconciliation).                   *)
LedgerIsHonest ==
  \A a \in Admissions : \A i, j \in 1..Len(ledger[a]) : i < j =>
    /\ ledger[a][i].kind = "PROVIDER_RESULT" => ledger[a][j].reason # NotRecorded.reason
    /\ j = i + 1 /\ ledger[a][j].kind = "RECONCILIATION" => ledger[a][i] # ledger[a][j]

(* A process's _active is exactly the admissions one of its threads is      *)
(* executing between EnterActive and the return: nothing leaks that would   *)
(* refuse recovery for ever, nothing is discarded under a running call by   *)
(* another thread's call for the same admission (execute's finally).        *)
ActiveIsExact ==
  \A p \in Processes :
    active[p] = {Adm(w) : w \in {v \in Workers :
                   /\ ProcessOf[v] = p
                   /\ Self(v).op = "execute"
                   /\ Self(v).pc \notin {"begin", "reserved"}}}

(* An effect applies only on the target version its batch was approved for, *)
(* also when the slow queue delivers it after other batches (_effect).      *)
PreconditionHeld ==
  \A t \in Targets : \A i \in 1..Len(history[t]) :
    PreconditionOf[history[t][i]] \in {AnyVersion, i - 1}

(* The store's checks and the database's triggers, written twice in two     *)
(* languages, agree: every step appends at most one event per admission,    *)
(* and the triggers accept each event and each row the store writes, so no  *)
(* call ends in an integrity error (_append; cee_event_guard,               *)
(* cee_progress_guard).                                                     *)
TriggersAccept ==
  [][\A a \in Admissions : ledger'[a] # ledger[a] =>
       /\ ledger'[a] = Append(ledger[a], ledger'[a][Len(ledger'[a])])
       /\ EventGuard(ledger[a], ledger'[a][Len(ledger'[a])])
       /\ ProgressGuard(Row(a), progress'[a], ledger'[a])]_vars

(***************************************************************************)
(* Liveness. A call that is under way goes on until it returns, unless its *)
(* process crashes; the caller keeps sweeping the unresolved admissions    *)
(* and recovers each of them again and again, which is what the recovery   *)
(* sweep documents as its use. Nobody is obliged to start an execute, to   *)
(* declare an attempt lost, or to make the provider settle or deliver.     *)
(***************************************************************************)
Fairness ==
  /\ \A w \in Workers : WF_vars(Continue(w))
  /\ \A a \in Admissions : SF_vars(\E w \in Workers : RecoverStart(w, a))

FairSpec == Spec /\ Fairness

(* An attempt does not stay IN_FLIGHT: the caller, or a recovery after a    *)
(* crash, a lost commit or a lost answer, moves it on (recover).            *)
InFlightIsLeft ==
  \A a \in Admissions :
    Row(a).state = "IN_FLIGHT" ~> Row(a).state # "IN_FLIGHT"

(* Once the provider settles the correlation absent, an unknown effect      *)
(* without an ack on record is closed as NO_COMMIT (recover, _resolve).     *)
SettledIsClosed ==
  \A a \in Admissions :
    (Row(a).state = "UNKNOWN_EFFECT" /\ ~Row(a).ack /\ settlement[a] = "SETTLED_ABSENT")
      ~> Row(a).state = "NO_COMMIT"

(* A later batch has put another artifact on the target since a applied. *)
Overwritten(a) ==
  LET applied == history[TargetOf[a]]
  IN  Applied(a) /\ ArtifactAt(applied, Len(applied)) # ArtifactOf[a]

(* The ledger's last word: the effect is there, its artifact is not. *)
HeldAsMismatch(a) ==
  /\ Row(a).state = "UNKNOWN_EFFECT"
  /\ ledger[a][Row(a).seq].reason = "READBACK_APPLIED_BUT_ARTIFACT_MISMATCH"

(* In the end every effect the provider applied, however late, is reported: *)
(* as committed or, when the artifact of a later batch stays on the target, *)
(* as an unknown effect whose last event says that it was applied and does  *)
(* not match; never as lost, nor as merely unrecorded (recover,             *)
(* classify_observation).                                                   *)
AppliedIsReported ==
  <>[](\A a \in Admissions : Applied(a) =>
         \/ Row(a).state = "COMMITTED_READBACK"
         \/ Overwritten(a) /\ HeldAsMismatch(a))

(***************************************************************************)
(* Statements of the repository's texts that the code does not keep; each  *)
(* is checked by a run that exhibits the counterexample.                   *)
(***************************************************************************)

(* execute: after a provider call it never raises on storage trouble. *)
NeverRaisesAfterCall == escaped = {}

(* declare_in_flight_lost: a call is never declared lost while this         *)
(* executor is still inside it.                                             *)
NeverDeclaredLostInside ==
  [][\A w \in Declarers :
       (At(w, "declare") /\ ledger'[Adm(w)] # ledger[Adm(w)] /\ worker'[w] # worker[w])
         => Adm(w) \notin active[ProcessOf[w]]]_vars

=============================================================================
