---------------------------- MODULE EffectLedger ----------------------------
(***************************************************************************)
(* The vocabulary of the durable controlled effect executor: the states of *)
(* an admission, the evidence a readback returns, the verdict drawn from   *)
(* it, the events of the ledger and the rules a ledger must satisfy.       *)
(* Everything here is a pure function; the actions are in EffectExecutor.  *)
(*                                                                         *)
(* Digests, fingerprints and canonical JSON are abstracted to the values   *)
(* they are digests of: two digests are equal iff the values are.          *)
(***************************************************************************)
EXTENDS Naturals, Sequences

CONSTANTS
  Admissions,   \* admissions already fenced (AdmissionFence models the fence)
  Targets,      \* target identities at the provider
  TargetOf,     \* [Admissions -> Targets]
  ArtifactOf,   \* [Admissions -> artifact versions]: what the batch installs
  SeedArtifact  \* the artifact version a target starts with

ASSUME ConstantsAssumption ==
  /\ TargetOf \in [Admissions -> Targets]
  /\ Admissions # {}

-----------------------------------------------------------------------------
States   == {"FENCED", "IN_FLIGHT", "COMMITTED_READBACK", "NO_COMMIT",
             "UNKNOWN_EFFECT"}
Terminal == {"COMMITTED_READBACK", "NO_COMMIT"}

(* The states reachable by exactly one ledger event. *)
Transitions ==
  [s \in States |->
     CASE s = "FENCED"         -> {"IN_FLIGHT"}
       [] s = "IN_FLIGHT"      -> {"IN_FLIGHT", "UNKNOWN_EFFECT",
                                   "COMMITTED_READBACK"}
       [] s = "UNKNOWN_EFFECT" -> {"UNKNOWN_EFFECT", "COMMITTED_READBACK",
                                   "NO_COMMIT"}
       [] OTHER                -> {}]

-----------------------------------------------------------------------------
(* A target observation. history is the sequence of applied correlations   *)
(* (every applied effect bumps the version by one, so the version is its   *)
(* length); mark is the length at which version and artifact were read: it *)
(* is an earlier statement of the same READ COMMITTED transaction, so it   *)
(* may lag. An unreadable, malformed or foreign observation is NoObs.      *)
Observations == [read: BOOLEAN, authoritative: BOOLEAN, complete: BOOLEAN,
                 mark: Nat, history: Seq(Admissions)]

NoObs == [read |-> FALSE, authoritative |-> FALSE, complete |-> FALSE,
          mark |-> 0, history |-> << >>]

SettlementStatuses == {"APPLIED", "SETTLED_ABSENT", "PENDING", "UNKNOWN"}

(* Settlement evidence; a reader that raises, is missing or answers for    *)
(* another correlation yields NoSettlement. authenticated also stands for  *)
(* the presence of the provider's evidence_ref.                            *)
Settlements == [read: BOOLEAN, status: SettlementStatuses,
                authoritative: BOOLEAN, authenticated: BOOLEAN]

NoSettlement == [read |-> FALSE, status |-> "UNKNOWN",
                 authoritative |-> FALSE, authenticated |-> FALSE]

Occurs(a, h) == \E i \in 1..Len(h) : h[i] = a

ArtifactAt(h, n) == IF n \in 1..Len(h) THEN ArtifactOf[h[n]] ELSE SeedArtifact

-----------------------------------------------------------------------------
Verdict(c, r) == [class |-> c, reason |-> r]

(* Mutant: a recorded ack is taken as proof of the commit. *)
MutantTrustsAck(a, obs, ackSeen) ==
  IF obs.read /\ obs.authoritative /\ (ackSeen \/ Occurs(a, obs.history))
  THEN Verdict("COMMITTED", "READBACK_MATCHES_INTENDED_STATE")
  ELSE Verdict("INDETERMINATE", "READBACK_HISTORY_INCOMPLETE")

(* Mutant: a commit is believed only when its ack was recorded. *)
MutantNeedsAck(a, obs, ackSeen) ==
  IF obs.read /\ obs.authoritative /\ ackSeen /\ Occurs(a, obs.history)
  THEN Verdict("COMMITTED", "READBACK_MATCHES_INTENDED_STATE")
  ELSE Verdict("INDETERMINATE", "READBACK_HISTORY_INCOMPLETE")

(* classify_observation: the first rule that applies decides. *)
ClassifyObservation(a, obs, ackSeen) ==
  CASE ~obs.read          -> Verdict("INDETERMINATE", "READBACK_MALFORMED")
    [] obs.read /\ ~obs.authoritative
                          -> Verdict("INDETERMINATE", "READBACK_NOT_AUTHORITATIVE")
    [] obs.read /\ obs.authoritative /\ Occurs(a, obs.history) ->
         IF ArtifactAt(obs.history, obs.mark) = ArtifactOf[a]
         THEN Verdict("COMMITTED", "READBACK_MATCHES_INTENDED_STATE")
         ELSE Verdict("INDETERMINATE", "READBACK_APPLIED_BUT_ARTIFACT_MISMATCH")
    [] OTHER ->
         IF ~obs.complete
         THEN Verdict("INDETERMINATE", "READBACK_HISTORY_INCOMPLETE")
         ELSE IF ackSeen
              THEN Verdict("INDETERMINATE", "ACK_CONTRADICTED_BY_READBACK")
              ELSE Verdict("NO_COMMIT", "READBACK_PROVES_NO_COMMIT")

(* Why a point-in-time absence may not be closed as NO_COMMIT; "" if it may. *)
NoCommitObstacle(st) ==
  CASE ~st.read -> "NO_COMMIT_REFUSED_NO_SETTLEMENT_EVIDENCE"
    [] st.read /\ ~st.authoritative -> "SETTLEMENT_NOT_AUTHORITATIVE"
    [] st.read /\ st.authoritative /\ st.status = "SETTLED_ABSENT" ->
         IF st.authenticated THEN "" ELSE "SETTLEMENT_NOT_AUTHENTICATED"
    [] OTHER ->
         CASE st.status = "PENDING" -> "LATE_COMMIT_STILL_POSSIBLE_SETTLEMENT_PENDING"
           [] st.status = "APPLIED" -> "SETTLEMENT_APPLIED_BUT_NOT_IN_OBSERVATION"
           [] OTHER -> "NO_COMMIT_REFUSED_NO_SETTLEMENT_EVIDENCE"

(* classify_durable: V0.1's verdict, with NO_COMMIT only on settlement. *)
ClassifyDurable(a, obs, st, ackSeen) ==
  LET base == ClassifyObservation(a, obs, ackSeen)
      contradicted == /\ st.read /\ st.authoritative /\ st.authenticated
                      /\ st.status = "SETTLED_ABSENT"
  IN  CASE base.class = "COMMITTED" /\ contradicted ->
             Verdict("INDETERMINATE", "READBACK_CONTRADICTS_SETTLEMENT")
        [] base.class = "NO_COMMIT" /\ NoCommitObstacle(st) # "" ->
             Verdict("INDETERMINATE", NoCommitObstacle(st))
        [] OTHER -> base

(* The state a classification asks for. *)
TargetState(class) ==
  CASE class = "COMMITTED" -> "COMMITTED_READBACK"
    [] class = "NO_COMMIT" -> "NO_COMMIT"
    [] OTHER               -> "UNKNOWN_EFFECT"

-----------------------------------------------------------------------------
Classes == {"COMMITTED", "NO_COMMIT", "INDETERMINATE"}
Kinds   == {"ADMISSION_FENCED", "ATTEMPT_STARTED", "PROVIDER_RESULT",
            "RECONCILIATION", "IN_FLIGHT_DECLARED_LOST"}

Reasons ==
  {"FENCED_ONCE", "ATTEMPT_RECORDED_BEFORE_PROVIDER_CALL", "PROVIDER_ACK_UNVERIFIED",
   "PROVIDER_RESPONSE_NOT_RECEIVED", "OWNER_DECLARED_IN_FLIGHT_LOST",
   "RECOVERY_ATTEMPT_RESULT_NOT_RECORDED", "READBACK_MALFORMED",
   "READBACK_NOT_AUTHORITATIVE", "READBACK_MATCHES_INTENDED_STATE",
   "READBACK_APPLIED_BUT_ARTIFACT_MISMATCH", "READBACK_HISTORY_INCOMPLETE",
   "ACK_CONTRADICTED_BY_READBACK", "READBACK_PROVES_NO_COMMIT",
   "READBACK_CONTRADICTS_SETTLEMENT", "NO_COMMIT_REFUSED_NO_SETTLEMENT_EVIDENCE",
   "SETTLEMENT_NOT_AUTHORITATIVE", "SETTLEMENT_NOT_AUTHENTICATED",
   "LATE_COMMIT_STILL_POSSIBLE_SETTLEMENT_PENDING",
   "SETTLEMENT_APPLIED_BUT_NOT_IN_OBSERVATION"}

(* One ledger event. class, obs and st matter for RECONCILIATION, acked for *)
(* PROVIDER_RESULT; other events carry the neutral values of PlainEvent.    *)
Events == [kind: Kinds, after: States, class: Classes, reason: Reasons,
           acked: BOOLEAN, obs: Observations, st: Settlements]

PlainEvent(kind, after, reason, acked) ==
  [kind |-> kind, after |-> after, class |-> "INDETERMINATE",
   reason |-> reason, acked |-> acked, obs |-> NoObs, st |-> NoSettlement]

ReconciliationEvent(after, v, obs, st) ==
  [kind |-> "RECONCILIATION", after |-> after, class |-> v.class,
   reason |-> v.reason, acked |-> FALSE, obs |-> obs, st |-> st]

FencedEvent ==
  PlainEvent("ADMISSION_FENCED", "FENCED", "FENCED_ONCE", FALSE)

(* reconciliation_problem = None: the state is derived from the verdict. *)
DerivedFromObservation(after, v, obs, ackedBefore) ==
  CASE v.class = "COMMITTED" ->
         /\ after = "COMMITTED_READBACK"
         /\ v.reason = "READBACK_MATCHES_INTENDED_STATE"
         /\ obs.read
    [] v.class = "NO_COMMIT" ->
         /\ after = "NO_COMMIT"
         /\ v.reason = "READBACK_PROVES_NO_COMMIT"
         /\ obs.read
         /\ ~ackedBefore
    [] OTHER -> after = "UNKNOWN_EFFECT"

(* The rule store, trigger and verifier all hold a NO_COMMIT to. *)
CarriesSettlement(after, st) ==
  after = "NO_COMMIT" => st.read /\ st.status = "SETTLED_ABSENT"

(* Some PROVIDER_RESULT among the first n events recorded an ack. *)
AckedBy(l, n) == \E i \in 1..n : l[i].kind = "PROVIDER_RESULT" /\ l[i].acked

(* verify_provenance_durable returns no problem: first event, legal edges,  *)
(* reconciliations derived from their evidence, results consistent.         *)
VerifiedProvenance(l) ==
  /\ Len(l) > 0
  /\ l[1].kind = "ADMISSION_FENCED" /\ l[1].after = "FENCED"
  /\ \A i \in 2..Len(l) : l[i].after \in Transitions[l[i-1].after]
  /\ \A i \in 1..Len(l) :
       /\ l[i].kind = "RECONCILIATION" =>
            /\ DerivedFromObservation(l[i].after, l[i], l[i].obs, AckedBy(l, i-1))
            /\ CarriesSettlement(l[i].after, l[i].st)
       /\ l[i].kind = "PROVIDER_RESULT" =>
            l[i].after = IF l[i].acked THEN "IN_FLIGHT" ELSE "UNKNOWN_EFFECT"

(* The database's own rules, as triggers on the two tables: an event is     *)
(* accepted on ledger l, and a projection row may move from old to new.     *)
EventGuard(l, e) ==
  /\ CarriesSettlement(e.after, e.st)
  /\ IF l = << >>
     THEN e.kind = "ADMISSION_FENCED" /\ e.after = "FENCED"
     ELSE e.after \in Transitions[l[Len(l)].after]

ProgressGuard(old, new, l) ==
  /\ new.seq = old.seq + 1
  /\ old.attempt => new.attempt
  /\ old.ack => new.ack
  /\ new.seq \in 1..Len(l) /\ l[new.seq].after = new.state

(* verify_projection returns no problem: the projection row is what the     *)
(* ledger says.                                                             *)
VerifiedProjection(p, l) ==
  /\ p.seq = Len(l)
  /\ p.state = l[Len(l)].after
  /\ p.attempt <=> \E i \in 1..Len(l) : l[i].kind = "ATTEMPT_STARTED"
  /\ p.ack <=> AckedBy(l, Len(l))
=============================================================================
