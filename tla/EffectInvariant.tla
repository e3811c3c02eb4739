--------------------------- MODULE EffectInvariant ---------------------------
(***************************************************************************)
(* The inductive invariants behind the executor's safety properties, as    *)
(* conjunctions of named parts: who may call and what the provider then    *)
(* does (IInv), what the ledger says (LedgerInv), who is active            *)
(* (ActiveInv). EffectExecutorProofs and EffectLedgerProofs prove them for *)
(* every value of the constants.                                           *)
(***************************************************************************)
EXTENDS EffectRefinement

Started(a) == Row(a).state # "FENCED"

(* Between the reservation and the provider's answer. *)
InCall(w) == Self(w).pc \in {"reserved", "calling", "inside"}

AttemptInv == \A a \in Admissions : Row(a).attempt <=> Started(a)

CallInv ==
  \A a \in Admissions : calls[a] <= 1 /\ (calls[a] = 1 => Started(a))

(* Past the reservation, and in every call that looks at an attempt, the    *)
(* attempt is started.                                                      *)
StartedInv ==
  \A w \in Workers :
    Self(w).pc \notin {"idle", "begin", "declare"} => Started(Adm(w))

(* The thread that holds the reservation has not called yet, or is inside   *)
(* the one call, whose effect is still open; no second thread holds it.     *)
CallerInv ==
  \A w \in Workers : InCall(w) =>
    /\ calls[Adm(w)] = (IF Self(w).pc = "inside" THEN 1 ELSE 0)
    /\ Adm(w) \notin queued
    /\ ~Applied(Adm(w))

OneCallerInv ==
  \A v, w \in Workers : InCall(v) /\ InCall(w) /\ Adm(v) = Adm(w) => v = w

QueueInv == \A a \in queued : calls[a] = 1

(* An applied correlation came from the call and is not settled absent. *)
AppliedInv ==
  \A a \in Admissions :
    Applied(a) => calls[a] = 1 /\ settlement[a] # "SETTLED_ABSENT"

(* What a thread has read stays true: settlement is irrevocable, the        *)
(* applied history only grows.                                              *)
EvidenceInv ==
  \A w \in Workers :
    /\ (Self(w).st.read /\ Self(w).st.status = "SETTLED_ABSENT")
         => settlement[Adm(w)] = "SETTLED_ABSENT"
    /\ (Self(w).obs.read /\ Occurs(Adm(w), Self(w).obs.history))
         => Applied(Adm(w))

CallPart     == AttemptInv /\ CallInv /\ StartedInv /\ CallerInv /\ OneCallerInv
ProviderPart == QueueInv /\ AppliedInv
AnswerPart   == EvidenceInv /\ NoCommitIsFinal /\ CommittedIsApplied

IInv == TypeOK /\ CallPart /\ ProviderPart /\ AnswerPart

-----------------------------------------------------------------------------
(* A row that is IN_FLIGHT without an ack has no result on record: a result *)
(* without an ack has left that state for good.                             *)
ResultInv ==
  \A a \in Admissions :
    (Row(a).state \in {"FENCED", "IN_FLIGHT"} /\ ~Row(a).ack) =>
      \A i \in 1..Len(ledger[a]) : ledger[a][i].kind # "PROVIDER_RESULT"

(* A snapshot is never ahead of its row, and tells the truth about it until *)
(* the row moves: the sequence number stands for the row.                   *)
SnapshotInv ==
  \A w \in Workers :
    /\ Self(w).seen.seq <= Row(Adm(w)).seq
    /\ Self(w).seen.seq = Row(Adm(w)).seq =>
         /\ Self(w).seen.state = Row(Adm(w)).state
         /\ Self(w).seen.ack <=> Row(Adm(w)).ack

LedgerInv ==
  TypeOK /\ LedgerVerifies /\ ResultInv /\ SnapshotInv /\ LedgerIsHonest

-----------------------------------------------------------------------------
(* The thread won the reservation of its admission. *)
Holds(w) == Self(w).op = "execute" /\ Self(w).pc # "begin"

(* An idle thread has no call, and only an execute reserves.                *)
OpInv ==
  \A w \in Workers :
    /\ At(w, "idle") => Self(w).op = "none"
    /\ At(w, "declare") => Self(w).op = "declare"
    /\ At(w, "begin") \/ At(w, "reserved") => Self(w).op = "execute"

(* One thread at most ever holds an admission: the reservation is lost with *)
(* the thread, never handed on.                                             *)
HolderInv ==
  \A v, w \in Workers : Holds(v) /\ Holds(w) /\ Adm(v) = Adm(w) => v = w

ActiveInv == TypeOK /\ StartedInv /\ OpInv /\ HolderInv /\ ActiveIsExact
=============================================================================
