--------------------------- MODULE EffectProvider ---------------------------
(***************************************************************************)
(* The provider behind the executor, as the synthetic provider of the      *)
(* repository implements the ports: an effect is applied at most once per  *)
(* correlation, a queued effect may commit later, and SETTLED_ABSENT is an *)
(* irrevocable promise that the correlation can never apply. Each action   *)
(* is one provider transaction, serialised per correlation by an advisory  *)
(* lock.                                                                   *)
(***************************************************************************)
EXTENDS EffectLedger

CONSTANTS
  AnyVersion,   \* "no precondition on the target's version"
  PreconditionOf \* [Admissions -> Nat \cup {AnyVersion}]

ASSUME PreconditionAssumption ==
  PreconditionOf \in [Admissions -> Nat \cup {AnyVersion}]

VARIABLES
  history,     \* [Targets -> Seq(Admissions)]: applied correlations, in order
  settlement,  \* [Admissions -> {"NONE", "PENDING", "SETTLED_ABSENT"}]
  queued,      \* the admissions whose grant waits in the slow queue
  calls        \* [Admissions -> Nat]: the provider's own log of calls

providerVars == <<history, settlement, queued, calls>>

ProviderTypeOK ==
  /\ history \in [Targets -> Seq(Admissions)]
  /\ settlement \in [Admissions -> {"NONE", "PENDING", "SETTLED_ABSENT"}]
  /\ queued \subseteq Admissions
  /\ calls \in [Admissions -> Nat]

ProviderInit ==
  /\ history = [t \in Targets |-> << >>]
  /\ settlement = [a \in Admissions |-> "NONE"]
  /\ queued = {}
  /\ calls = [a \in Admissions |-> 0]

-----------------------------------------------------------------------------
Applied(a) == Occurs(a, history[TargetOf[a]])

(* A correlation that was applied or settled absent: nothing is open. *)
Final(a) == Applied(a) \/ settlement[a] = "SETTLED_ABSENT"

(* Mutant: the effect ignores a settlement. *)
MutantIgnoresSettlement(a) ==
  /\ ~Applied(a)
  /\ PreconditionOf[a] \in {AnyVersion, Len(history[TargetOf[a]])}

(* _effect goes through: not settled, not applied, precondition met. *)
Applicable(a) ==
  /\ ~Final(a)
  /\ PreconditionOf[a] \in {AnyVersion, Len(history[TargetOf[a]])}

(* The effect transaction: bump the target, log the correlation, drop the  *)
(* correlation's settlement row (and with it the queued grant).            *)
Effect(a) ==
  /\ Applicable(a)
  /\ history' = [history EXCEPT ![TargetOf[a]] = Append(@, a)]
  /\ settlement' = [settlement EXCEPT ![a] = "NONE"]
  /\ queued' = queued \ {a}
  /\ UNCHANGED calls

(* Every call is logged in its own transaction before anything else. *)
LogCall(a) ==
  /\ calls' = [calls EXCEPT ![a] = @ + 1]
  /\ UNCHANGED <<history, settlement, queued>>

(* mode delay_commit: insert a PENDING row unless the correlation has one. *)
Enqueue(a) ==
  /\ IF settlement[a] = "NONE"
     THEN /\ settlement' = [settlement EXCEPT ![a] = "PENDING"]
          /\ queued' = queued \cup {a}
     ELSE UNCHANGED <<settlement, queued>>
  /\ UNCHANGED <<history, calls>>

(* mode reject_definite: the refusal is settled durably. *)
Reject(a) ==
  /\ settlement' = [settlement EXCEPT ![a] = "SETTLED_ABSENT"]
  /\ UNCHANGED <<history, queued, calls>>

(* The slow queue finally commits. *)
Deliver(a) ==
  /\ a \in queued
  /\ Effect(a)

(* The provider fences the correlation on its own initiative. *)
SettleAbsent(a) ==
  /\ ~Final(a)
  /\ Reject(a)

(* What read_settlement answers when the provider is trusted and reachable. *)
SettlementNow(a) ==
  [read |-> TRUE, authoritative |-> TRUE, authenticated |-> TRUE,
   status |-> CASE Applied(a) -> "APPLIED"
                [] ~Applied(a) /\ settlement[a] = "NONE" -> "UNKNOWN"
                [] OTHER -> settlement[a]]

(* What read_target_state answers: version and artifact read at mark, the   *)
(* applied history now.                                                     *)
ObservationNow(a, mark) ==
  [read |-> TRUE, authoritative |-> TRUE, complete |-> TRUE,
   mark |-> mark, history |-> history[TargetOf[a]]]
=============================================================================
