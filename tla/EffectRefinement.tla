-------------------------- MODULE EffectRefinement --------------------------
(***************************************************************************)
(* The executor implements its promise: the provider's call log is the     *)
(* promise's, its applied history and settlements decide the effect, and   *)
(* the terminal states of the ledger are the answers.                      *)
(***************************************************************************)
EXTENDS EffectExecutor

EffectOf(a) ==
  IF Applied(a) THEN "applied"
  ELSE IF settlement[a] = "SETTLED_ABSENT" THEN "excluded" ELSE "open"

AnswerOf(a) ==
  IF Row(a).state = "COMMITTED_READBACK" THEN "committed"
  ELSE IF Row(a).state = "NO_COMMIT" THEN "absent" ELSE "none"

Promise == INSTANCE EffectPromise WITH
  called <- calls,
  effect <- [a \in Admissions |-> EffectOf(a)],
  answer <- [a \in Admissions |-> AnswerOf(a)]

(* Every step of processes, provider and failures is a step of the promise  *)
(* or changes nothing the owner can tell apart.                             *)
ImplementsPromise == Promise!PromiseSpec
=============================================================================
