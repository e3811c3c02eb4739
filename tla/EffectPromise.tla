---------------------------- MODULE EffectPromise ----------------------------
(***************************************************************************)
(* What the controlled effect executor promises the owner of an admission, *)
(* whatever processes, crashes and messages lie behind it: the provider is *)
(* called once at most; the effect happens only because of that call; and  *)
(* the answer the owner is given is true and stays true. "committed" is    *)
(* given only when the effect is applied, "absent" only when it can never  *)
(* apply any more. The answer may also never come.                         *)
(***************************************************************************)
EXTENDS Naturals

CONSTANT Admissions

VARIABLES
  called,  \* [Admissions -> Nat]: calls the provider received
  effect,  \* [Admissions -> {"open", "applied", "excluded"}]
  answer   \* [Admissions -> {"none", "committed", "absent"}]

promiseVars == <<called, effect, answer>>

PromiseInit ==
  /\ called = [a \in Admissions |-> 0]
  /\ effect = [a \in Admissions |-> "open"]
  /\ answer = [a \in Admissions |-> "none"]

Call(a) ==
  /\ called[a] = 0
  /\ called' = [called EXCEPT ![a] = 1]
  /\ UNCHANGED <<effect, answer>>

Apply(a) ==
  /\ called[a] = 1
  /\ effect[a] = "open"
  /\ effect' = [effect EXCEPT ![a] = "applied"]
  /\ UNCHANGED <<called, answer>>

Exclude(a) ==
  /\ effect[a] = "open"
  /\ effect' = [effect EXCEPT ![a] = "excluded"]
  /\ UNCHANGED <<called, answer>>

AnswerCommitted(a) ==
  /\ answer[a] = "none"
  /\ effect[a] = "applied"
  /\ answer' = [answer EXCEPT ![a] = "committed"]
  /\ UNCHANGED <<called, effect>>

AnswerAbsent(a) ==
  /\ answer[a] = "none"
  /\ effect[a] = "excluded"
  /\ answer' = [answer EXCEPT ![a] = "absent"]
  /\ UNCHANGED <<called, effect>>

PromiseNext ==
  \E a \in Admissions :
    Call(a) \/ Apply(a) \/ Exclude(a) \/ AnswerCommitted(a) \/ AnswerAbsent(a)

PromiseSpec == PromiseInit /\ [][PromiseNext]_promiseVars
=============================================================================
