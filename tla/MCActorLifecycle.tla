-------------------------- MODULE MCActorLifecycle --------------------------
(* One actor with one task, two bindings of the task, one line of authority. *)
EXTENDS ActorLifecycle, TLC

CONSTANTS a1, t1, rights, delegation, decision, manager

MCLine == [x \in {rights, delegation, decision} |->
  CASE x = rights -> <<rights>>
    [] x = delegation -> <<rights, delegation>>
    [] x = decision -> <<rights, delegation, decision>>]
MCManagerOf == [x \in {delegation} |-> manager]
MCDecidedTask == [d \in {decision} |-> t1]
MCBindingTask == [b \in Bindings |-> t1]
MCActorOf == [t \in {t1} |-> a1]

\* Nothing tells the sessions apart, nor the bindings of the one task, and no
\* property is a liveness property.
Symmetry == Permutations(Sessions) \cup Permutations(Bindings)
=============================================================================
