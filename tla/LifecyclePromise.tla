-------------------------- MODULE LifecyclePromise --------------------------
(***************************************************************************)
(* What the lifecycle promises the owners of authority and bindings,       *)
(* whatever sessions, locks, lost connections and crashes lie behind it.   *)
(* A task goes from CONSUME over START, its work and FINISH to CLOSE under *)
(* one binding; each of these steps is taken at one instant at which the   *)
(* owners' rows all allow it. Of all bindings of a task one at most is     *)
(* started, the work is done once at most, FINISH says that it was done,   *)
(* and an answer is given only of what happened. Any step may never come.  *)
(***************************************************************************)
EXTENDS Naturals, Sequences

CONSTANTS Tasks, Parents, Bindings, Line, DecidedTask, BindingTask

VARIABLES
  parent,   \* [Parents -> {"none", "ACTIVE", "RETIRED"}]
  bound,    \* [Bindings -> {"none", "ACTIVE", "RETIRED"}]
  done,     \* <<transition, binding>> that were committed
  works,    \* [Tasks -> how often the work was done]
  answers   \* <<transition, binding>> that were said to be committed

authority == <<parent, bound>>
promiseVars == <<authority, done, works, answers>>

Decisions == {x \in Parents : Len(Line[x]) = 3}

Init ==
  /\ parent = [x \in Parents |-> "none"]
  /\ bound = [b \in Bindings |-> "none"]
  /\ done = {} /\ answers = {}
  /\ works = [t \in Tasks |-> 0]

(* Rows are issued once and retired once.                                   *)
Authorise(x) ==
  /\ parent[x] = "none"
  /\ \A i \in 1..(Len(Line[x]) - 1) : parent[Line[x][i]] = "ACTIVE"
  /\ parent' = [parent EXCEPT ![x] = "ACTIVE"]
  /\ UNCHANGED <<bound, done, works, answers>>

Retire(x) ==
  /\ parent[x] = "ACTIVE"
  /\ parent' = [parent EXCEPT ![x] = "RETIRED"]
  /\ UNCHANGED <<bound, done, works, answers>>

Bind(b) ==
  /\ bound[b] = "none"
  /\ \A c \in Bindings : BindingTask[c] = BindingTask[b] => bound[c] # "ACTIVE"
  /\ bound' = [bound EXCEPT ![b] = "ACTIVE"]
  /\ UNCHANGED <<parent, done, works, answers>>

Unbind(b) ==
  /\ bound[b] = "ACTIVE"
  /\ bound' = [bound EXCEPT ![b] = "RETIRED"]
  /\ UNCHANGED <<parent, done, works, answers>>

Rebind(old, b) ==
  /\ bound[old] = "ACTIVE" /\ bound[b] = "none" /\ BindingTask[b] = BindingTask[old]
  /\ bound' = [bound EXCEPT ![old] = "RETIRED", ![b] = "ACTIVE"]
  /\ UNCHANGED <<parent, done, works, answers>>

(* The whole line of a decision for the task, and its binding, are active.  *)
Allowed(b) ==
  /\ bound[b] = "ACTIVE"
  /\ \E d \in Decisions :
       /\ DecidedTask[d] = BindingTask[b]
       /\ \A i \in 1..3 : parent[Line[d][i]] = "ACTIVE"

(* What must have come before.                                              *)
Due(op, b) ==
  CASE op = "CONSUME" -> TRUE
    [] op = "START" ->
         /\ <<"CONSUME", b>> \in done
         /\ \A c \in Bindings : BindingTask[c] = BindingTask[b] => <<"START", c>> \notin done
    [] op = "FINISH" -> <<"START", b>> \in done /\ works[BindingTask[b]] = 1
    [] op = "CLOSE" -> <<"FINISH", b>> \in done

Transit(op, b) ==
  /\ Allowed(b) /\ Due(op, b)
  /\ done' = done \cup {<<op, b>>}
  /\ UNCHANGED <<authority, works, answers>>

Work(b) ==
  /\ <<"START", b>> \in done /\ works[BindingTask[b]] = 0
  /\ works' = [works EXCEPT ![BindingTask[b]] = 1]
  /\ UNCHANGED <<authority, done, answers>>

Answer(op, b) ==
  /\ <<op, b>> \in done
  /\ answers' = answers \cup {<<op, b>>}
  /\ UNCHANGED <<authority, done, works>>

Next ==
  \/ \E x \in Parents : Authorise(x) \/ Retire(x)
  \/ \E b \in Bindings :
       \/ Bind(b) \/ Unbind(b) \/ Work(b)
       \/ \E old \in Bindings : Rebind(old, b)
       \/ \E op \in {"CONSUME", "START", "FINISH", "CLOSE"} : Transit(op, b) \/ Answer(op, b)

Spec == Init /\ [][Next]_promiseVars
=============================================================================
