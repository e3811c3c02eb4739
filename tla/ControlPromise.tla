--------------------------- MODULE ControlPromise ---------------------------
(***************************************************************************)
(* What the control context state service promises: one project, sessions  *)
(* with a focus of their own, and events. An event is begun on the state   *)
(* as it is and completed on that very state or not at all; a completion   *)
(* is one step over project, session and event; what has ended stays so.   *)
(***************************************************************************)
EXTENDS ControlTree

CONSTANTS Sessions, Requests, SessionOf, Directives, NoDirective

VARIABLES project, session, event
vars == <<project, session, event>>

Unbound == [bound |-> FALSE, prev |-> 0, rev |-> 0, focus |-> Root, binding |-> NoContext]
NotBegun == [state |-> "NONE", prev |-> 0, srev |-> 0,
             after |-> [prev |-> 0, srev |-> 0]]

Init ==
  /\ project = Bootstrapped
  /\ session = [s \in Sessions |-> Unbound]
  /\ event = [q \in Requests |-> NotBegun]

\* A session is current when it has seen the last revision of the project.
FitsProject(f, p) ==
  /\ f.bound /\ f.prev = p.rev
  /\ IsOpen(p, f.focus)
  /\ f.binding \in {NoContext, f.focus}

\* One revision later nothing that ended is open again and no context is lost
\* or moved.
Succeeds(p, p2) == p2.rev = p.rev + 1 /\ ValidProject(p2) /\ Continues(p, p2)

Bind(s) ==
  /\ ~session[s].bound
  /\ \E f \in {[bound |-> TRUE, prev |-> project.rev, rev |-> 1,
                focus |-> project.default, binding |-> NoContext]} :
       session' = [session EXCEPT ![s] = f]
  /\ UNCHANGED <<project, event>>

\* The focus moves only when the project has moved, and only up.
Rehydrates(s, f) ==
  IF session[s].prev = project.rev THEN f = session[s]
  ELSE /\ f.rev = session[s].rev + 1
       /\ FitsProject(f, project)
       /\ IsNearestOpen(project, session[s].focus, f.focus)

Begin(q) == \E f \in {session'[SessionOf[q]]} :
  /\ session[SessionOf[q]].bound
  /\ Rehydrates(SessionOf[q], f)
  /\ session' = [session EXCEPT ![SessionOf[q]] = f]
  /\ event[q].state = "NONE"
  /\ event' = [event EXCEPT ![q] = [NotBegun EXCEPT !.state = "OPEN",
                                      !.prev = project.rev, !.srev = f.rev]]
  /\ UNCHANGED project

Rehydrate(s) == \E f \in {session'[s]} :
  /\ session[s].bound
  /\ Rehydrates(s, f)
  /\ session' = [session EXCEPT ![s] = f]
  /\ UNCHANGED <<project, event>>

Complete(q) == \E s \in {SessionOf[q]}, d \in Directives :
  /\ event[q].state = "OPEN"
  /\ event[q].prev = project.rev /\ event[q].srev = session[s].rev
  /\ FitsProject(session[s], project)
  /\ project' = project \/ Succeeds(project, project')
  /\ FitsProject(session'[s], project')
  /\ session' = [session EXCEPT ![s] = session'[s]]
  /\ session'[s] = session[s] \/ session'[s].rev = session[s].rev + 1
  /\ event' = [event EXCEPT ![q].state = "COMPLETED",
                 ![q].after = [prev |-> project'.rev, srev |-> session'[s].rev]]

Next ==
  \/ \E s \in Sessions : Bind(s) \/ Rehydrate(s)
  \/ \E q \in Requests : Begin(q) \/ Complete(q)

Spec == Init /\ [][Next]_vars
=============================================================================
