---------------------------- MODULE ControlState ----------------------------
(***************************************************************************)
(* The control context state service on PostgreSQL: begin_event,           *)
(* complete_event and bind_session as transactions that lock the rows they *)
(* use one at a time. begin locks the session and then the project,        *)
(* complete the event, the project and then the session; the database      *)
(* breaks the wait cycles this allows by rolling one transaction back.     *)
(* A call may be answered, refused, cut off before its COMMIT or lose the  *)
(* answer of a COMMIT that is durable; the client then calls again.        *)
(* A call that still waits for its first lock holds nothing and has        *)
(* changed nothing: it is not distinguished from one that is not made yet. *)
(***************************************************************************)
EXTENDS ControlTree, FiniteSets

CONSTANTS
  Workers,      \* calls under way at once, each with its own connection
  Sessions,     \* control sessions of the project
  Principals,
  Requests,     \* begin requests: one event_id under one idempotency_key
  Keys, Ids,    \* idempotency_key and event_id, unique within a session
  PrincipalOf,  \* [Sessions -> Principals]
  SessionOf,    \* [Requests -> Sessions]
  KeyOf, IdOf,  \* [Requests -> Keys], [Requests -> Ids]
  Directives,   \* what a completion may ask for
  NoDirective, None, Keep,
  ProjectRow    \* the project's row in the lock table

\* focus and binding: the net effect of the session operations of a directive.
DirectiveType == [ops : Seq(Operations), focus : Contexts \cup {Keep},
                  binding : Contexts \cup {NoContext, Keep}]
Rows == {ProjectRow} \cup Sessions \cup Requests

ASSUME ServiceAssumption ==
  /\ PrincipalOf \in [Sessions -> Principals]
  /\ SessionOf \in [Requests -> Sessions]
  /\ KeyOf \in [Requests -> Keys] /\ IdOf \in [Requests -> Ids]
  /\ Directives \subseteq DirectiveType /\ NoDirective \notin Directives
  /\ None \notin Requests \cup Sessions /\ Keep \notin Contexts \cup {NoContext}
  /\ ProjectRow \notin Sessions \cup Requests /\ Sessions \cap Requests = {}
  /\ IsFiniteSet(Requests)

VARIABLES
  project,  \* cerebro_project_instances with its contexts
  session,  \* [Sessions -> cerebro_control_session_bindings, continuation binding]
  event,    \* [Requests -> cerebro_control_events]
  held,     \* [Workers -> row locks of its transaction]
  tx,       \* [Workers -> the call under way]
  told      \* history: [Requests -> the completion a client was last told]

rows == <<project, session, event>>
vars == <<rows, held, tx, told>>

SessionRows == [bound : BOOLEAN, prev : Nat, rev : Nat, focus : Contexts,
                binding : Contexts \cup {NoContext}]
Completions == [prev : Nat, srev : Nat]

\* prev, srev: the revisions the event was begun on; after: those it left.
EventRows == [state : {"NONE", "OPEN", "COMPLETED"}, prev : Nat, srev : Nat,
              after : Completions]

Unbound == [bound |-> FALSE, prev |-> 0, rev |-> 0, focus |-> Root, binding |-> NoContext]
NotDone == [prev |-> 0, srev |-> 0]
NotBegun == [state |-> "NONE", prev |-> 0, srev |-> 0, after |-> NotDone]

\* p, f: the project and the session as the transaction has written them;
\* k: operations applied so far.
Steps == {"idle", "bind", "found", "session", "begin", "collision",
          "project", "focus", "others", "apply", "commit"}
Calls == [pc : Steps, call : {"none", "bind", "begin", "replay", "complete"},
          s : Sessions \cup {None}, q : Requests \cup {None},
          d : Directives \cup {NoDirective},
          k : Nat, p : Projects, f : SessionRows]
Idle == [pc |-> "idle", call |-> "none", s |-> None, q |-> None, d |-> NoDirective,
         k |-> 0, p |-> Bootstrapped, f |-> Unbound]

TypeOK ==
  /\ project \in Projects
  /\ session \in [Sessions -> SessionRows]
  /\ event \in [Requests -> EventRows]
  /\ held \in [Workers -> SUBSET Rows]
  /\ tx \in [Workers -> Calls]
  /\ told \in [Requests -> Completions]

Init ==
  /\ project = Bootstrapped
  /\ session = [s \in Sessions |-> Unbound]
  /\ event = [q \in Requests |-> NotBegun]
  /\ held = [w \in Workers |-> {}]
  /\ tx = [w \in Workers |-> Idle]
  /\ told = [q \in Requests |-> NotDone]

Stored(q) == event[q].state # "NONE"
Free(r) == \A v \in Workers : r \notin held[v]
Take(w, r) == Free(r) /\ held' = [held EXCEPT ![w] = @ \cup {r}]
Goto(w, pc) == tx' = [tx EXCEPT ![w].pc = pc]
AtStep(w, pc) == tx[w].pc = pc

FitsProject(f, p) ==
  /\ f.bound /\ f.prev = p.rev
  /\ IsOpen(p, f.focus)
  /\ f.binding \in {NoContext, f.focus}

-----------------------------------------------------------------------------
(* bind_session. The row of a session that is bound already is returned     *)
(* as it is; only the first bind writes.                                    *)

BindCall(w, s) ==
  /\ AtStep(w, "idle") /\ ~session[s].bound
  /\ tx' = [tx EXCEPT ![w] = [Idle EXCEPT !.pc = "bind", !.call = "bind", !.s = s]]
  /\ UNCHANGED <<rows, held, told>>

\* The session bound to the project as it is, which is now locked. The insert
\* does nothing when another bind was first: the call then waits for that row
\* and returns it (Refused).
BindProject(w) ==
  /\ AtStep(w, "bind")
  /\ Take(w, ProjectRow)
  /\ tx' = [tx EXCEPT ![w].pc = IF session[tx[w].s].bound THEN "found" ELSE "commit",
              ![w].f = [bound |-> TRUE, prev |-> project.rev, rev |-> 1,
                         focus |-> project.default, binding |-> NoContext]]
  /\ UNCHANGED <<rows, told>>

-----------------------------------------------------------------------------
(* begin_event.                                                             *)

\* The requests that took the key, or the id, of q.
SameKeyAs(q) == {r \in Requests : Stored(r) /\ SessionOf[r] = SessionOf[q] /\ KeyOf[r] = KeyOf[q]}
SameIdAs(q) == {r \in Requests : Stored(r) /\ SessionOf[r] = SessionOf[q] /\ IdOf[r] = IdOf[q]}

\* No event has this key: nothing is locked yet.
BeginCall(w, q) ==
  /\ AtStep(w, "idle")
  /\ SameKeyAs(q) = {}
  /\ tx' = [tx EXCEPT ![w] = [Idle EXCEPT !.pc = "session", !.call = "begin",
                                          !.s = SessionOf[q], !.q = q]]
  /\ UNCHANGED <<rows, held, told>>

BeginSession(w) ==
  /\ AtStep(w, "session") /\ session[tx[w].s].bound
  /\ Take(w, tx[w].s)
  /\ Goto(w, "begin")
  /\ UNCHANGED <<rows, told>>

\* rehydrate_control_session, for a focus a on project p.
Sees(old, p, a) ==
  IF old.prev = p.rev THEN a = old.focus ELSE IsNearestOpen(p, old.focus, a)
\* The revision goes up although the session is current.
MutantRehydrated(old, p, a) ==
  [old EXCEPT !.prev = p.rev, !.rev = @ + 1, !.focus = a,
     !.binding = IF a = old.focus /\ @ = a THEN @ ELSE NoContext]

Rehydrated(old, p, a) ==
  IF old.prev = p.rev THEN old
  ELSE [old EXCEPT !.prev = p.rev, !.rev = @ + 1, !.focus = a,
          !.binding = IF a = old.focus /\ @ = a THEN @ ELSE NoContext]

\* The session is rehydrated and the event inserted, unless its key was taken
\* while this call waited for its locks. An id under another key is refused.
BeginProject(w) == \E a \in Contexts :
  LET old == session[tx[w].s]
      q == tx[w].q IN
  /\ AtStep(w, "begin")
  /\ Sees(old, project, a) /\ FitsProject(Rehydrated(old, project, a), project)
  /\ SameKeyAs(q) # {} \/ SameIdAs(q) = {}
  /\ Take(w, ProjectRow)
  /\ tx' = [tx EXCEPT ![w].pc = IF SameKeyAs(q) # {} THEN "collision" ELSE "commit",
              ![w].f = Rehydrated(old, project, a)]
  /\ UNCHANGED <<rows, told>>

\* The colliding event is locked and answered for; what rehydration wrote of
\* the session is committed with that answer.
BeginCollision(w) ==
  /\ AtStep(w, "collision") /\ Stored(tx[w].q)
  /\ Take(w, tx[w].q)
  /\ tx' = [tx EXCEPT ![w].pc = "commit", ![w].call = "replay"]
  /\ UNCHANGED <<rows, told>>

\* Either call finds the event completed, by this very request.
Replay(w, q) ==
  /\ AtStep(w, "idle") /\ event[q].state = "COMPLETED" /\ Free(q)
  /\ told' = [told EXCEPT ![q] = event[q].after]
  /\ UNCHANGED <<rows, held, tx>>

-----------------------------------------------------------------------------
(* complete_event.                                                          *)

CompleteCall(w, q) ==
  /\ AtStep(w, "idle") /\ event[q].state = "OPEN"
  /\ Take(w, q)
  /\ tx' = [tx EXCEPT ![w] = [Idle EXCEPT !.pc = "project", !.call = "complete",
                                          !.s = SessionOf[q], !.q = q]]
  /\ UNCHANGED <<rows, told>>

CompleteProject(w) ==
  /\ AtStep(w, "project")
  /\ Take(w, ProjectRow)
  /\ Goto(w, "focus")
  /\ UNCHANGED <<rows, told>>

\* The revisions the event was begun on are not looked at.
MutantOnItsBasis(q) == FitsProject(session[SessionOf[q]], project)

\* Project and session must be what the event was begun on.
OnItsBasis(q) ==
  /\ event[q].prev = project.rev /\ event[q].srev = session[SessionOf[q]].rev
  /\ FitsProject(session[SessionOf[q]], project)

\* The directive d came with the call and is used from here on.
CompleteSession(w, d) ==
  /\ AtStep(w, "focus") /\ OnItsBasis(tx[w].q)
  /\ Take(w, tx[w].s)
  /\ tx' = [tx EXCEPT ![w].pc = "others", ![w].d = d]
  /\ UNCHANGED <<rows, told>>

\* Only cancelling is seen to end a context.
MutantEndedBy(d) ==
  {d.ops[i].ctx : i \in {j \in 1..Len(d.ops) : d.ops[j].op = "CANCEL_CONTEXT"}}

\* Other sessions of the principal whose focus the directive would end.
EndedBy(d) == {d.ops[i].ctx : i \in {j \in 1..Len(d.ops) : d.ops[j].op \in Endings}}
Peers(s, d) ==
  {t \in Sessions \ {s} : /\ PrincipalOf[t] = PrincipalOf[s]
                          /\ session[t].bound /\ session[t].focus \in EndedBy(d)}

\* _assert_no_other_session_invalidated reads such rows FOR SHARE: it waits
\* for one that is locked and refuses the call for one that is not.
NoPeerInvalidated(w) ==
  /\ AtStep(w, "others") /\ Peers(tx[w].s, tx[w].d) = {}
  /\ tx' = [tx EXCEPT ![w].pc = "apply", ![w].p = project, ![w].f = session[tx[w].s]]
  /\ UNCHANGED <<rows, held, told>>

ApplyOperation(w) == LET o == tx[w].d.ops[tx[w].k + 1] IN
  /\ AtStep(w, "apply") /\ tx[w].k < Len(tx[w].d.ops)
  /\ Legal(tx[w].p, o)
  /\ tx' = [tx EXCEPT ![w].p = After(@, o), ![w].k = @ + 1]
  /\ UNCHANGED <<rows, held, told>>

IsEmpty(d) == d.ops = <<>> /\ d.focus = Keep /\ d.binding = Keep
Revised(p, d) == IF d.ops = <<>> THEN p ELSE [p EXCEPT !.rev = @ + 1]
Refocused(f, p, d) ==
  IF IsEmpty(d) THEN f
  ELSE [f EXCEPT !.prev = p.rev, !.rev = @ + 1,
          !.focus = IF d.focus = Keep THEN @ ELSE d.focus,
          !.binding = IF d.binding = Keep THEN @ ELSE d.binding]
HasDelta(f, d) == d.focus # f.focus /\ ~(d.binding = NoContext /\ f.binding = NoContext)

\* Session operations, new revisions and the validation of both aggregates.
Finished(w) ==
  LET p == Revised(tx[w].p, tx[w].d) IN
  [p |-> p, f |-> Refocused(tx[w].f, p, tx[w].d)]

Acceptable(w) ==
  /\ HasDelta(tx[w].f, tx[w].d)
  /\ ValidProject(Finished(w).p) /\ FitsProject(Finished(w).f, Finished(w).p)

FinishDirective(w) ==
  /\ AtStep(w, "apply") /\ tx[w].k = Len(tx[w].d.ops) /\ Acceptable(w)
  /\ tx' = [tx EXCEPT ![w].pc = "commit", ![w].p = Finished(w).p, ![w].f = Finished(w).f]
  /\ UNCHANGED <<rows, held, told>>

-----------------------------------------------------------------------------
(* The end of a transaction. Its result leaves _transaction only after      *)
(* COMMIT has returned; answered is FALSE when the answer is lost.          *)

Release(w) ==
  /\ held' = [held EXCEPT ![w] = {}]
  /\ tx' = [tx EXCEPT ![w] = Idle]

CommitBind(w) ==
  /\ AtStep(w, "commit") /\ tx[w].call = "bind"
  /\ session' = [session EXCEPT ![tx[w].s] = tx[w].f]
  /\ Release(w)
  /\ UNCHANGED <<project, event, told>>

CommitBegin(w) ==
  /\ AtStep(w, "commit") /\ tx[w].call = "begin"
  /\ session' = [session EXCEPT ![tx[w].s] = tx[w].f]
  /\ event' = [event EXCEPT ![tx[w].q] =
                 [NotBegun EXCEPT !.state = "OPEN", !.prev = project.rev, !.srev = tx[w].f.rev]]
  /\ Release(w)
  /\ UNCHANGED <<project, told>>

CommitReplay(w, answered) == LET e == event[tx[w].q] IN
  /\ AtStep(w, "commit") /\ tx[w].call = "replay"
  /\ session' = [session EXCEPT ![tx[w].s] = tx[w].f]
  /\ told' = IF answered /\ e.state = "COMPLETED" THEN [told EXCEPT ![tx[w].q] = e.after] ELSE told
  /\ Release(w)
  /\ UNCHANGED <<project, event>>

\* The session is not written with the project.
MutantCommitComplete(w, answered) ==
  LET t == tx[w] IN \E after \in {[prev |-> t.p.rev, srev |-> t.f.rev]} :
  /\ AtStep(w, "commit") /\ t.call = "complete"
  /\ project' = t.p
  /\ event' = [event EXCEPT ![t.q].state = "COMPLETED", ![t.q].after = after]
  /\ told' = IF answered THEN [told EXCEPT ![t.q] = after] ELSE told
  /\ Release(w)
  /\ UNCHANGED session

CommitComplete(w, answered) ==
  LET t == tx[w] IN \E after \in {[prev |-> t.p.rev, srev |-> t.f.rev]} :
  /\ AtStep(w, "commit") /\ t.call = "complete"
  /\ project' = t.p
  /\ session' = [session EXCEPT ![t.s] = t.f]
  /\ event' = [event EXCEPT ![t.q].state = "COMPLETED", ![t.q].after = after]
  /\ told' = IF answered THEN [told EXCEPT ![t.q] = after] ELSE told
  /\ Release(w)

\* The answer leaves the transaction before COMMIT.
MutantAnswersEarly(w) ==
  /\ told' = IF AtStep(w, "commit") /\ tx[w].call = "complete"
             THEN [told EXCEPT ![tx[w].q] = [prev |-> tx[w].p.rev, srev |-> tx[w].f.rev]] ELSE told
  /\ Release(w)
  /\ UNCHANGED rows

\* A call that ends in an error leaves its connection in the transaction.
MutantKeepsLocks(w) == tx' = [tx EXCEPT ![w] = Idle] /\ UNCHANGED <<rows, held, told>>

Rollback(w) == Release(w) /\ UNCHANGED <<rows, told>>

\* What the code refuses, by the step at which it does. A directive that is
\* not legal, or whose result is not valid, is refused as a whole. A bind that
\* finds its session bound ends here too: it returns that row.
Refused(w) ==
  LET t == tx[w] IN
  \/ t.pc = "found" /\ Free(t.s)
  \/ t.pc = "session" /\ ~session[t.s].bound
  \/ t.pc = "begin" /\ Free(ProjectRow) /\ SameKeyAs(t.q) = {} /\ SameIdAs(t.q) # {}
  \/ t.pc = "collision" /\ \E r \in SameKeyAs(t.q) \ {t.q} : Free(r)
  \/ t.pc = "focus" /\ Free(t.s) /\ ~OnItsBasis(t.q)
  \/ t.pc = "others" /\ \E u \in Peers(t.s, t.d) : Free(u)
  \/ t.pc = "apply" /\ t.k < Len(t.d.ops) /\ ~Legal(t.p, t.d.ops[t.k + 1])
  \/ t.pc = "apply" /\ t.k = Len(t.d.ops) /\ ~Acceptable(w)
Refuse(w) == Refused(w) /\ Rollback(w)

\* The connection fails, the process dies before COMMIT, or the request is
\* refused for data that the model leaves out.
Fail(w) == ~AtStep(w, "idle") /\ Rollback(w)

\* The rows the transaction may be waiting for.
Wants(w) ==
  LET t == tx[w] IN
  CASE t.pc \in {"bind", "begin", "project"} -> {ProjectRow}
    [] t.pc \in {"found", "session", "focus"} -> {t.s}
    [] t.pc = "collision" -> SameKeyAs(t.q)
    [] t.pc = "others" -> Peers(t.s, t.d)
    [] OTHER -> {}
WaitsFor(w, v) == v # w /\ Wants(w) \cap held[v] # {}

\* Transactions that wait for each other: the database rolls one back, which
\* the caller is told as a conflict.
Victim(w) ==
  /\ \E S \in SUBSET Workers :
       /\ w \in S /\ S # {w}
       /\ \A T \in SUBSET S \ {{}, S} : \E x \in T, y \in S \ T : WaitsFor(x, y)
  /\ Rollback(w)

-----------------------------------------------------------------------------
\* What a call under way does next, if nothing fails.
Advance(w) ==
  \/ BindProject(w) \/ BeginSession(w) \/ BeginProject(w) \/ BeginCollision(w)
  \/ CompleteProject(w) \/ (\E d \in Directives : CompleteSession(w, d)) \/ NoPeerInvalidated(w)
  \/ ApplyOperation(w) \/ FinishDirective(w)
  \/ CommitBind(w) \/ CommitBegin(w)
  \/ \E answered \in BOOLEAN : CommitReplay(w, answered) \/ CommitComplete(w, answered)
  \/ Refuse(w)

Next == \E w \in Workers :
  \/ \E s \in Sessions : BindCall(w, s)
  \/ \E q \in Requests : BeginCall(w, q) \/ Replay(w, q) \/ CompleteCall(w, q)
  \/ Advance(w) \/ Fail(w) \/ Victim(w)

Spec == Init /\ [][Next]_vars

\* Row locks are granted in the order they were asked for, so a wait that is
\* over again and again ends; the database looks for wait cycles.
FairSpec ==
  /\ Spec
  /\ \A w \in Workers : SF_vars(Advance(w))
  /\ WF_vars(\E w \in Workers : Victim(w))

-----------------------------------------------------------------------------
(* Properties.                                                              *)

\* Every revision of the project was made by one completed event, which was
\* begun on the revision before it: a writer never overwrites what it has not
\* seen and an event is applied once (complete_event).
HistoryIsLinear ==
  LET done == {q \in Requests : event[q].state = "COMPLETED"} IN
  /\ \A q \in done : event[q].after.prev \in {event[q].prev, event[q].prev + 1}
                      /\ event[q].after.prev <= project.rev
  /\ \A n \in 2..project.rev : \E q \in done : event[q].prev = n - 1 /\ event[q].after.prev = n
  /\ \A q, r \in done : (q # r /\ event[q].after.prev = event[r].after.prev)
                        => event[q].prev = event[q].after.prev \/ event[r].prev = event[r].after.prev

\* What a client was told of a completion is stored, and is what every retry
\* is told (_transaction, _event_replay).
AnswersAreDurable ==
  \A q \in Requests : told[q] # NotDone =>
    event[q].state = "COMPLETED" /\ event[q].after = told[q]

\* A context that is open or waits for its join is below an open one: no
\* branch is left behind by the end of its parent (_apply_project_operation).
NoBranchIsLost ==
  \A c \in Contexts : Unresolved(project, c) /\ project.parent[c] # NoContext
                       => IsOpen(project, project.parent[c])

\* A session that has seen the last revision has an open focus, and its
\* continuation is bound to that focus (validate_session_state).
CurrentFocusIsOpen ==
  \A s \in Sessions : session[s].bound /\ session[s].prev = project.rev
                       => FitsProject(session[s], project)

Completes(q) == event[q].state = "OPEN" /\ event'[q].state = "COMPLETED"

\* A completion never ends the focus of another session of its principal,
\* however that session's calls interleave (_assert_no_other_session_invalidated).
FocusIsNotEndedByPeer ==
  [][\A q \in Requests, t \in Sessions :
       /\ Completes(q) /\ t # SessionOf[q] /\ PrincipalOf[t] = PrincipalOf[SessionOf[q]]
       /\ session[t].bound /\ IsOpen(project, session[t].focus)
       => IsOpen(project', session[t].focus)]_vars

\* An open event loses its basis only when the project moves or another event
\* of its session completes: not by a begin, a bind or a change of focus
\* elsewhere (rehydrate_control_session, complete_event).
OpenEventsSurvive ==
  [][\A q \in Requests :
       event[q].state = "OPEN" /\ OnItsBasis(q) /\ project'.rev = project.rev
       => \/ OnItsBasis(q)'
          \/ \E r \in Requests : Completes(r) /\ SessionOf[r] = SessionOf[q]]_vars

-----------------------------------------------------------------------------
(* The inductive invariant.                                                 *)

LocksOK ==
  /\ \A v, w \in Workers : v # w => held[v] \cap held[w] = {}
  /\ \A w \in Workers : AtStep(w, "idle") => held[w] = {}

\* A bind that is about to commit still sees its session unbound.
BindOK(w) == LET t == tx[w] IN
  /\ t.pc \in {"bind", "found", "commit"} /\ t.s \in Sessions
  /\ t.pc = "commit" =>
       /\ ProjectRow \in held[w] /\ ~session[t.s].bound
       /\ t.f.rev = 1 /\ t.f.focus = project.default /\ t.f.binding = NoContext
       /\ FitsProject(t.f, project)

\* A begin that has both rows is about to write what rehydration makes of them.
BeginOK(w) == LET t == tx[w] IN
  /\ t.pc \in {"session", "begin", "collision", "commit"}
  /\ t.q \in Requests /\ t.s = SessionOf[t.q]
  /\ t.pc # "session" => t.s \in held[w] /\ session[t.s].bound
  /\ t.pc \in {"collision", "commit"} =>
       /\ ProjectRow \in held[w] /\ t.s \in held[w]
       /\ FitsProject(t.f, project)
       /\ \E a \in Contexts : Sees(session[t.s], project, a)
                              /\ t.f = Rehydrated(session[t.s], project, a)
  /\ t.pc = "commit" /\ t.call = "begin" => event[t.q].state = "NONE"

\* How far the project of the draft is from the stored one.
Drafted(w) == LET t == tx[w] IN
  /\ BranchesHang(t.p) /\ Continues(project, t.p)
  /\ \A c \in Contexts : IsOpen(project, c) /\ ~IsOpen(t.p, c) => c \in EndedBy(t.d)

\* A completion keeps the rows it has tested as they were.
CompleteOK(w) == LET t == tx[w] IN
  /\ t.pc \in {"project", "focus", "others", "apply", "commit"}
  /\ t.q \in Requests /\ t.s = SessionOf[t.q]
  /\ t.q \in held[w] /\ event[t.q].state = "OPEN"
  /\ t.pc # "project" => ProjectRow \in held[w]
  /\ t.pc \in {"project", "focus", "others"} => t.k = 0
  /\ t.pc \in {"others", "apply", "commit"} =>
       t.s \in held[w] /\ OnItsBasis(t.q) /\ t.d \in Directives
  /\ t.pc \in {"apply", "commit"} => Peers(t.s, t.d) = {} /\ Drafted(w)
  /\ t.pc = "apply" => t.p.rev = project.rev /\ t.f = session[t.s] /\ t.k \in 0..Len(t.d.ops)
                        /\ (t.k = 0 => t.p = project)
  /\ t.pc = "commit" =>
       /\ ValidProject(t.p) /\ FitsProject(t.f, t.p)
       /\ t.p = project \/ (t.p.rev = project.rev + 1 /\ t.f.rev = session[t.s].rev + 1)
       /\ t.f = session[t.s] \/ t.f.rev = session[t.s].rev + 1

CallOK(w) ==
  /\ tx[w].call = "none" <=> AtStep(w, "idle")
  /\ tx[w].call = "bind" => BindOK(w)
  /\ tx[w].call \in {"begin", "replay"} => BeginOK(w)
  /\ tx[w].call = "replay" => AtStep(w, "commit")
  /\ tx[w].call = "complete" => CompleteOK(w)

\* Nobody has seen a revision that is not there yet.
RevisionsOK ==
  /\ project.rev >= 1
  /\ \A s \in Sessions : session[s].prev <= project.rev
  /\ \A q \in Requests : event[q].prev <= project.rev
  /\ \A q \in Requests : event[q].state = "COMPLETED" => event[q].prev >= 1

IInv ==
  /\ TypeOK /\ LocksOK /\ RevisionsOK
  /\ \A w \in Workers : CallOK(w)
  /\ ValidProject(project) /\ BranchesHang(project)
  /\ CurrentFocusIsOpen /\ HistoryIsLinear /\ AnswersAreDurable

Promise == INSTANCE ControlPromise

\* Each step is one of the abstract service or a stutter.
ServesPromise == Promise!Spec

\* Every call ends, although begin_event locks session and project in one
\* order and complete_event in the other.
CallsEnd == \A w \in Workers : ~AtStep(w, "idle") ~> AtStep(w, "idle")
=============================================================================
