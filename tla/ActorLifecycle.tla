--------------------------- MODULE ActorLifecycle ---------------------------
(***************************************************************************)
(* The natural actor lifecycle on PostgreSQL: the aggregate of each actor, *)
(* the owner's chain of rights, delegation and decision, the binding of a  *)
(* task, and the episodes that consume, start, finish and close it. Every  *)
(* transition is a transaction that locks actor, chain and binding in this *)
(* order; owners lock a prefix of the same chain. A connection may be lost *)
(* while its COMMIT is on the way: the transaction then lands or not, and  *)
(* the client learns nothing but what it reads back.                       *)
(***************************************************************************)
EXTENDS Naturals, Sequences, FiniteSets

CONSTANTS
  Actors, Tasks,
  Parents,      \* rows of pm_authority: rights, delegations, decisions
  Bindings,     \* binding_ref
  Sessions,     \* processes running WorkerEpisodeRunner or calling the lifecycle
  Owners,       \* sessions of the issuers of pm_authority
  Line,         \* [Parents -> <<rights>>, <<rights, delegation>> or all three]
  ManagerOf,    \* [delegations -> PM actor and generation they name]
  DecidedTask,  \* [decisions -> Tasks]
  BindingTask,  \* [Bindings -> Tasks]
  ActorOf,      \* [Tasks -> Actors]
  Nobody,       \* holds the rows that are not locked
  None,         \* no task, no binding, no decision
  MaxFaults     \* bound: lost connections and crashes

Delegations == {x \in Parents : Len(Line[x]) = 2}
Decisions == {x \in Parents : Len(Line[x]) = 3}
Rows == Actors \cup Parents \cup Bindings
Holders == Sessions \cup Owners \cup {Nobody}

\* The last row of a line is the row itself; a line extends the line above it.
ASSUME LineAssumption ==
  /\ Line \in [Parents -> Seq(Parents)]
  /\ \A x \in Parents :
       /\ Len(Line[x]) \in 1..3
       /\ \A i \in 1..Len(Line[x]) : Line[Line[x][i]] = SubSeq(Line[x], 1, i)
       /\ Line[x][Len(Line[x])] = x

ASSUME RowAssumption ==
  /\ DOMAIN ManagerOf = Delegations /\ DecidedTask \in [Decisions -> Tasks]
  /\ BindingTask \in [Bindings -> Tasks] /\ ActorOf \in [Tasks -> Actors]
  /\ Actors \cap (Parents \cup Bindings) = {} /\ Parents \cap Bindings = {}
  /\ Sessions \cap Owners = {} /\ Nobody \notin Sessions \cup Owners
  /\ None \notin Tasks \cup Bindings \cup Parents
  /\ MaxFaults \in Nat

VARIABLES
  actor,    \* [Actors -> aggregate]: nal.actor_state with its ledgers
  parent,   \* [Parents -> status of the row in pm_authority]
  binding,  \* [Bindings -> row of pm_binding.current_binding]
  holder,   \* [Rows -> who holds the row lock]
  session,  \* [Sessions -> an episode and its transaction]
  owner,    \* [Owners -> an issue or a retirement under way]
  faults,   \* lost connections and crashes so far
  works,    \* history: [Tasks -> how often the local work was done]
  done,     \* history: transitions that were committed
  answers   \* history: transitions a read-back said were committed

ownerVars == <<parent, binding, owner>>
historyVars == <<works, done, answers>>
vars == <<actor, ownerVars, holder, session, faults, historyVars>>

Statuses == {"NONE", "ADMITTED", "CONSUMED", "STARTED", "TERMINAL", "CLOSED"}
Transitions == {"CONSUME", "START", "FINISH", "CLOSE"}

\* marks: consume_ref and start_ref, where they are set. terminal: whose
\* reference task.terminal_ref holds. A receipt stands for its
\* outbox intent as well; both are written by the same statement sequence.
Aggregates == [registered : BOOLEAN, ready : BOOLEAN, task : Tasks \cup {None},
               decision : Decisions \cup {None}, status : Statuses,
               marks : SUBSET {"CONSUME", "START"},
               binding : Bindings \cup {None}, issued : SUBSET Bindings, terminal : {"none", "occurrence", "report"},
               terminals : SUBSET Bindings, receipts : SUBSET Bindings,
               delivered : SUBSET Bindings, reports : SUBSET Tasks, closed : SUBSET Tasks]
Unregistered == [registered |-> FALSE, ready |-> FALSE, task |-> None, decision |-> None,
                 status |-> "NONE", marks |-> {}, binding |-> None, issued |-> {}, terminal |-> "none",
                 terminals |-> {}, receipts |-> {}, delivered |-> {}, reports |-> {}, closed |-> {}]

RowStates == {"none", "ACTIVE", "RETIRED"}
BindingRows == [status : RowStates, supersedes : Bindings \cup {None}]

\* locked: how many rows of the line are locked; new: the aggregate it wrote;
\* episode: the whole run, not a single close.
Idle == [pc |-> "idle", op |-> "CONSUME", b |-> None, d |-> None, locked |-> 0,
         episode |-> FALSE, new |-> Unregistered]
SessionStates == {"idle", "ready", "locking", "drafted", "committing", "readback",
                  "work", "verify", "lost", "told", "asking"}
SessionRecords == [pc : SessionStates, op : Transitions, b : Bindings \cup {None},
                   d : Decisions \cup {None}, locked : 0..3, episode : BOOLEAN, new : Aggregates]
Resting == [op |-> "none", x |-> None, locked |-> 0]
OwnerRecords == [op : {"none", "issue", "retire"}, x : Parents \cup {None}, locked : 0..3]

TypeOK ==
  /\ actor \in [Actors -> Aggregates]
  /\ parent \in [Parents -> RowStates]
  /\ binding \in [Bindings -> BindingRows]
  /\ holder \in [Rows -> Holders]
  /\ session \in [Sessions -> SessionRecords]
  /\ owner \in [Owners -> OwnerRecords]
  /\ faults \in Nat
  /\ works \in [Tasks -> Nat]
  /\ done \subseteq Transitions \X Bindings
  /\ answers \subseteq Transitions \X Bindings

Init ==
  /\ actor = [a \in Actors |-> Unregistered]
  /\ parent = [x \in Parents |-> "none"]
  /\ binding = [b \in Bindings |-> [status |-> "none", supersedes |-> None]]
  /\ holder = [r \in Rows |-> Nobody]
  /\ session = [s \in Sessions |-> Idle]
  /\ owner = [o \in Owners |-> Resting]
  /\ faults = 0
  /\ works = [t \in Tasks |-> 0]
  /\ done = {} /\ answers = {}

ActorFor(b) == ActorOf[BindingTask[b]]
Mine(s) == actor[ActorFor(session[s].b)]
Free(r) == holder[r] = Nobody
Lock(r, who) == holder' = [holder EXCEPT ![r] = who]
Unlocked(who) == [r \in Rows |-> IF holder[r] = who THEN Nobody ELSE holder[r]]
Goto(s, w) == session' = [session EXCEPT ![s] = w]
At(s, pc) == session[s].pc = pc

-----------------------------------------------------------------------------
(* pm_authority: issue and retire (revoke, supersede, expire) lock the line  *)
(* of their row from the top; the row's own insert or update comes last.     *)

\* At most one of these is active: one delegation per mandate and PM generation,
\* one decision per task (the partial unique indexes).
Rivals(x) ==
  {y \in Parents \ {x} :
     /\ Len(Line[y]) = Len(Line[x])
     /\ \/ x \in Delegations /\ Line[y][1] = Line[x][1] /\ ManagerOf[y] = ManagerOf[x]
        \/ x \in Decisions /\ DecidedTask[y] = DecidedTask[x]}

RowsToLock(op, x) == IF op = "issue" THEN Len(Line[x]) - 1 ELSE Len(Line[x])

MutantLocksUpwards(op, x, n) == Line[x][RowsToLock(op, x) + 1 - n]

\* The row that is locked as the n-th one.
OwnerRow(op, x, n) == Line[x][n]

OwnerBegin(o, op, x) ==
  /\ owner[o] = Resting
  /\ parent[x] = (IF op = "issue" THEN "none" ELSE "ACTIVE")
  /\ IF RowsToLock(op, x) = 0
     THEN /\ owner' = [owner EXCEPT ![o] = [op |-> op, x |-> x, locked |-> 0]]
          /\ UNCHANGED holder
     ELSE /\ Free(OwnerRow(op, x, 1)) /\ Lock(OwnerRow(op, x, 1), o)
          /\ owner' = [owner EXCEPT ![o] = [op |-> op, x |-> x, locked |-> 1]]
  /\ UNCHANGED <<actor, parent, binding, session, faults, historyVars>>

OwnerRows(o) == RowsToLock(owner[o].op, owner[o].x)
NextOwnerRow(o) == OwnerRow(owner[o].op, owner[o].x, owner[o].locked + 1)

OwnerLock(o) ==
  /\ owner[o] # Resting
  /\ owner[o].locked < OwnerRows(o)
  /\ Free(NextOwnerRow(o))
  /\ Lock(NextOwnerRow(o), o)
  /\ owner' = [owner EXCEPT ![o].locked = @ + 1]
  /\ UNCHANGED <<actor, parent, binding, session, faults, historyVars>>

\* What the function tests once it holds its rows: for an issue the rows above
\* are active and no rival is, for a retirement the row itself still is.
OwnerAllowed(o) ==
  LET x == owner[o].x IN
  IF owner[o].op = "issue"
  THEN /\ parent[x] = "none"
       /\ \A i \in 1..OwnerRows(o) : parent[Line[x][i]] = "ACTIVE"
       /\ \A y \in Rivals(x) : parent[y] # "ACTIVE"
  ELSE parent[x] = "ACTIVE"

OwnerCommit(o) ==
  /\ owner[o] # Resting
  /\ owner[o].locked = OwnerRows(o)
  /\ OwnerAllowed(o)
  /\ parent' = [parent EXCEPT ![owner[o].x] = IF owner[o].op = "issue" THEN "ACTIVE" ELSE "RETIRED"]
  /\ holder' = Unlocked(o)
  /\ owner' = [owner EXCEPT ![o] = Resting]
  /\ UNCHANGED <<actor, binding, session, faults, historyVars>>

\* RAISE EXCEPTION rolls the function back.
OwnerRefused(o) ==
  /\ owner[o] # Resting
  /\ owner[o].locked = OwnerRows(o)
  /\ ~OwnerAllowed(o)
  /\ holder' = Unlocked(o)
  /\ owner' = [owner EXCEPT ![o] = Resting]
  /\ UNCHANGED <<actor, parent, binding, session, faults, historyVars>>

(* pm_binding: each function locks one row and ends; the partial unique     *)
(* index allows one active binding of a task.                               *)

ActiveBinding(b) == binding[b].status = "ACTIVE"
NoActiveBinding(t) == \A b \in Bindings : BindingTask[b] = t => ~ActiveBinding(b)

IssueRow(b) ==
  /\ binding[b].status = "none"
  /\ NoActiveBinding(BindingTask[b])
  /\ binding' = [binding EXCEPT ![b].status = "ACTIVE"]
  /\ UNCHANGED <<actor, parent, owner, holder, session, faults, historyVars>>

RevokeRow(b) ==
  /\ ActiveBinding(b) /\ Free(b)
  /\ binding' = [binding EXCEPT ![b].status = "RETIRED"]
  /\ UNCHANGED <<actor, parent, owner, holder, session, faults, historyVars>>

SupersedeRow(old, b) ==
  /\ ActiveBinding(old) /\ Free(old)
  /\ binding[b].status = "none" /\ BindingTask[b] = BindingTask[old]
  /\ binding' = [binding EXCEPT ![old].status = "RETIRED",
                                ![b] = [status |-> "ACTIVE", supersedes |-> old]]
  /\ UNCHANGED <<actor, parent, owner, holder, session, faults, historyVars>>

-----------------------------------------------------------------------------
(* Transitions of one actor that need no fence: apply locks the aggregate,   *)
(* tests it and commits. The binding is read on a connection of its own.     *)

SetActor(a, new) ==
  /\ Free(a)
  /\ actor' = [actor EXCEPT ![a] = new]
  /\ UNCHANGED <<ownerVars, holder, session, faults, historyVars>>

Register(a) ==
  /\ ~actor[a].registered
  /\ SetActor(a, [Unregistered EXCEPT !.registered = TRUE, !.ready = TRUE])

AdmitTask(a, d) ==
  LET m == actor[a]  t == DecidedTask[d] IN
  /\ parent[d] # "none" /\ ActorOf[t] = a
  /\ m.registered /\ m.task = None /\ m.ready /\ t \notin m.closed
  /\ SetActor(a, [m EXCEPT !.task = t, !.decision = d, !.status = "ADMITTED", !.marks = {},
                           !.binding = None, !.terminal = "none", !.ready = FALSE])

IssueBinding(a, b) ==
  LET m == actor[a] IN
  /\ m.task = BindingTask[b] /\ m.status = "ADMITTED" /\ m.binding = None
  /\ ActiveBinding(b) /\ binding[b].supersedes = None /\ b \notin m.issued
  /\ SetActor(a, [m EXCEPT !.binding = b, !.issued = @ \cup {b}])

SupersedeBinding(a, b) ==
  LET m == actor[a] IN
  /\ m.task = BindingTask[b] /\ m.status = "ADMITTED" /\ m.binding # None
  /\ ActiveBinding(b) /\ binding[b].supersedes = m.binding /\ b \notin m.issued
  /\ SetActor(a, [m EXCEPT !.binding = b, !.issued = @ \cup {b}])

\* The evidence must show that a parent of the task was revoked and that the
\* work ran: task.start_ref is set, or the owner says so (independent). Nothing
\* tests task.status, so a task that is closed is closed a second time.
ReportHistorical(a, independent) ==
  LET m == actor[a] IN
  /\ m.task # None /\ m.task \notin m.reports
  /\ \E i \in 1..3 : parent[Line[m.decision][i]] = "RETIRED"
  /\ "START" \in m.marks \/ independent
  /\ SetActor(a, [m EXCEPT !.reports = @ \cup {m.task}, !.terminal = "report",
                           !.status = "CLOSED", !.closed = @ \cup {m.task}, !.ready = FALSE])

AckOutbox(a, b) ==
  /\ b \in actor[a].receipts \ actor[a].delivered
  /\ SetActor(a, [actor[a] EXCEPT !.delivered = @ \cup {b}])

Reset(a) ==
  LET m == actor[a] IN
  /\ m.task # None /\ m.status = "CLOSED" /\ ~m.ready
  /\ SetActor(a, [m EXCEPT !.task = None, !.decision = None, !.status = "NONE", !.marks = {},
                           !.binding = None, !.terminal = "none", !.ready = TRUE])

-----------------------------------------------------------------------------
(* A fenced transition, and the episode that makes four of them.             *)

Chain(d) == Line[d]
ChainActive(d) == \A i \in 1..Len(Chain(d)) : parent[Chain(d)[i]] = "ACTIVE"

RunBegin(s, b) ==
  LET m == actor[ActorFor(b)] IN
  /\ At(s, "idle")
  /\ m.task = BindingTask[b] /\ m.binding = b /\ m.status = "ADMITTED"
  /\ ChainActive(m.decision)
  /\ Goto(s, [Idle EXCEPT !.pc = "ready", !.b = b, !.d = m.decision, !.episode = TRUE])
  /\ UNCHANGED <<actor, ownerVars, holder, faults, historyVars>>

\* admit_release_once called by itself, for a terminal that was observed.
Release(s, b) ==
  LET m == actor[ActorFor(b)] IN
  /\ At(s, "idle")
  /\ b \in m.terminals /\ m.task = BindingTask[b]
  /\ Goto(s, [Idle EXCEPT !.pc = "ready", !.op = "CLOSE", !.b = b, !.d = m.decision])
  /\ UNCHANGED <<actor, ownerVars, holder, faults, historyVars>>

\* An exact replay: nothing to write, and no fence is taken.
Replayed(m, op, b) ==
  CASE op \in {"CONSUME", "START"} -> m.binding = b /\ op \in m.marks
    [] op = "FINISH" -> b \in m.terminals
    [] op = "CLOSE" -> b \in m.receipts

\* The tests of worker_consume, worker_start, worker_terminal, admit_release_once.
Ready(m, op, b) ==
  /\ m.task = BindingTask[b] /\ m.binding = b
  /\ CASE op = "CONSUME" -> m.status = "ADMITTED"
       [] op = "START" -> m.status = "CONSUMED"
       [] op = "FINISH" -> m.status = "STARTED" /\ b \notin m.terminals
       [] op = "CLOSE" -> /\ m.status = "TERMINAL" /\ m.terminal = "occurrence"
                          /\ b \in m.terminals \ m.receipts

Applied(m, op, b) ==
  CASE op = "CONSUME" -> [m EXCEPT !.status = "CONSUMED", !.marks = @ \cup {op}]
    [] op = "START" -> [m EXCEPT !.status = "STARTED", !.marks = @ \cup {op}]
    [] op = "FINISH" -> [m EXCEPT !.status = "TERMINAL", !.terminal = "occurrence",
                                  !.terminals = @ \cup {b}]
    [] op = "CLOSE" -> [m EXCEPT !.status = "CLOSED", !.closed = @ \cup {m.task},
                                 !.ready = FALSE, !.receipts = @ \cup {b}]

\* Hold before the COMMIT, or nothing to do: the transaction is rolled back and
\* the call is over for this session.
Rollback(s) ==
  /\ holder' = Unlocked(s)
  /\ Goto(s, Idle)
  /\ UNCHANGED <<actor, ownerVars, faults, historyVars>>

\* A replayed transition is not new: the runner stops, it does not go on to work.
MutantAfterReplay(w, m) == [w EXCEPT !.pc = "readback", !.new = m]

AfterReplay(w, m) == Idle

LockActor(s) ==
  LET w == session[s] IN
  /\ At(s, "ready") /\ Free(ActorFor(w.b))
  /\ IF Replayed(Mine(s), w.op, w.b)
     THEN Goto(s, AfterReplay(w, Mine(s))) /\ UNCHANGED holder
     ELSE Goto(s, [w EXCEPT !.pc = "locking"]) /\ Lock(ActorFor(w.b), s)
  /\ UNCHANGED <<actor, ownerVars, faults, historyVars>>

NextRow(w) == Chain(w.d)[w.locked + 1]

\* acquire_parent_fence: each row is locked and then tested.
LockParent(s) ==
  LET w == session[s] IN
  /\ At(s, "locking") /\ w.locked < Len(Chain(w.d)) /\ Free(NextRow(w))
  /\ IF parent[NextRow(w)] = "ACTIVE"
     THEN /\ Lock(NextRow(w), s)
          /\ Goto(s, [w EXCEPT !.locked = @ + 1])
          /\ UNCHANGED <<actor, ownerVars, faults, historyVars>>
     ELSE Rollback(s)

\* Only the close takes the binding before it drafts.
LockBindingToClose(s) ==
  LET w == session[s] IN
  /\ At(s, "locking") /\ w.op = "CLOSE" /\ w.locked = Len(Chain(w.d)) /\ Free(w.b)
  /\ IF ActiveBinding(w.b)
     THEN /\ Lock(w.b, s)
          /\ UNCHANGED <<actor, ownerVars, session, faults, historyVars>>
     ELSE Rollback(s)

\* The transition's own tests; it reads the binding without a lock.
Draft(s) ==
  LET w == session[s] IN
  /\ At(s, "locking") /\ w.locked = Len(Chain(w.d))
  /\ w.op = "CLOSE" => holder[w.b] = s
  /\ IF Ready(Mine(s), w.op, w.b) /\ ActiveBinding(w.b)
     THEN /\ Goto(s, [w EXCEPT !.pc = "drafted", !.new = Applied(Mine(s), w.op, w.b)])
          /\ UNCHANGED <<actor, ownerVars, holder, faults, historyVars>>
     ELSE Rollback(s)

\* commit_guard: the last word before COMMIT.
MutantGuardTrustsTheDraft(b) == TRUE

Guarded(b) == ActiveBinding(b)

Guard(s) ==
  LET w == session[s] IN
  /\ At(s, "drafted") /\ holder[w.b] \in {Nobody, s}
  /\ IF Guarded(w.b)
     THEN /\ Lock(w.b, s)
          /\ Goto(s, [w EXCEPT !.pc = "committing"])
          /\ UNCHANGED <<actor, ownerVars, faults, historyVars>>
     ELSE Rollback(s)

\* What COMMIT does in the database.
Committed(s) ==
  LET w == session[s] IN
  /\ actor' = [actor EXCEPT ![ActorFor(w.b)] = w.new]
  /\ holder' = Unlocked(s)
  /\ done' = done \cup {<<w.op, w.b>>}

Commit(s) ==
  /\ At(s, "committing")
  /\ Committed(s)
  /\ Goto(s, [session[s] EXCEPT !.pc = "readback", !.locked = 0])
  /\ UNCHANGED <<ownerVars, faults, works, answers>>

\* The connection is lost after COMMIT was sent; the client may ask at once.
Lose(s) ==
  /\ At(s, "committing") /\ faults < MaxFaults
  /\ faults' = faults + 1
  /\ Goto(s, [session[s] EXCEPT !.pc = "lost"])
  /\ UNCHANGED <<actor, ownerVars, holder, historyVars>>

InDoubt(s) == session[s].pc \in {"lost", "told"}
Settled(s) == Goto(s, IF At(s, "lost") THEN [session[s] EXCEPT !.pc = "asking", !.locked = 0] ELSE Idle)

Land(s) ==
  /\ InDoubt(s)
  /\ Committed(s) /\ Settled(s)
  /\ UNCHANGED <<ownerVars, faults, works, answers>>

Drop(s) ==
  /\ InDoubt(s)
  /\ holder' = Unlocked(s) /\ Settled(s)
  /\ UNCHANGED <<actor, ownerVars, faults, historyVars>>

\* After COMMIT apply compares the stored aggregate with the one it wrote.
Readback(s) ==
  LET w == session[s] IN
  /\ At(s, "readback")
  /\ IF Mine(s) = w.new
     THEN CASE w.op = "CONSUME" -> Goto(s, [w EXCEPT !.pc = "ready", !.op = "START"])
            [] w.op = "START" -> Goto(s, [w EXCEPT !.pc = "work"])
            [] w.op = "FINISH" -> Goto(s, [w EXCEPT !.pc = "ready", !.op = "CLOSE"])
            [] w.op = "CLOSE" -> Goto(s, IF w.episode THEN [w EXCEPT !.pc = "verify"] ELSE Idle)
     ELSE Goto(s, [w EXCEPT !.pc = "asking"])
  /\ UNCHANGED <<actor, ownerVars, holder, faults, historyVars>>

\* The one local effect of an episode, and its terminal evidence.
Work(s) ==
  LET w == session[s] IN
  /\ At(s, "work")
  /\ works' = [works EXCEPT ![BindingTask[w.b]] = @ + 1]
  /\ Goto(s, [w EXCEPT !.pc = "ready", !.op = "FINISH"])
  /\ UNCHANGED <<actor, ownerVars, holder, faults, done, answers>>

\* Reading only that a terminal is stored, whoever the task belongs to now.
MutantSaid(m, op, b) == IF op \in {"CONSUME", "START"} THEN Replayed(m, op, b) ELSE b \in m.terminals

\* Whether the read-back says that the transition was committed.
\* reconcile_transition for consume and start: the reference is there, or the
\* answer is NO_COMMIT_PROVEN. read_ambiguous_outcome for the others: an exact
\* match, or nothing is said.
Said(m, op, b) ==
  CASE op \in {"CONSUME", "START"} -> Replayed(m, op, b)
    [] op = "FINISH" ->
         /\ m.task = BindingTask[b] /\ m.binding = b
         /\ b \in m.terminals \ m.receipts
         /\ m.terminal = "occurrence" /\ m.status = "TERMINAL"
    [] op = "CLOSE" ->
         /\ m.task = BindingTask[b] /\ m.binding = b
         /\ b \in m.terminals \cap m.receipts
         /\ m.terminal = "occurrence" /\ m.status = "CLOSED" /\ ~m.ready

Reconcile(s) ==
  LET w == session[s] IN
  /\ session[s].pc \in {"lost", "asking", "verify"}
  /\ answers' = answers \cup (IF Said(Mine(s), w.op, w.b) THEN {<<w.op, w.b>>} ELSE {})
  /\ Goto(s, IF At(s, "lost") THEN [w EXCEPT !.pc = "told"] ELSE Idle)
  /\ UNCHANGED <<actor, ownerVars, holder, faults, works, done>>

\* The process dies. What was not sent to COMMIT is rolled back; what was sent
\* is in doubt, and nobody is left to ask.
Crash(s) ==
  /\ ~At(s, "idle") /\ ~At(s, "told") /\ faults < MaxFaults
  /\ faults' = faults + 1
  /\ IF session[s].pc \in {"committing", "lost"}
     THEN Goto(s, [session[s] EXCEPT !.pc = "told"]) /\ UNCHANGED holder
     ELSE Goto(s, Idle) /\ holder' = Unlocked(s)
  /\ UNCHANGED <<actor, ownerVars, historyVars>>

-----------------------------------------------------------------------------

TransactionStep(s) ==
  \/ LockActor(s) \/ LockParent(s) \/ LockBindingToClose(s) \/ Draft(s) \/ Guard(s) \/ Commit(s)
SettleStep(s) == Land(s) \/ Drop(s)
EpisodeStep(s) == Readback(s) \/ Work(s) \/ Reconcile(s)
OwnerStep(o) == OwnerLock(o) \/ OwnerCommit(o) \/ OwnerRefused(o)

ActorStep(a) ==
  \/ Register(a) \/ Reset(a)
  \/ \E d \in Decisions : AdmitTask(a, d)
  \/ \E b \in Bindings : IssueBinding(a, b) \/ SupersedeBinding(a, b) \/ AckOutbox(a, b)
  \/ \E independent \in BOOLEAN : ReportHistorical(a, independent)

Next ==
  \/ \E o \in Owners : OwnerStep(o) \/ \E op \in {"issue", "retire"}, x \in Parents : OwnerBegin(o, op, x)
  \/ \E b \in Bindings : IssueRow(b) \/ RevokeRow(b) \/ \E old \in Bindings : SupersedeRow(old, b)
  \/ \E a \in Actors : ActorStep(a)
  \/ \E s \in Sessions :
       \/ TransactionStep(s) \/ SettleStep(s) \/ EpisodeStep(s) \/ Lose(s) \/ Crash(s)
       \/ \E b \in Bindings : RunBegin(s, b) \/ Release(s, b)

Spec == Init /\ [][Next]_vars

-----------------------------------------------------------------------------
(* Properties. *)

\* Every transition of a task is committed while the whole line of its decision
\* and its binding are active, also when the COMMIT lands after the client was
\* cut off (acquire_parent_fence and acquire_close_fence keep their rows locked).
AuthorityAtCommit ==
  [][\A e \in done' \ done :
       ActiveBinding(e[2]) /\ ChainActive(actor[ActorFor(e[2])].decision)]_vars

Started(t) == {b \in Bindings : BindingTask[b] = t /\ <<"START", b>> \in done}

\* The work of a task is done once at most, under one START, whatever binding
\* superseded which, and however often the task is run, reported or reset.
WorkDoneOnce == \A t \in Tasks : works[t] <= Cardinality(Started(t)) /\ Cardinality(Started(t)) <= 1

\* A read-back that says committed is right, also for a task that has been
\* reported after a revocation, reset or replaced since.
AnswersAreTrue == answers \subseteq done

\* The row somebody is waiting for, or could go on to lock.
Wanted(p) ==
  IF p \in Owners
  THEN IF owner[p] # Resting /\ owner[p].locked < OwnerRows(p) THEN {NextOwnerRow(p)} ELSE {}
  ELSE LET w == session[p] IN
       CASE w.pc = "ready" -> {ActorFor(w.b)}
         [] w.pc = "locking" /\ w.locked < Len(Chain(w.d)) -> {NextRow(w)}
         [] w.pc = "locking" /\ w.locked = Len(Chain(w.d)) /\ w.op = "CLOSE" -> {w.b}
         [] w.pc = "drafted" -> {w.b}
         [] OTHER -> {}

Blocked(p, S) == \E r \in Wanted(p) : holder[r] \in S \ {p}

\* Workers and owners lock the same rows and never deadlock: in no group does
\* everyone wait for a row that another one of the group holds.
NoWaitCycle ==
  \A S \in SUBSET (Sessions \cup Owners) : S # {} => \E p \in S : ~Blocked(p, S)

(* The inductive invariant of these, in five parts.                          *)

\* The task of an aggregate, its decision and what its references are worth.
AggregateInv == \A a \in Actors : LET m == actor[a] IN
  /\ IF m.task = None THEN m.status = "NONE"
     ELSE /\ m.status # "NONE" /\ m.decision \in Decisions
          /\ DecidedTask[m.decision] = m.task /\ ActorOf[m.task] = a
          /\ (m.status = "CLOSED") <=> (m.task \in m.closed)
  /\ ~m.registered => m = Unregistered
  /\ m.status \in {"NONE", "ADMITTED"} => m.marks = {}
  /\ m.status = "CONSUMED" => "START" \notin m.marks
  /\ \A op \in m.marks : <<op, m.binding>> \in done
  /\ \A b \in m.terminals : <<"FINISH", b>> \in done
  /\ \A b \in m.receipts : <<"CLOSE", b>> \in done

\* An owner that works down a line has locked what it passed, and only that.
OwnerInv == \A o \in Owners :
  /\ owner[o] # Resting => /\ owner[o].x \in Parents /\ owner[o].op # "none"
                           /\ owner[o].locked <= OwnerRows(o)
  /\ \A r \in Rows : (holder[r] = o) <=>
       (owner[o] # Resting /\ \E i \in 1..owner[o].locked : r = Line[owner[o].x][i])

\* The decision of a session is that of its task, as long as its actor has the task.
OnTask(s) ==
  LET w == session[s]  m == Mine(s)  t == BindingTask[w.b] IN
  /\ w.b \in Bindings /\ w.d \in Decisions /\ DecidedTask[w.d] = t
  /\ IF m.task = t THEN m.decision = w.d ELSE t \in m.closed

HoldsActor(w) == w.pc \in {"locking", "drafted", "committing", "lost", "told"}
Drafted(w) == w.pc \in {"drafted", "committing", "lost", "told"}
GuardPassed(w) == w.pc \in {"committing", "lost", "told"}

\* A transaction keeps what it has read: the rows it locked are its own, the
\* parents among them active; past the guard the binding is too.
TransactionInv == \A s \in Sessions : LET w == session[s] IN
  /\ w.pc # "idle" => OnTask(s)
  /\ HoldsActor(w) => /\ holder[ActorFor(w.b)] = s /\ w.locked <= Len(Chain(w.d))
                      /\ \A i \in 1..w.locked : /\ holder[Chain(w.d)[i]] = s
                                                /\ parent[Chain(w.d)[i]] = "ACTIVE"
  /\ Drafted(w) => /\ w.locked = Len(Chain(w.d)) /\ Ready(Mine(s), w.op, w.b)
                   /\ w.new = Applied(Mine(s), w.op, w.b)
  /\ GuardPassed(w) => holder[w.b] = s /\ ActiveBinding(w.b)
  /\ ~HoldsActor(w) => w.locked = 0
  /\ \A r \in Rows : holder[r] = s =>
       /\ HoldsActor(w)
       /\ \/ r = ActorFor(w.b) \/ \E i \in 1..w.locked : r = Chain(w.d)[i]
          \/ r = w.b /\ (Drafted(w) \/ (w.locked = Len(Chain(w.d)) /\ w.op = "CLOSE"))

\* A task that was started has that START in its references, or is closed.
StartInv ==
  /\ \A b \in Bindings : <<"START", b>> \in done =>
       LET m == actor[ActorFor(b)] IN
       \/ BindingTask[b] \in m.closed
       \/ m.task = BindingTask[b] /\ m.binding = b /\ "START" \in m.marks
  /\ \A b, c \in Bindings : <<"START", b>> \in done /\ <<"START", c>> \in done
                             /\ BindingTask[b] = BindingTask[c] => b = c

\* Who may still do the work: the session whose START was committed.
Licensed(w) == w.pc = "work" \/ (w.pc = "readback" /\ w.op = "START")
WorkInv ==
  /\ \A s \in Sessions : Licensed(session[s]) =>
       <<"START", session[s].b>> \in done /\ works[BindingTask[session[s].b]] = 0
  /\ \A s, u \in Sessions : Licensed(session[s]) /\ Licensed(session[u])
       /\ BindingTask[session[s].b] = BindingTask[session[u].b] => s = u
  /\ \A t \in Tasks : works[t] <= 1 /\ (works[t] = 1 => Started(t) # {})

IInv == TypeOK /\ AggregateInv /\ OwnerInv /\ TransactionInv /\ StartInv /\ WorkInv /\ AnswersAreTrue

(* What the promise of the whole life cycle needs besides.                  *)

\* The references of a task under way say which transitions it has behind it.
MarksInv == \A a \in Actors : LET m == actor[a] IN
  /\ m.status = "CONSUMED" => "CONSUME" \in m.marks
  /\ m.status = "STARTED" => "START" \in m.marks

\* Who comes to FINISH has done the work.
EffortInv == \A s \in Sessions :
  session[s].pc # "idle" /\ session[s].op = "FINISH" => works[BindingTask[session[s].b]] = 1

PromiseInv == IInv /\ MarksInv /\ EffortInv

-----------------------------------------------------------------------------
Promise == INSTANCE LifecyclePromise WITH
  bound <- [b \in Bindings |-> binding[b].status]

(* Every step of sessions, owners and failures is a step of the promise or  *)
(* one that nobody outside can tell (apply, commit_guard, run).             *)
KeepsPromise == Promise!Spec
=============================================================================
