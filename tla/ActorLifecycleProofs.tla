------------------------ MODULE ActorLifecycleProofs ------------------------
(***************************************************************************)
(* Proofs about ActorLifecycle for any numbers of actors, tasks, decisions,*)
(* bindings, sessions, owners and faults. The heart is two-phase locking:  *)
(* a step of one session or owner leaves alone what another one has locked,*)
(* so what a transaction has tested stays so until it commits.             *)
(***************************************************************************)
EXTENDS ActorLifecycle, FiniteSetTheorems, TLAPS

(* The parts of the invariant, of one actor, owner and session.             *)

AggregateOK(m, a) ==
  /\ IF m.task = None THEN m.status = "NONE"
     ELSE /\ m.status # "NONE" /\ m.decision \in Decisions
          /\ DecidedTask[m.decision] = m.task /\ ActorOf[m.task] = a
          /\ (m.status = "CLOSED") <=> (m.task \in m.closed)
  /\ ~m.registered => m = Unregistered
  /\ m.status \in {"NONE", "ADMITTED"} => m.marks = {}
  /\ m.status = "CONSUMED" => "START" \notin m.marks
  /\ \A op \in m.marks : <<op, m.binding>> \in done
  /\ \A b \in m.terminals : <<"FINISH", b>> \in done
  /\ \A b \in m.receipts : <<"CLOSE", b>> \in done

OwnerOK(o) ==
  /\ owner[o] # Resting => /\ owner[o].x \in Parents /\ owner[o].op # "none"
                           /\ owner[o].locked <= OwnerRows(o)
  /\ \A r \in Rows : (holder[r] = o) <=>
       (owner[o] # Resting /\ \E i \in 1..owner[o].locked : r = Line[owner[o].x][i])

TransactionOK(s) ==
  LET w == session[s] IN
  /\ w.pc # "idle" => OnTask(s)
  /\ HoldsActor(w) => /\ holder[ActorFor(w.b)] = s /\ w.locked <= Len(Chain(w.d))
                      /\ \A i \in 1..w.locked : /\ holder[Chain(w.d)[i]] = s
                                                /\ parent[Chain(w.d)[i]] = "ACTIVE"
  /\ Drafted(w) => /\ w.locked = Len(Chain(w.d)) /\ Ready(Mine(s), w.op, w.b)
                   /\ w.new = Applied(Mine(s), w.op, w.b)
  /\ GuardPassed(w) => holder[w.b] = s /\ ActiveBinding(w.b)
  /\ ~HoldsActor(w) => w.locked = 0
  /\ \A r \in Rows : holder[r] = s =>
       /\ HoldsActor(w)
       /\ \/ r = ActorFor(w.b) \/ \E i \in 1..w.locked : r = Chain(w.d)[i]
          \/ r = w.b /\ (Drafted(w) \/ (w.locked = Len(Chain(w.d)) /\ w.op = "CLOSE"))

(* How an aggregate may change: a task is left only when it is closed, a    *)
(* closed task does not come back, and a START is not forgotten.            *)
Moves(m, n) ==
  /\ m.closed \subseteq n.closed
  /\ \/ /\ n.task = m.task /\ n.decision = m.decision
        /\ "START" \in m.marks => n.binding = m.binding /\ "START" \in n.marks
     \/ m.task \in n.closed \cup {None} /\ n.task \notin m.closed \cup {m.task}

(* What a step of somebody else leaves to p.                                *)
SameRows(p) == \A r \in Rows : (holder'[r] = p) <=> (holder[r] = p)
KeptForHolder(s) ==
  /\ \A a \in Actors : holder[a] = s => actor'[a] = actor[a]
  /\ \A x \in Parents : holder[x] = s /\ parent[x] = "ACTIVE" => parent'[x] = "ACTIVE"
  /\ \A b \in Bindings : holder[b] = s /\ ActiveBinding(b) => binding'[b].status = "ACTIVE"
ActorsMove == \A a \in Actors : Moves(actor[a], actor'[a])

(* A line is at most three rows of pm_authority, and a decision's is three. *)
LEMMA LineRows ==
  ASSUME NEW x \in Parents
  PROVE  /\ Len(Line[x]) \in {1, 2, 3}
         /\ \A i \in 1..Len(Line[x]) : Line[x][i] \in Parents
         /\ Line[x][Len(Line[x])] = x
<1>1. Line[x] \in Seq(Parents)
  BY LineAssumption
<1>2. Len(Line[x]) \in 1..3 /\ Line[x][Len(Line[x])] = x
  BY LineAssumption
<1> QED
  BY <1>1, <1>2

(* The sorts of rows are disjoint, and the references of a binding are typed. *)
LEMMA RowSorts ==
  /\ \A a \in Actors : a \in Rows /\ a \notin Parents /\ a \notin Bindings
  /\ \A x \in Parents : x \in Rows /\ x \notin Bindings
  /\ \A b \in Bindings : /\ b \in Rows /\ b # None /\ BindingTask[b] \in Tasks
                         /\ BindingTask[b] # None /\ ActorFor(b) \in Actors
  /\ \A d \in Decisions : d \in Parents /\ DecidedTask[d] \in Tasks /\ d # None
  /\ \A t \in Tasks : ActorOf[t] \in Actors /\ t # None
BY RowAssumption DEF Rows, ActorFor, Decisions

(* Locking a free row, or one's own, and unlocking everything change nothing *)
(* for the others.                                                           *)
LEMMA LockIsPrivate ==
  ASSUME TypeOK, NEW who \in Sessions \cup Owners, NEW p \in Sessions \cup Owners, p # who,
         \/ UNCHANGED holder
         \/ holder' = Unlocked(who)
         \/ \E r \in Rows : holder[r] \in {Nobody, who} /\ Lock(r, who)
  PROVE  SameRows(p)
<1> p # Nobody
  BY RowAssumption
<1>1. CASE UNCHANGED holder
  BY <1>1 DEF SameRows
<1>2. CASE holder' = Unlocked(who)
  BY <1>2 DEF SameRows, Unlocked
<1>3. CASE \E r \in Rows : holder[r] \in {Nobody, who} /\ Lock(r, who)
  BY <1>3 DEF SameRows, Lock, TypeOK
<1> QED
  BY <1>1, <1>2, <1>3

(* The decision of a session stays that of its task.                        *)
LEMMA OnTaskStays ==
  ASSUME TypeOK, NEW s \in Sessions, OnTask(s), ActorsMove,
         session'[s].b = session[s].b, session'[s].d = session[s].d
  PROVE  OnTask(s)'
<1> DEFINE b == session[s].b  m == actor[ActorFor(b)]  n == actor'[ActorFor(b)]
<1>1. b \in Bindings /\ ActorFor(b) \in Actors /\ BindingTask[b] \in Tasks /\ BindingTask[b] # None
  BY RowSorts DEF OnTask
<1>2. Moves(m, n)
  BY <1>1 DEF ActorsMove
<1>3. IF m.task = BindingTask[b] THEN m.decision = session[s].d ELSE BindingTask[b] \in m.closed
  BY DEF OnTask, Mine, ActorFor
<1>4. IF n.task = BindingTask[b] THEN n.decision = session[s].d ELSE BindingTask[b] \in n.closed
  BY <1>1, <1>2, <1>3 DEF Moves
<1> QED
  BY <1>1, <1>4 DEF OnTask, Mine, ActorFor

(* Two-phase locking: a transaction keeps its invariant under a step of     *)
(* somebody else.                                                           *)
LEMMA TransactionStays ==
  ASSUME TypeOK, NEW s \in Sessions, TransactionOK(s), session'[s] = session[s],
         SameRows(s), KeptForHolder(s), ActorsMove
  PROVE  TransactionOK(s)'
<1> DEFINE w == session[s]
<1>1. w.pc # "idle" => OnTask(s)'
  BY OnTaskStays DEF TransactionOK
<1>2. HoldsActor(w) =>
        /\ OnTask(s) /\ w.b \in Bindings /\ w.d \in Decisions /\ w.d \in Parents
        /\ ActorFor(w.b) \in Actors /\ ActorFor(w.b) \in Rows /\ w.b \in Rows
        /\ \A i \in 1..Len(Chain(w.d)) : Chain(w.d)[i] \in Parents /\ Chain(w.d)[i] \in Rows
  BY RowSorts, LineRows DEF TransactionOK, HoldsActor, OnTask, Chain
<1>3. HoldsActor(w) => /\ holder[ActorFor(w.b)] = s /\ w.locked <= Len(Chain(w.d))
                       /\ holder'[ActorFor(w.b)] = s /\ actor'[ActorFor(w.b)] = actor[ActorFor(w.b)]
  BY <1>2 DEF TransactionOK, SameRows, KeptForHolder
<1>4. HoldsActor(w) => \A i \in 1..w.locked : /\ holder'[Chain(w.d)[i]] = s
                                              /\ parent'[Chain(w.d)[i]] = "ACTIVE"
  <2> SUFFICES ASSUME HoldsActor(w), NEW i \in 1..w.locked
               PROVE  holder'[Chain(w.d)[i]] = s /\ parent'[Chain(w.d)[i]] = "ACTIVE"
    OBVIOUS
  <2>1. i \in 1..Len(Chain(w.d))
    <3>1. w.d \in Parents /\ w.locked \in 0..3
      BY <1>2 DEF TypeOK, SessionRecords
    <3> QED
      BY <1>3, <3>1, LineRows DEF Chain
  <2>2. holder[Chain(w.d)[i]] = s /\ parent[Chain(w.d)[i]] = "ACTIVE"
    BY DEF TransactionOK
  <2> QED
    BY <1>2, <2>1, <2>2 DEF SameRows, KeptForHolder
<1>5. Drafted(w) => HoldsActor(w)
  BY DEF Drafted, HoldsActor
<1>6. GuardPassed(w) => holder'[w.b] = s /\ binding'[w.b].status = "ACTIVE"
  BY <1>2 DEF TransactionOK, GuardPassed, HoldsActor, SameRows, KeptForHolder, ActiveBinding
<1>7. \A r \in Rows : holder'[r] = s => holder[r] = s
  BY DEF SameRows
<1>8. Drafted(w) => Mine(s)' = Mine(s)
  BY <1>3, <1>5 DEF Mine, ActorFor
<1>9. Drafted(w) => /\ w.locked = Len(Chain(w.d)) /\ Ready(Mine(s)', w.op, w.b)
                    /\ w.new = Applied(Mine(s)', w.op, w.b)
  BY <1>8 DEF TransactionOK
<1>10. ~HoldsActor(w) => w.locked = 0
  BY DEF TransactionOK
<1>11. \A r \in Rows : holder'[r] = s =>
         /\ HoldsActor(w)
         /\ \/ r = ActorFor(w.b) \/ \E i \in 1..w.locked : r = Chain(w.d)[i]
            \/ r = w.b /\ (Drafted(w) \/ (w.locked = Len(Chain(w.d)) /\ w.op = "CLOSE"))
  BY <1>7 DEF TransactionOK
<1> QED
  BY <1>1, <1>3, <1>4, <1>6, <1>9, <1>10, <1>11
  DEF TransactionOK, ActiveBinding

LEMMA OwnerStays ==
  ASSUME NEW o \in Owners, OwnerOK(o), owner'[o] = owner[o], SameRows(o)
  PROVE  OwnerOK(o)'
BY DEF OwnerOK, SameRows, OwnerRows, RowsToLock

(* The same in terms of the parts, and back.                                *)
ByParts ==
  /\ TypeOK /\ StartInv /\ WorkInv /\ AnswersAreTrue
  /\ \A a \in Actors : AggregateOK(actor[a], a)
  /\ \A o \in Owners : OwnerOK(o)
  /\ \A s \in Sessions : TransactionOK(s)

LEMMA Parts == (IInv <=> ByParts) /\ (IInv' <=> ByParts')
<1>1. AggregateInv <=> \A a \in Actors : AggregateOK(actor[a], a)
  BY DEF AggregateInv, AggregateOK
<1>2. OwnerInv <=> \A o \in Owners : OwnerOK(o)
  BY DEF OwnerInv, OwnerOK
<1>3. TransactionInv <=> \A s \in Sessions : TransactionOK(s)
  BY DEF TransactionInv, TransactionOK
<1>4. AggregateInv' <=> \A a \in Actors : AggregateOK(actor[a], a)'
  BY DEF AggregateInv, AggregateOK
<1>5. OwnerInv' <=> \A o \in Owners : OwnerOK(o)'
  BY DEF OwnerInv, OwnerOK
<1>6. TransactionInv' <=> \A s \in Sessions : TransactionOK(s)'
  BY DEF TransactionInv, TransactionOK
<1> QED
  BY <1>1, <1>2, <1>3, <1>4, <1>5, <1>6 DEF IInv, ByParts

(* A step that leaves the aggregates alone moves none of them.              *)
LEMMA NobodyMoves ==
  ASSUME UNCHANGED actor
  PROVE  ActorsMove
BY DEF ActorsMove, Moves

(* History and references: what they say is kept when the actors move.      *)
LEMMA StartStays ==
  ASSUME TypeOK, StartInv, ActorsMove, UNCHANGED done
  PROVE  StartInv'
<1> SUFFICES ASSUME NEW b \in Bindings, <<"START", b>> \in done
             PROVE  LET n == actor'[ActorFor(b)] IN
                    \/ BindingTask[b] \in n.closed
                    \/ n.task = BindingTask[b] /\ n.binding = b /\ "START" \in n.marks
  BY DEF StartInv, ActorFor
<1>1. ActorFor(b) \in Actors /\ BindingTask[b] # None
  BY RowSorts
<1>2. Moves(actor[ActorFor(b)], actor'[ActorFor(b)])
  BY <1>1 DEF ActorsMove
<1>3. LET m == actor[ActorFor(b)] IN
      \/ BindingTask[b] \in m.closed
      \/ m.task = BindingTask[b] /\ m.binding = b /\ "START" \in m.marks
  BY DEF StartInv
<1> QED
  BY <1>1, <1>2, <1>3 DEF Moves

(* No session gets a licence to work by a step that commits no START.       *)
LEMMA WorkStays ==
  ASSUME WorkInv, UNCHANGED works, done \subseteq done',
         \A s \in Sessions : Licensed(session'[s]) =>
            Licensed(session[s]) /\ session'[s].b = session[s].b
  PROVE  WorkInv'
<1>1. \A t \in Tasks : Started(t) \subseteq Started(t)'
  BY DEF Started
<1>2. \A t \in Tasks : works'[t] <= 1 /\ (works'[t] = 1 => Started(t)' # {})
  BY <1>1 DEF WorkInv
<1>3. \A s \in Sessions : Licensed(session'[s]) =>
        <<"START", session'[s].b>> \in done' /\ works'[BindingTask[session'[s].b]] = 0
  BY DEF WorkInv
<1>4. \A s, u \in Sessions : Licensed(session'[s]) /\ Licensed(session'[u])
        /\ BindingTask[session'[s].b] = BindingTask[session'[u].b] => s = u
  BY DEF WorkInv
<1> QED
  BY <1>2, <1>3, <1>4 DEF WorkInv, Licensed, Started

(* A step of s that changes nothing but locks and its own record.           *)
PrivateStep(s, w) ==
  /\ session' = [session EXCEPT ![s] = w]
  /\ \/ UNCHANGED holder \/ holder' = Unlocked(s)
     \/ \E r \in Rows : holder[r] \in {Nobody, s} /\ Lock(r, s)
  /\ UNCHANGED <<actor, ownerVars, done>>

LEMMA PrivateSteps ==
  ASSUME IInv, NEW s \in Sessions, NEW w \in SessionRecords, PrivateStep(s, w),
         UNCHANGED works, faults' \in Nat, AnswersAreTrue',
         answers' \subseteq Transitions \X Bindings,
         Licensed(w) => Licensed(session[s]) /\ w.b = session[s].b,
         TransactionOK(s)'
  PROVE  IInv'
<1> USE DEF PrivateStep
<1>1. TypeOK'
  BY DEF IInv, TypeOK, Unlocked, Lock, ownerVars, Holders
<1>2. \A u \in (Sessions \cup Owners) \ {s} : SameRows(u)
  BY LockIsPrivate DEF IInv
<1>3. ActorsMove
  BY NobodyMoves
<1>4. \A u \in Sessions : TransactionOK(u)'
  <2> SUFFICES ASSUME NEW u \in Sessions \ {s} PROVE TransactionOK(u)'
    OBVIOUS
  <2>1. session'[u] = session[u]
    BY DEF IInv, TypeOK
  <2>2. KeptForHolder(u)
    BY DEF KeptForHolder, ownerVars, ActiveBinding
  <2> QED
    BY <1>2, <1>3, <2>1, <2>2, TransactionStays, Parts DEF ByParts
<1>5. \A o \in Owners : OwnerOK(o)'
  <2> SUFFICES ASSUME NEW o \in Owners PROVE OwnerOK(o)'
    OBVIOUS
  <2>1. o # s
    BY RowAssumption
  <2> QED
    BY <1>2, <2>1, OwnerStays, Parts DEF ByParts, ownerVars
<1>6. \A a \in Actors : AggregateOK(actor[a], a)'
  BY Parts DEF ByParts, AggregateOK
<1>7. StartInv'
  BY <1>3, StartStays DEF IInv
<1>8. WorkInv'
  <2>1. \A u \in Sessions : Licensed(session'[u]) =>
          Licensed(session[u]) /\ session'[u].b = session[u].b
    BY DEF IInv, TypeOK
  <2> QED
    BY <2>1, WorkStays DEF IInv
<1> QED
  BY <1>1, <1>4, <1>5, <1>6, <1>7, <1>8, Parts DEF ByParts

(* Initially nothing is locked, owned, done or said.                        *)
LEMMA InitHolds == Init => IInv
<1> SUFFICES ASSUME Init PROVE IInv
  OBVIOUS
<1> USE DEF Init
<1>1. Unregistered \in Aggregates
  BY DEF Unregistered, Aggregates, Statuses
<1>2. Idle \in SessionRecords /\ Resting \in OwnerRecords
  BY <1>1 DEF Idle, SessionRecords, SessionStates, Transitions, Resting, OwnerRecords
<1>3. TypeOK
  BY <1>1, <1>2 DEF TypeOK, RowStates, BindingRows, Holders
<1>4. \A a \in Actors : AggregateOK(actor[a], a)
  BY DEF AggregateOK, Unregistered
<1>5. \A o \in Owners : OwnerOK(o)
  BY RowAssumption DEF OwnerOK
<1>6. \A s \in Sessions : TransactionOK(s)
  BY RowAssumption DEF TransactionOK, Idle, HoldsActor, Drafted, GuardPassed
<1>7. StartInv /\ WorkInv /\ AnswersAreTrue
  BY RowSorts DEF StartInv, WorkInv, AnswersAreTrue, Licensed, Idle
<1> QED
  BY <1>3, <1>4, <1>5, <1>6, <1>7, Parts DEF ByParts

(* A step of an owner, of a binding's row or of an actor on its own: the    *)
(* sessions keep what they hold, and history does not change.               *)
LEMMA OutsideSteps ==
  ASSUME IInv, TypeOK', UNCHANGED <<session, historyVars>>, ActorsMove,
         \A a \in Actors : AggregateOK(actor[a], a)',
         \A o \in Owners : OwnerOK(o)',
         \A s \in Sessions : SameRows(s) /\ KeptForHolder(s)
  PROVE  IInv'
<1> USE DEF historyVars
<1>1. \A s \in Sessions : TransactionOK(s)'
  BY TransactionStays, Parts DEF ByParts
<1>2. StartInv'
  BY StartStays DEF IInv
<1>3. WorkInv'
  BY WorkStays DEF IInv
<1>4. AnswersAreTrue'
  BY DEF IInv, AnswersAreTrue
<1> QED
  BY <1>1, <1>2, <1>3, <1>4, Parts DEF ByParts

-----------------------------------------------------------------------------

(* The rows of an owner's line: it locks the first ones.                    *)
LEMMA OwnersLine ==
  ASSUME NEW op \in {"issue", "retire"}, NEW x \in Parents
  PROVE  /\ RowsToLock(op, x) \in 0..3 /\ RowsToLock(op, x) <= Len(Line[x])
         /\ \A i \in 1..RowsToLock(op, x) : Line[x][i] \in Parents /\ Line[x][i] \in Rows
<1>1. Len(Line[x]) \in {1, 2, 3} /\ \A i \in 1..Len(Line[x]) : Line[x][i] \in Parents
  BY LineRows
<1> QED
  BY <1>1, RowSorts DEF RowsToLock

LEMMA OwnerBegins ==
  ASSUME IInv, NEW o \in Owners, NEW op \in {"issue", "retire"}, NEW x \in Parents,
         OwnerBegin(o, op, x)
  PROVE  IInv'
<1> USE DEF OwnerBegin
<1>1. TypeOK /\ owner[o] = Resting /\ \A r \in Rows : holder[r] # o
  BY Parts DEF ByParts, OwnerOK
<1>2. RowsToLock(op, x) \in 0..3
      /\ (RowsToLock(op, x) # 0 => OwnerRow(op, x, 1) = Line[x][1] /\ Line[x][1] \in Rows)
  BY OwnersLine DEF OwnerRow
<1>3. TypeOK'
  BY <1>1, <1>2 DEF TypeOK, OwnerRecords, Lock, Holders, historyVars
<1>4. \A p \in (Sessions \cup Owners) \ {o} : SameRows(p)
  BY <1>1, <1>2, LockIsPrivate DEF Free
<1>5. OwnerOK(o)'
  <2>1. CASE RowsToLock(op, x) = 0
    BY <1>1, <2>1 DEF OwnerOK, OwnerRows, TypeOK, Resting
  <2>2. CASE RowsToLock(op, x) # 0
    <3>1. holder' = [holder EXCEPT ![Line[x][1]] = o]
      BY <1>2, <2>2 DEF Lock
    <3>2. owner'[o] = [op |-> op, x |-> x, locked |-> 1] /\ owner'[o] # Resting
      BY <1>1, <2>2 DEF TypeOK, Resting
    <3>3. \A r \in Rows : (holder'[r] = o) <=> \E i \in 1..1 : r = Line[x][i]
      BY <1>1, <1>2, <2>2, <3>1 DEF TypeOK
    <3>4. 1 <= RowsToLock(op, x)
      BY <1>2, <2>2
    <3> QED
      BY <3>2, <3>3, <3>4 DEF OwnerOK, OwnerRows
  <2> QED
    BY <2>1, <2>2
<1>6. \A p \in Owners : OwnerOK(p)'
  <2> SUFFICES ASSUME NEW p \in Owners, p # o PROVE OwnerOK(p)'
    BY <1>5
  <2>1. owner'[p] = owner[p]
    BY <1>1 DEF TypeOK
  <2> QED
    BY <1>4, <2>1, OwnerStays, Parts DEF ByParts
<1>7. \A s \in Sessions : SameRows(s) /\ KeptForHolder(s)
  BY <1>4, RowAssumption DEF KeptForHolder, ActiveBinding
<1>8. \A a \in Actors : AggregateOK(actor[a], a)'
  BY Parts DEF ByParts, AggregateOK, historyVars
<1> QED
  BY <1>3, <1>6, <1>7, <1>8, NobodyMoves, OutsideSteps

LEMMA OwnerLocks ==
  ASSUME IInv, NEW o \in Owners, OwnerLock(o)
  PROVE  IInv'
<1> USE DEF OwnerLock
<1> DEFINE x == owner[o].x  k == owner[o].locked
<1>1. /\ TypeOK /\ owner[o] # Resting /\ x \in Parents /\ owner[o].op \in {"issue", "retire"}
      /\ k \in 0..3 /\ k < OwnerRows(o)
      /\ \A r \in Rows : (holder[r] = o) <=> \E i \in 1..k : r = Line[x][i]
  BY Parts DEF ByParts, OwnerOK, TypeOK, OwnerRecords
<1>2. NextOwnerRow(o) = Line[x][k + 1] /\ Line[x][k + 1] \in Rows
      /\ OwnerRows(o) \in 0..3 /\ k + 1 \in 0..3
  BY SMTT(30), <1>1, OwnersLine DEF OwnerRow, NextOwnerRow, OwnerRows
<1>3. TypeOK'
  BY <1>1, <1>2 DEF TypeOK, OwnerRecords, Lock, Holders, historyVars
<1>4. \A p \in (Sessions \cup Owners) \ {o} : SameRows(p)
  BY <1>1, <1>2, LockIsPrivate DEF Free
<1>5. OwnerOK(o)'
  <2>1. owner'[o] = [owner[o] EXCEPT !.locked = k + 1]
    BY <1>1 DEF TypeOK
  <2>2. owner'[o].x = x /\ owner'[o].op = owner[o].op /\ owner'[o].locked = k + 1
    BY <1>1, <2>1 DEF TypeOK, OwnerRecords
  <2>3. owner'[o] # Resting /\ OwnerRows(o)' = OwnerRows(o)
    BY <1>1, <2>2 DEF Resting, OwnerRows
  <2>4. \A r \in Rows : (holder'[r] = o) <=> r = Line[x][k + 1] \/ \E i \in 1..k : r = Line[x][i]
    BY <1>1, <1>2 DEF TypeOK, Lock
  <2>5. \A r \in Rows : (holder'[r] = o) <=> \E i \in 1..(k + 1) : r = Line[x][i]
    BY <1>1, <2>4
  <2> QED
    <3>1. owner'[o].x \in Parents /\ owner'[o].op # "none" /\ owner'[o].locked <= OwnerRows(o)'
      BY <1>1, <1>2, <2>2, <2>3
    <3>2. \A r \in Rows : (holder'[r] = o) <=> \E i \in 1..owner'[o].locked : r = Line[owner'[o].x][i]
      BY <2>2, <2>5
    <3> QED
      BY <2>3, <3>1, <3>2 DEF OwnerOK
<1>6. \A p \in Owners : OwnerOK(p)'
  <2> SUFFICES ASSUME NEW p \in Owners, p # o PROVE OwnerOK(p)'
    BY <1>5
  <2>1. owner'[p] = owner[p]
    BY <1>1 DEF TypeOK
  <2> QED
    BY <1>4, <2>1, OwnerStays, Parts DEF ByParts
<1>7. \A s \in Sessions : SameRows(s) /\ KeptForHolder(s)
  BY <1>4, RowAssumption DEF KeptForHolder, ActiveBinding
<1>8. \A a \in Actors : AggregateOK(actor[a], a)'
  BY Parts DEF ByParts, AggregateOK, historyVars
<1> QED
  BY <1>3, <1>6, <1>7, <1>8, NobodyMoves, OutsideSteps

(* A retirement holds its own row, so no session does.                      *)
LEMMA OwnerEnds ==
  ASSUME IInv, NEW o \in Owners, OwnerCommit(o) \/ OwnerRefused(o)
  PROVE  IInv'
<1> DEFINE x == owner[o].x
<1>0. owner[o] # Resting /\ owner[o].locked = OwnerRows(o)
  BY DEF OwnerCommit, OwnerRefused
<1>1. /\ TypeOK /\ x \in Parents /\ owner[o].op \in {"issue", "retire"}
      /\ owner[o].locked = OwnerRows(o)
      /\ \A r \in Rows : (holder[r] = o) <=> \E i \in 1..owner[o].locked : r = Line[x][i]
  BY <1>0, Parts DEF ByParts, OwnerOK, TypeOK, OwnerRecords
<1> USE DEF OwnerCommit, OwnerRefused
<1>2. holder' = Unlocked(o) /\ owner' = [owner EXCEPT ![o] = Resting]
      /\ UNCHANGED <<actor, binding, session, faults, historyVars>>
  OBVIOUS
<1>3. TypeOK'
  BY <1>1, <1>2 DEF TypeOK, OwnerRecords, Resting, Unlocked, Holders, historyVars, RowStates
<1>4. \A p \in (Sessions \cup Owners) \ {o} : SameRows(p)
  BY <1>1, <1>2, LockIsPrivate
<1>5. OwnerOK(o)'
  BY <1>1, <1>2, RowAssumption DEF OwnerOK, TypeOK, Unlocked
<1>6. \A p \in Owners : OwnerOK(p)'
  <2> SUFFICES ASSUME NEW p \in Owners, p # o PROVE OwnerOK(p)'
    BY <1>5
  <2>1. owner'[p] = owner[p]
    BY <1>1, <1>2 DEF TypeOK
  <2> QED
    BY <1>4, <2>1, OwnerStays, Parts DEF ByParts
<1>7. owner[o].op = "retire" => holder[x] = o
  <2> SUFFICES ASSUME owner[o].op = "retire" PROVE holder[x] = o
    OBVIOUS
  <2>1. owner[o].locked = Len(Line[x]) /\ Line[x][Len(Line[x])] = x /\ Len(Line[x]) \in {1, 2, 3}
    BY <1>1, LineRows DEF OwnerRows, RowsToLock
  <2> QED
    BY SMTT(30), <1>1, <2>1, RowSorts
<1>8. \A y \in Parents : parent[y] = "ACTIVE" /\ holder[y] # o => parent'[y] = "ACTIVE"
  BY <1>1, <1>7 DEF TypeOK
<1>9. \A s \in Sessions : SameRows(s) /\ KeptForHolder(s)
  BY <1>2, <1>4, <1>8, RowAssumption DEF KeptForHolder, ActiveBinding
<1>10. \A a \in Actors : AggregateOK(actor[a], a)'
  BY <1>2, Parts DEF ByParts, AggregateOK, historyVars
<1> QED
  BY <1>2, <1>3, <1>6, <1>9, <1>10, NobodyMoves, OutsideSteps

(* A binding's row is revoked or superseded only while nobody holds it.     *)
LEMMA BindingRowSteps ==
  ASSUME IInv, NEW b \in Bindings,
         IssueRow(b) \/ RevokeRow(b) \/ \E old \in Bindings : SupersedeRow(old, b)
  PROVE  IInv'
<1> USE DEF IssueRow, RevokeRow, SupersedeRow
<1>1. TypeOK /\ UNCHANGED <<actor, parent, owner, holder, session, faults, historyVars>>
  BY DEF IInv
<1>2. TypeOK'
  BY <1>1 DEF TypeOK, historyVars, BindingRows, RowStates
<1>3. \A c \in Bindings : ActiveBinding(c) /\ holder[c] # Nobody => binding'[c].status = "ACTIVE"
  BY <1>1 DEF TypeOK, BindingRows, ActiveBinding, Free
<1>4. \A p \in Sessions \cup Owners : SameRows(p)
  BY <1>1 DEF SameRows
<1>5. \A s \in Sessions : SameRows(s) /\ KeptForHolder(s)
  BY <1>1, <1>3, <1>4, RowAssumption DEF KeptForHolder
<1>6. \A o \in Owners : OwnerOK(o)'
  BY <1>1, <1>4, OwnerStays, Parts DEF ByParts
<1>7. \A a \in Actors : AggregateOK(actor[a], a)'
  BY <1>1, Parts DEF ByParts, AggregateOK, historyVars
<1> QED
  BY <1>1, <1>2, <1>5, <1>6, <1>7, NobodyMoves, OutsideSteps

-----------------------------------------------------------------------------

(* An actor's own transaction finds the aggregate unlocked, so no session   *)
(* is in the middle of a transition of it.                                  *)
LEMMA ActorSets ==
  ASSUME IInv, NEW a \in Actors, NEW n \in Aggregates, SetActor(a, n),
         Moves(actor[a], n), AggregateOK(n, a)
  PROVE  IInv'
<1> USE DEF SetActor
<1>1. TypeOK /\ UNCHANGED <<parent, binding, owner, holder, session, faults, works, done, answers>>
  BY DEF IInv, ownerVars, historyVars
<1>2. actor' = [actor EXCEPT ![a] = n] /\ actor'[a] = n
  BY <1>1 DEF TypeOK
<1>3. TypeOK'
  BY <1>1, <1>2 DEF TypeOK
<1>4. ActorsMove
  BY <1>1, <1>2 DEF ActorsMove, Moves, TypeOK
<1>5. \A c \in Actors : AggregateOK(actor[c], c)'
  <2> SUFFICES ASSUME NEW c \in Actors PROVE AggregateOK(actor[c], c)'
    OBVIOUS
  <2>1. CASE c = a
    BY <1>1, <1>2, <2>1 DEF AggregateOK
  <2>2. CASE c # a
    <3>1. actor'[c] = actor[c] /\ AggregateOK(actor[c], c)
      BY <1>1, <1>2, <2>2, Parts DEF ByParts, TypeOK
    <3> QED
      BY <1>1, <3>1 DEF AggregateOK
  <2> QED
    BY <2>1, <2>2
<1>6. \A p \in Sessions \cup Owners : SameRows(p)
  BY <1>1 DEF SameRows
<1>7. \A s \in Sessions : SameRows(s) /\ KeptForHolder(s)
  BY <1>1, <1>2, <1>6, RowAssumption DEF KeptForHolder, Free, TypeOK, ActiveBinding
<1>8. \A o \in Owners : OwnerOK(o)'
  BY <1>1, <1>6, OwnerStays, Parts DEF ByParts
<1> QED
  BY <1>1, <1>3, <1>4, <1>5, <1>7, <1>8, OutsideSteps DEF historyVars

(* A registered aggregate keeps that; an unregistered one is empty.         *)
LEMMA ActorSteps ==
  ASSUME IInv, NEW a \in Actors, ActorStep(a)
  PROVE  IInv'
<1> DEFINE m == actor[a]
<1>1. TypeOK /\ m \in Aggregates /\ AggregateOK(m, a)
  BY Parts DEF ByParts, TypeOK
<1>2. CASE Register(a)
  <2> DEFINE n == [Unregistered EXCEPT !.registered = TRUE, !.ready = TRUE]
  <2>1. n \in Aggregates
    BY DEF Unregistered, Aggregates, Statuses
  <2>2. AggregateOK(n, a)
    BY DEF AggregateOK, Unregistered
  <2>3. m = Unregistered /\ SetActor(a, n)
    BY <1>1, <1>2 DEF AggregateOK, Register
  <2>4. Moves(m, n)
    BY <2>3 DEF Moves, Unregistered
  <2> QED
    BY <2>1, <2>2, <2>3, <2>4, ActorSets
<1>3. CASE Reset(a)
  <2> DEFINE n == [m EXCEPT !.task = None, !.decision = None, !.status = "NONE", !.marks = {},
                            !.binding = None, !.terminal = "none", !.ready = TRUE]
  <2>1. n \in Aggregates
    BY <1>1 DEF Aggregates, Statuses
  <2>2. AggregateOK(n, a)
    BY <1>1, <1>3 DEF AggregateOK, Aggregates, Reset, Unregistered
  <2>3. Moves(m, n)
    <3>1. m.task # None /\ m.task \in m.closed /\ None \notin m.closed
      BY <1>1, <1>3, RowAssumption DEF AggregateOK, Aggregates, Reset
    <3>2. n.task = None /\ n.closed = m.closed
      BY <1>1 DEF Aggregates
    <3> QED
      BY <3>1, <3>2 DEF Moves
  <2> QED
    BY <1>3, <2>1, <2>2, <2>3, ActorSets DEF Reset
<1>4. CASE \E d \in Decisions : AdmitTask(a, d)
  <2> PICK d \in Decisions : AdmitTask(a, d)
    BY <1>4
  <2> DEFINE t == DecidedTask[d]
             n == [m EXCEPT !.task = t, !.decision = d, !.status = "ADMITTED", !.marks = {},
                            !.binding = None, !.terminal = "none", !.ready = FALSE]
  <2>0. t \in Tasks /\ ActorOf[t] = a /\ t # None /\ m.registered /\ m.task = None /\ t \notin m.closed
    BY RowSorts DEF AdmitTask
  <2>1. n \in Aggregates
    <3>1. t \in Tasks \cup {None} /\ d \in Decisions \cup {None}
      BY <2>0
    <3> QED
      BY <1>1, <3>1 DEF Aggregates, Statuses
  <2>2. AggregateOK(n, a)
    BY <1>1, <2>0 DEF AggregateOK, Aggregates
  <2>3. Moves(m, n)
    BY <1>1, <2>0 DEF Moves, AggregateOK, Aggregates
  <2> QED
    BY <2>1, <2>2, <2>3, ActorSets DEF AdmitTask
<1>5. CASE \E b \in Bindings : IssueBinding(a, b) \/ SupersedeBinding(a, b)
  <2> PICK b \in Bindings : IssueBinding(a, b) \/ SupersedeBinding(a, b)
    BY <1>5
  <2> DEFINE n == [m EXCEPT !.binding = b, !.issued = @ \cup {b}]
  <2>0. m.status = "ADMITTED" /\ m.marks = {} /\ SetActor(a, n) /\ m.registered
    BY <1>1 DEF IssueBinding, SupersedeBinding, AggregateOK, Unregistered
  <2>1. n \in Aggregates
    BY <1>1 DEF Aggregates
  <2>2. AggregateOK(n, a)
    BY <1>1, <2>0 DEF AggregateOK, Aggregates
  <2>3. Moves(m, n)
    BY <1>1, <2>0 DEF Moves, Aggregates
  <2> QED
    BY <2>0, <2>1, <2>2, <2>3, ActorSets
<1>6. CASE \E b \in Bindings : AckOutbox(a, b)
  <2> PICK b \in Bindings : AckOutbox(a, b)
    BY <1>6
  <2> DEFINE n == [m EXCEPT !.delivered = @ \cup {b}]
  <2>0. SetActor(a, n) /\ m.registered
    BY <1>1 DEF AckOutbox, AggregateOK, Unregistered
  <2>1. n \in Aggregates
    BY <1>1 DEF Aggregates
  <2>2. AggregateOK(n, a)
    BY <1>1, <2>0 DEF AggregateOK, Aggregates
  <2>3. Moves(m, n)
    BY <1>1 DEF Moves, Aggregates
  <2> QED
    BY <2>0, <2>1, <2>2, <2>3, ActorSets
<1>7. CASE \E independent \in BOOLEAN : ReportHistorical(a, independent)
  <2> DEFINE n == [m EXCEPT !.reports = @ \cup {m.task}, !.terminal = "report",
                            !.status = "CLOSED", !.closed = @ \cup {m.task}, !.ready = FALSE]
  <2>0. SetActor(a, n) /\ m.task # None /\ m.registered
    BY <1>1, <1>7 DEF ReportHistorical, AggregateOK, Unregistered
  <2>1. n \in Aggregates
    BY ZenonT(40), <1>1, <2>0 DEF Aggregates, Statuses
  <2>2. AggregateOK(n, a)
    BY <1>1, <2>0 DEF AggregateOK, Aggregates
  <2>3. Moves(m, n)
    BY <1>1 DEF Moves, Aggregates
  <2> QED
    BY <2>0, <2>1, <2>2, <2>3, ActorSets
<1> QED
  BY <1>2, <1>3, <1>4, <1>5, <1>6, <1>7 DEF ActorStep

-----------------------------------------------------------------------------

(* What is known of a session, and the types of what it may become.         *)
LEMMA SessionFacts ==
  ASSUME IInv, NEW s \in Sessions
  PROVE  /\ TypeOK /\ session[s] \in SessionRecords /\ TransactionOK(s)
         /\ session[s].pc # "idle" =>
              /\ OnTask(s) /\ session[s].b \in Bindings /\ session[s].d \in Decisions
              /\ session[s].d \in Parents /\ Len(Chain(session[s].d)) = 3
              /\ \A i \in 1..3 : Chain(session[s].d)[i] \in Parents \cap Rows
              /\ ActorFor(session[s].b) \in Actors \cap Rows /\ session[s].b \in Rows
              /\ Mine(s) \in Aggregates /\ AggregateOK(Mine(s), ActorFor(session[s].b))
<1>1. TypeOK /\ session[s] \in SessionRecords /\ TransactionOK(s)
  BY Parts DEF ByParts, TypeOK
<1>2. session[s].pc # "idle" => OnTask(s)
  BY <1>1 DEF TransactionOK
<1>3. session[s].pc # "idle" => /\ session[s].b \in Bindings /\ session[s].d \in Decisions
                                /\ session[s].d \in Parents /\ Len(Chain(session[s].d)) = 3
  BY <1>2 DEF OnTask, Decisions, Chain
<1>4. session[s].pc # "idle" => /\ \A i \in 1..3 : Chain(session[s].d)[i] \in Parents \cap Rows
                                /\ ActorFor(session[s].b) \in Actors \cap Rows /\ session[s].b \in Rows
  BY <1>3, LineRows, RowSorts DEF Chain
<1>5. session[s].pc # "idle" => /\ Mine(s) \in Aggregates
                                /\ AggregateOK(Mine(s), ActorFor(session[s].b))
  BY <1>1, <1>4, Parts DEF ByParts, TypeOK, Mine
<1> QED
  BY <1>1, <1>2, <1>3, <1>4, <1>5

LEMMA IdleIsTyped == Idle \in SessionRecords
<1>1. Unregistered \in Aggregates
  BY DEF Unregistered, Aggregates, Statuses
<1> QED
  BY <1>1 DEF Idle, SessionRecords, SessionStates, Transitions

(* A session that holds no row has nothing to keep but its task.            *)
LEMMA Rests ==
  ASSUME TypeOK, NEW s \in Sessions, NEW w, session' = [session EXCEPT ![s] = w],
         ~HoldsActor(w), w.locked = 0, \A r \in Rows : holder'[r] # s,
         w.pc # "idle" => OnTask(s)'
  PROVE  TransactionOK(s)'
<1>1. session'[s] = w
  BY DEF TypeOK
<1>2. ~Drafted(w) /\ ~GuardPassed(w)
  BY DEF Drafted, GuardPassed, HoldsActor
<1> QED
  BY <1>1, <1>2 DEF TransactionOK

LEMMA UnlockedNone ==
  ASSUME NEW s \in Sessions, holder' = Unlocked(s)
  PROVE  \A r \in Rows : holder'[r] # s
BY RowAssumption DEF Unlocked

LEMMA HoldsNone ==
  ASSUME NEW s \in Sessions, TransactionOK(s), ~HoldsActor(session[s])
  PROVE  \A r \in Rows : holder[r] # s
BY DEF TransactionOK

(* The end of a call: everything is unlocked, or nothing was locked.        *)
LEMMA Rolls ==
  ASSUME IInv, NEW s \in Sessions, NEW w \in SessionRecords, PrivateStep(s, w),
         UNCHANGED works, faults' \in Nat, AnswersAreTrue',
         answers' \subseteq Transitions \X Bindings,
         Licensed(w) => Licensed(session[s]) /\ w.b = session[s].b,
         ~HoldsActor(w), w.locked = 0,
         holder' = Unlocked(s) \/ (UNCHANGED holder /\ ~HoldsActor(session[s])),
         w.pc # "idle" => session[s].pc # "idle" /\ w.b = session[s].b /\ w.d = session[s].d
  PROVE  IInv'
<1>1. TypeOK /\ TransactionOK(s) /\ session' = [session EXCEPT ![s] = w] /\ session'[s] = w
      /\ UNCHANGED actor
  BY SessionFacts DEF PrivateStep, TypeOK
<1>2. \A r \in Rows : holder'[r] # s
  BY <1>1, UnlockedNone, HoldsNone
<1>3. w.pc # "idle" => OnTask(s)'
  <2> SUFFICES ASSUME w.pc # "idle" PROVE OnTask(s)'
    OBVIOUS
  <2>1. OnTask(s) /\ session'[s].b = session[s].b /\ session'[s].d = session[s].d
    BY <1>1, SessionFacts
  <2>2. ActorsMove
    BY <1>1, NobodyMoves
  <2> QED
    BY <1>1, <2>1, <2>2, OnTaskStays
<1>4. TransactionOK(s)'
  BY <1>1, <1>2, <1>3, Rests
<1> QED
  BY <1>4, PrivateSteps

LEMMA RollbackKeeps ==
  ASSUME IInv, NEW s \in Sessions, Rollback(s)
  PROVE  IInv'
<1>1. TypeOK /\ AnswersAreTrue
  BY DEF IInv
<1>2. PrivateStep(s, Idle) /\ UNCHANGED <<faults, works, answers, done>> /\ holder' = Unlocked(s)
  BY DEF Rollback, PrivateStep, Goto, historyVars
<1>3. AnswersAreTrue' /\ faults' \in Nat
      /\ answers' \subseteq Transitions \X Bindings
  BY <1>1, <1>2 DEF AnswersAreTrue, TypeOK
<1>4. ~Licensed(Idle) /\ ~HoldsActor(Idle) /\ Idle.locked = 0 /\ Idle.pc = "idle"
  BY DEF Idle, Licensed, HoldsActor
<1> QED
  BY <1>2, <1>3, <1>4, IdleIsTyped, Rolls

LEMMA QuietHistory ==
  ASSUME IInv, UNCHANGED <<answers, done>>
  PROVE  /\ AnswersAreTrue'
         /\ answers' \subseteq Transitions \X Bindings
BY DEF IInv, TypeOK, AnswersAreTrue

(* An episode and a close begin with the decision the actor's task has.     *)
LEMMA Begins ==
  ASSUME IInv, NEW s \in Sessions, NEW b \in Bindings, RunBegin(s, b) \/ Release(s, b)
  PROVE  IInv'
<1> DEFINE m == actor[ActorFor(b)]
           w == [Idle EXCEPT !.pc = "ready", !.b = b, !.d = m.decision, !.episode = TRUE]
           v == [Idle EXCEPT !.pc = "ready", !.op = "CLOSE", !.b = b, !.d = m.decision]
<1>1. TypeOK /\ TransactionOK(s) /\ session[s].pc = "idle" /\ m.task = BindingTask[b]
      /\ UNCHANGED <<actor, ownerVars, holder, faults, historyVars>>
  BY SessionFacts DEF RunBegin, Release, At
<1>2. ActorFor(b) \in Actors /\ BindingTask[b] # None /\ b # None
  BY RowSorts
<1>3. AggregateOK(m, ActorFor(b)) /\ m.task # None
  BY <1>1, <1>2, Parts DEF ByParts
<1>4. m.decision \in Decisions /\ DecidedTask[m.decision] = BindingTask[b]
  BY <1>1, <1>3 DEF AggregateOK
<1>5. w \in SessionRecords /\ v \in SessionRecords
  BY <1>4, IdleIsTyped DEF SessionRecords, SessionStates, Transitions
<1>6. \E u \in {w, v} : PrivateStep(s, u)
  BY <1>1 DEF RunBegin, Release, PrivateStep, Goto, historyVars
<1> PICK u \in {w, v} : PrivateStep(s, u)
  BY <1>6
<1>7. u.pc = "ready" /\ u.b = b /\ u.d = m.decision /\ u.locked = 0
  BY DEF Idle
<1>8. ~HoldsActor(u) /\ ~Licensed(u) /\ u \in SessionRecords
  BY <1>5, <1>7 DEF HoldsActor, Licensed
<1>9. session' = [session EXCEPT ![s] = u] /\ session'[s] = u /\ UNCHANGED actor
  BY <1>1 DEF PrivateStep, TypeOK
<1>10. OnTask(s)'
  BY <1>1, <1>4, <1>7, <1>9 DEF OnTask, Mine, ActorFor
<1>11. \A r \in Rows : holder'[r] # s
  BY <1>1, HoldsNone DEF HoldsActor
<1>12. TransactionOK(s)'
  BY <1>1, <1>7, <1>8, <1>9, <1>10, <1>11, Rests
<1>13. UNCHANGED <<works, answers, done>> /\ faults' \in Nat
  BY <1>1 DEF historyVars, TypeOK
<1> QED
  BY <1>8, <1>12, <1>13, QuietHistory, PrivateSteps

(* A step by which a transaction goes on, given what it holds afterwards.   *)
LEMMA GoesOn ==
  ASSUME IInv, NEW s \in Sessions, NEW w \in SessionRecords, PrivateStep(s, w),
         UNCHANGED <<works, answers>>, faults' \in Nat,
         session[s].pc # "idle", w.b = session[s].b, w.d = session[s].d, HoldsActor(w),
         holder'[ActorFor(w.b)] = s, w.locked <= 3,
         \A i \in 1..w.locked : holder'[Chain(w.d)[i]] = s /\ parent[Chain(w.d)[i]] = "ACTIVE",
         Drafted(w) => w.locked = 3 /\ Ready(Mine(s), w.op, w.b) /\ w.new = Applied(Mine(s), w.op, w.b),
         GuardPassed(w) => holder'[w.b] = s /\ ActiveBinding(w.b),
         \A r \in Rows : holder'[r] = s =>
            \/ r = ActorFor(w.b) \/ \E i \in 1..w.locked : r = Chain(w.d)[i]
            \/ r = w.b /\ (Drafted(w) \/ (w.locked = 3 /\ w.op = "CLOSE"))
  PROVE  IInv'
<1>1. TypeOK /\ session'[s] = w /\ UNCHANGED <<actor, parent, binding, done>>
  BY SessionFacts DEF PrivateStep, TypeOK, ownerVars
<1>2. OnTask(s)'
  <2>1. OnTask(s) /\ session'[s].b = session[s].b /\ session'[s].d = session[s].d
    BY <1>1, SessionFacts
  <2>2. ActorsMove
    BY <1>1, NobodyMoves
  <2> QED
    BY <1>1, <2>1, <2>2, OnTaskStays
<1>3. Len(Chain(w.d)) = 3 /\ Mine(s)' = Mine(s)
  BY <1>1, SessionFacts DEF Mine
<1>4. ~Licensed(w)
  BY DEF Licensed, HoldsActor
<1>5. TransactionOK(s)'
  BY ZenonT(40), <1>1, <1>2, <1>3 DEF TransactionOK, ActiveBinding
<1> QED
  BY <1>1, <1>4, <1>5, QuietHistory, PrivateSteps

LEMMA LockActorKeeps ==
  ASSUME IInv, NEW s \in Sessions, LockActor(s)
  PROVE  IInv'
<1> DEFINE w == session[s]  r == ActorFor(w.b)
<1>1. /\ TypeOK /\ w \in SessionRecords /\ w.pc = "ready" /\ w.locked = 0 /\ ~HoldsActor(w)
      /\ r \in Rows /\ holder[r] = Nobody
      /\ UNCHANGED <<actor, ownerVars, faults, historyVars>>
  BY SessionFacts DEF LockActor, At, Free, TransactionOK, HoldsActor
<1>2. CASE Replayed(Mine(s), w.op, w.b)
  <2>1. PrivateStep(s, Idle) /\ UNCHANGED holder
    BY <1>1, <1>2 DEF LockActor, PrivateStep, Goto, AfterReplay, historyVars
  <2>2. ~Licensed(Idle) /\ ~HoldsActor(Idle) /\ Idle.locked = 0 /\ Idle.pc = "idle"
    BY DEF Idle, Licensed, HoldsActor
  <2>3. UNCHANGED <<works, answers, done>> /\ faults' \in Nat
    BY <1>1 DEF historyVars, TypeOK
  <2> QED
    BY <1>1, <2>1, <2>2, <2>3, QuietHistory, IdleIsTyped, Rolls
<1>3. CASE ~Replayed(Mine(s), w.op, w.b)
  <2> DEFINE v == [w EXCEPT !.pc = "locking"]
  <2>1. v \in SessionRecords /\ v.b = w.b /\ v.d = w.d /\ v.locked = 0 /\ v.pc = "locking"
    BY <1>1 DEF SessionRecords, SessionStates
  <2>2. PrivateStep(s, v) /\ holder' = [holder EXCEPT ![r] = s]
    BY <1>1, <1>3 DEF LockActor, PrivateStep, Goto, Lock, historyVars
  <2>3. HoldsActor(v) /\ ~Drafted(v) /\ ~GuardPassed(v)
    BY <2>1 DEF HoldsActor, Drafted, GuardPassed
  <2>4. holder'[r] = s /\ \A q \in Rows : holder'[q] = s => q = r
    BY <1>1, <2>2, HoldsNone, SessionFacts DEF TypeOK
  <2>5. UNCHANGED <<works, answers, done>> /\ faults' \in Nat
    BY <1>1 DEF historyVars, TypeOK
  <2>6. 1..v.locked = {} /\ v.locked <= 3 /\ w.pc # "idle"
    BY <1>1, <2>1
  <2> HIDE DEF v
  <2> QED
    BY <2>1, <2>2, <2>3, <2>4, <2>5, <2>6, GoesOn
<1> QED
  BY <1>2, <1>3

LEMMA LockParentKeeps ==
  ASSUME IInv, NEW s \in Sessions, LockParent(s)
  PROVE  IInv'
<1> DEFINE w == session[s]  k == w.locked  x == Chain(w.d)[k + 1]
<1>1. /\ TypeOK /\ w \in SessionRecords /\ w.pc = "locking" /\ k \in 0..2 /\ TransactionOK(s)
      /\ x \in Rows /\ holder[x] = Nobody /\ NextRow(w) = x
  BY SessionFacts DEF LockParent, At, Free, NextRow, SessionRecords
<1>2. CASE parent[x] = "ACTIVE"
  <2> DEFINE v == [w EXCEPT !.locked = k + 1]
  <2>1. v \in SessionRecords /\ v.b = w.b /\ v.d = w.d /\ v.locked = k + 1 /\ v.pc = "locking"
    BY <1>1 DEF SessionRecords, SessionStates
  <2>2. PrivateStep(s, v) /\ holder' = [holder EXCEPT ![x] = s]
        /\ UNCHANGED <<faults, works, answers>>
    BY <1>1, <1>2 DEF LockParent, PrivateStep, Goto, Lock, historyVars
  <2>3. HoldsActor(v) /\ HoldsActor(w) /\ ~Drafted(v) /\ ~GuardPassed(v) /\ ~Drafted(w)
    BY <1>1, <2>1 DEF HoldsActor, Drafted, GuardPassed
  <2>4. /\ holder[ActorFor(w.b)] = s
        /\ \A i \in 1..k : holder[Chain(w.d)[i]] = s /\ parent[Chain(w.d)[i]] = "ACTIVE"
        /\ \A r \in Rows : holder[r] = s =>
             r = ActorFor(w.b) \/ \E i \in 1..k : r = Chain(w.d)[i]
    BY <1>1, <2>3, SessionFacts DEF TransactionOK
  <2>5. /\ ActorFor(w.b) \in Rows /\ w.d \in Parents /\ \A i \in 1..3 : Chain(w.d)[i] \in Rows
    BY <1>1, SessionFacts
  <2>6. \A r \in Rows : (holder'[r] = s) <=> (r = x \/ holder[r] = s)
    BY <1>1, <2>2 DEF TypeOK
  <2>7. \A i \in 1..(k + 1) : holder'[Chain(w.d)[i]] = s /\ parent[Chain(w.d)[i]] = "ACTIVE"
    <3> SUFFICES ASSUME NEW i \in 1..(k + 1)
                 PROVE  holder'[Chain(w.d)[i]] = s /\ parent[Chain(w.d)[i]] = "ACTIVE"
      OBVIOUS
    <3>1. Chain(w.d)[i] \in Rows /\ (i = k + 1 \/ i \in 1..k)
      BY <1>1, <2>5
    <3> QED
      BY <1>2, <2>4, <2>6, <3>1
  <2>8. \A r \in Rows : holder'[r] = s =>
             r = ActorFor(w.b) \/ \E i \in 1..(k + 1) : r = Chain(w.d)[i]
    <3> SUFFICES ASSUME NEW r \in Rows, holder'[r] = s
                 PROVE  r = ActorFor(w.b) \/ \E i \in 1..(k + 1) : r = Chain(w.d)[i]
      OBVIOUS
    <3>1. CASE r = x
      BY <1>1, <3>1
    <3>2. CASE \E i \in 1..k : r = Chain(w.d)[i]
      BY <1>1, <3>2
    <3> QED
      BY <2>4, <2>6, <3>1, <3>2
  <2>9. holder'[ActorFor(w.b)] = s /\ v.locked <= 3 /\ faults' \in Nat /\ w.pc # "idle"
    BY <1>1, <2>1, <2>2, <2>4, <2>5, <2>6 DEF TypeOK
  <2>10. \A i \in 1..v.locked : holder'[Chain(v.d)[i]] = s /\ parent[Chain(v.d)[i]] = "ACTIVE"
    BY <2>1, <2>7
  <2>11. \A r \in Rows : holder'[r] = s =>
            r = ActorFor(v.b) \/ \E i \in 1..v.locked : r = Chain(v.d)[i]
    BY <2>1, <2>8
  <2> HIDE DEF v
  <2> QED
    BY <2>1, <2>2, <2>3, <2>9, <2>10, <2>11, GoesOn
<1>3. CASE parent[x] # "ACTIVE"
  BY <1>1, <1>3, RollbackKeeps DEF LockParent
<1> QED
  BY <1>2, <1>3

(* What a transaction that holds its line has: three active rows and more.  *)
LEMMA LineHeld ==
  ASSUME IInv, NEW s \in Sessions, HoldsActor(session[s]), session[s].locked = 3
  PROVE  LET w == session[s] IN
         /\ holder[ActorFor(w.b)] = s
         /\ \A i \in 1..3 : holder[Chain(w.d)[i]] = s /\ parent[Chain(w.d)[i]] = "ACTIVE"
         /\ \A r \in Rows : holder[r] = s =>
              \/ r = ActorFor(w.b) \/ \E i \in 1..3 : r = Chain(w.d)[i]
              \/ r = w.b /\ (Drafted(w) \/ w.op = "CLOSE")
BY SessionFacts DEF TransactionOK

LEMMA LockBindingKeeps ==
  ASSUME IInv, NEW s \in Sessions, LockBindingToClose(s)
  PROVE  IInv'
<1> DEFINE w == session[s]
<1>1. /\ TypeOK /\ w \in SessionRecords /\ w.pc = "locking" /\ w.op = "CLOSE" /\ w.locked = 3
      /\ w.b \in Rows /\ w.b \in Bindings /\ holder[w.b] = Nobody
  BY SessionFacts DEF LockBindingToClose, At, Free
<1>2. CASE ActiveBinding(w.b)
  <2>1. /\ session' = [session EXCEPT ![s] = w] /\ holder' = [holder EXCEPT ![w.b] = s]
        /\ UNCHANGED <<actor, ownerVars, done, faults, works, answers>>
    BY <1>1, <1>2 DEF LockBindingToClose, Lock, historyVars, TypeOK
  <2>2. PrivateStep(s, w)
    BY <1>1, <2>1 DEF PrivateStep, Lock
  <2>3. HoldsActor(w) /\ ~Drafted(w) /\ ~GuardPassed(w)
    BY <1>1 DEF HoldsActor, Drafted, GuardPassed
  <2>4. \A r \in Rows : (holder'[r] = s) <=> (r = w.b \/ holder[r] = s)
    BY <1>1, <2>1 DEF TypeOK
  <2>5. /\ ActorFor(w.b) \in Rows /\ \A i \in 1..3 : Chain(w.d)[i] \in Rows
    BY <1>1, SessionFacts
  <2>6. holder'[ActorFor(w.b)] = s
        /\ \A i \in 1..w.locked : holder'[Chain(w.d)[i]] = s /\ parent[Chain(w.d)[i]] = "ACTIVE"
    BY <1>1, <2>3, <2>4, <2>5, LineHeld
  <2>7. \A r \in Rows : holder'[r] = s =>
            \/ r = ActorFor(w.b) \/ \E i \in 1..w.locked : r = Chain(w.d)[i]
            \/ r = w.b /\ (Drafted(w) \/ (w.locked = 3 /\ w.op = "CLOSE"))
    BY <1>1, <2>3, <2>4, LineHeld
  <2>8. UNCHANGED <<works, answers>> /\ faults' \in Nat
    BY <1>1, <2>1 DEF TypeOK
  <2> QED
    BY <1>1, <2>2, <2>3, <2>6, <2>7, <2>8, GoesOn
<1>3. CASE ~ActiveBinding(w.b)
  BY <1>1, <1>3, RollbackKeeps DEF LockBindingToClose
<1> QED
  BY <1>2, <1>3

(* A ready transition turns an aggregate into an aggregate.                 *)
LEMMA AppliedIsTyped ==
  ASSUME NEW m \in Aggregates, NEW op \in Transitions, NEW b \in Bindings, Ready(m, op, b)
  PROVE  Applied(m, op, b) \in Aggregates
<1>1. m.task \in Tasks
  BY RowSorts DEF Ready
<1>2. CASE op = "CONSUME"
  BY <1>2 DEF Applied, Aggregates, Statuses
<1>3. CASE op = "START"
  BY <1>3 DEF Applied, Aggregates, Statuses
<1>4. CASE op = "FINISH"
  BY <1>4 DEF Applied, Aggregates, Statuses
<1>5. CASE op = "CLOSE"
  BY ZenonT(40), <1>1, <1>5 DEF Applied, Aggregates, Statuses
<1> QED
  BY <1>2, <1>3, <1>4, <1>5 DEF Transitions

LEMMA DraftKeeps ==
  ASSUME IInv, NEW s \in Sessions, Draft(s)
  PROVE  IInv'
<1> DEFINE w == session[s]  n == Applied(Mine(s), w.op, w.b)
<1>1. /\ TypeOK /\ w \in SessionRecords /\ w.pc = "locking" /\ w.locked = 3 /\ w.b \in Bindings
      /\ w.op \in Transitions /\ Mine(s) \in Aggregates
  BY SessionFacts DEF Draft, At, SessionRecords
<1>2. CASE Ready(Mine(s), w.op, w.b) /\ ActiveBinding(w.b)
  <2> DEFINE v == [w EXCEPT !.pc = "drafted", !.new = n]
  <2>1. n \in Aggregates
    BY <1>1, <1>2, AppliedIsTyped
  <2> HIDE DEF n
  <2>2. v \in SessionRecords /\ v.b = w.b /\ v.d = w.d /\ v.locked = 3 /\ v.pc = "drafted"
        /\ v.op = w.op /\ v.new = n
    BY <1>1, <2>1 DEF SessionRecords, SessionStates
  <2>3. PrivateStep(s, v) /\ UNCHANGED <<holder, faults, works, answers>>
    BY <1>1, <1>2 DEF Draft, PrivateStep, Goto, historyVars, n
  <2> HIDE DEF v
  <2>4. HoldsActor(v) /\ HoldsActor(w) /\ Drafted(v) /\ ~GuardPassed(v)
    BY <1>1, <2>2 DEF HoldsActor, Drafted, GuardPassed
  <2>5. holder'[ActorFor(v.b)] = s
        /\ \A i \in 1..v.locked : holder'[Chain(v.d)[i]] = s /\ parent[Chain(v.d)[i]] = "ACTIVE"
    BY <1>1, <2>2, <2>3, <2>4, LineHeld
  <2>6. \A r \in Rows : holder'[r] = s =>
            \/ r = ActorFor(v.b) \/ \E i \in 1..v.locked : r = Chain(v.d)[i]
            \/ r = v.b /\ (Drafted(v) \/ (v.locked = 3 /\ v.op = "CLOSE"))
    BY <1>1, <2>2, <2>3, <2>4, LineHeld
  <2>7. faults' \in Nat /\ w.pc # "idle" /\ v.locked <= 3
    BY <1>1, <2>2, <2>3 DEF TypeOK
  <2>8. Ready(Mine(s), v.op, v.b) /\ v.new = Applied(Mine(s), v.op, v.b)
    BY <1>2, <2>2 DEF n
  <2> QED
    BY <2>2, <2>3, <2>4, <2>5, <2>6, <2>7, <2>8, GoesOn
<1>3. CASE ~(Ready(Mine(s), w.op, w.b) /\ ActiveBinding(w.b))
  BY <1>1, <1>3, RollbackKeeps DEF Draft
<1> QED
  BY <1>2, <1>3

(* What a drafted transaction has: its line, and the aggregate it read.     *)
LEMMA DraftHeld ==
  ASSUME IInv, NEW s \in Sessions, Drafted(session[s])
  PROVE  LET w == session[s] IN
         /\ HoldsActor(w) /\ w.locked = 3 /\ Ready(Mine(s), w.op, w.b)
         /\ w.new = Applied(Mine(s), w.op, w.b)
         /\ GuardPassed(w) => holder[w.b] = s /\ ActiveBinding(w.b)
<1>1. HoldsActor(session[s]) /\ session[s].pc # "idle"
  BY DEF Drafted, HoldsActor
<1> QED
  BY <1>1, SessionFacts DEF TransactionOK

LEMMA GuardKeeps ==
  ASSUME IInv, NEW s \in Sessions, Guard(s)
  PROVE  IInv'
<1> DEFINE w == session[s]
<1>1. /\ TypeOK /\ w \in SessionRecords /\ w.pc = "drafted" /\ w.b \in Rows
      /\ holder[w.b] \in {Nobody, s} /\ Drafted(w)
  BY SessionFacts DEF Guard, At, Drafted
<1>2. CASE ActiveBinding(w.b)
  <2> DEFINE v == [w EXCEPT !.pc = "committing"]
  <2>1. v \in SessionRecords /\ v.b = w.b /\ v.d = w.d /\ v.locked = 3 /\ v.pc = "committing"
        /\ v.op = w.op /\ v.new = w.new
    BY <1>1, DraftHeld DEF SessionRecords, SessionStates
  <2>2. PrivateStep(s, v) /\ holder' = [holder EXCEPT ![w.b] = s]
        /\ UNCHANGED <<faults, works, answers>>
    BY <1>1, <1>2 DEF Guard, Guarded, PrivateStep, Goto, Lock, historyVars
  <2> HIDE DEF v
  <2>3. HoldsActor(v) /\ HoldsActor(w) /\ Drafted(v) /\ w.locked = 3
    BY <1>1, <2>1, DraftHeld DEF HoldsActor, Drafted
  <2>4. \A r \in Rows : (holder'[r] = s) <=> (r = w.b \/ holder[r] = s)
    BY <1>1, <2>2 DEF TypeOK
  <2>5. /\ ActorFor(w.b) \in Rows /\ \A i \in 1..3 : Chain(w.d)[i] \in Rows
    BY <1>1, SessionFacts
  <2>6. holder'[ActorFor(v.b)] = s /\ holder'[v.b] = s
        /\ \A i \in 1..v.locked : holder'[Chain(v.d)[i]] = s /\ parent[Chain(v.d)[i]] = "ACTIVE"
    BY <1>1, <2>1, <2>3, <2>4, <2>5, LineHeld
  <2>7. \A r \in Rows : holder'[r] = s =>
            \/ r = ActorFor(v.b) \/ \E i \in 1..v.locked : r = Chain(v.d)[i]
            \/ r = v.b /\ (Drafted(v) \/ (v.locked = 3 /\ v.op = "CLOSE"))
    BY <1>1, <2>1, <2>3, <2>4, LineHeld
  <2>8. faults' \in Nat /\ w.pc # "idle" /\ v.locked <= 3
    BY <1>1, <2>1, <2>2 DEF TypeOK
  <2>9. Ready(Mine(s), v.op, v.b) /\ v.new = Applied(Mine(s), v.op, v.b) /\ ActiveBinding(v.b)
    BY <1>1, <1>2, <2>1, DraftHeld
  <2> QED
    BY <2>1, <2>2, <2>3, <2>6, <2>7, <2>8, <2>9, GoesOn
<1>3. CASE ~ActiveBinding(w.b)
  BY <1>1, <1>3, RollbackKeeps DEF Guard, Guarded
<1> QED
  BY <1>2, <1>3

-----------------------------------------------------------------------------

(* A transaction in doubt keeps its locks, whoever is left to ask.          *)
LEMMA DoubtKeeps ==
  ASSUME IInv, NEW s \in Sessions, NEW pc \in {"lost", "told"}, GuardPassed(session[s]),
         Goto(s, [session[s] EXCEPT !.pc = pc]),
         UNCHANGED <<actor, ownerVars, holder, done, works>>, faults' \in Nat, AnswersAreTrue',
         answers' \subseteq Transitions \X Bindings
  PROVE  IInv'
<1> DEFINE w == session[s]  v == [w EXCEPT !.pc = pc]
<1>1. TypeOK /\ TransactionOK(s) /\ w \in SessionRecords /\ w.pc # "idle" /\ HoldsActor(w) /\ Drafted(w)
  BY SessionFacts DEF GuardPassed, HoldsActor, Drafted
<1>2. v \in SessionRecords /\ v.pc = pc /\ v.b = w.b /\ v.d = w.d /\ v.op = w.op /\ v.new = w.new
      /\ v.locked = w.locked
  BY <1>1 DEF SessionRecords, SessionStates
<1>3. PrivateStep(s, v) /\ session'[s] = v
  BY <1>1 DEF PrivateStep, Goto, TypeOK
<1> HIDE DEF v
<1>4. HoldsActor(v) /\ Drafted(v) /\ GuardPassed(v) /\ ~Licensed(v)
  BY <1>2 DEF HoldsActor, Drafted, GuardPassed, Licensed
<1>5. OnTask(s)'
  <2>1. OnTask(s) /\ session'[s].b = session[s].b /\ session'[s].d = session[s].d
    BY <1>1, <1>2, <1>3, SessionFacts
  <2>2. ActorsMove
    BY NobodyMoves
  <2> QED
    BY <1>1, <2>1, <2>2, OnTaskStays
<1>6. Mine(s)' = Mine(s) /\ UNCHANGED <<parent, binding, holder>>
  BY <1>2, <1>3 DEF Mine, ownerVars
<1>7. TransactionOK(s)'
  BY <1>1, <1>2, <1>3, <1>4, <1>5, <1>6 DEF TransactionOK, ActiveBinding
<1> QED
  BY <1>2, <1>3, <1>4, <1>7, PrivateSteps

LEMMA LoseKeeps ==
  ASSUME IInv, NEW s \in Sessions, Lose(s)
  PROVE  IInv'
<1>1. TypeOK /\ GuardPassed(session[s])
  BY DEF IInv, Lose, At, GuardPassed
<1>2. Goto(s, [session[s] EXCEPT !.pc = "lost"]) /\ faults' \in Nat
      /\ UNCHANGED <<actor, ownerVars, holder, works, answers, done>>
  BY <1>1 DEF Lose, historyVars, TypeOK
<1> QED
  BY <1>1, <1>2, DoubtKeeps, QuietHistory

LEMMA CrashKeeps ==
  ASSUME IInv, NEW s \in Sessions, Crash(s)
  PROVE  IInv'
<1>1. TypeOK /\ faults' \in Nat /\ UNCHANGED <<actor, ownerVars, works, answers, done>>
  BY DEF IInv, Crash, TypeOK, historyVars
<1>2. CASE session[s].pc \in {"committing", "lost"}
  BY <1>1, <1>2, DoubtKeeps, QuietHistory DEF Crash, GuardPassed
<1>3. CASE session[s].pc \notin {"committing", "lost"}
  <2>1. PrivateStep(s, Idle) /\ holder' = Unlocked(s)
    BY <1>1, <1>3 DEF Crash, PrivateStep, Goto
  <2>2. ~Licensed(Idle) /\ ~HoldsActor(Idle) /\ Idle.locked = 0 /\ Idle.pc = "idle"
    BY DEF Idle, Licensed, HoldsActor
  <2> QED
    BY <1>1, <2>1, <2>2, QuietHistory, IdleIsTyped, Rolls
<1> QED
  BY <1>2, <1>3

LEMMA DropKeeps ==
  ASSUME IInv, NEW s \in Sessions, Drop(s)
  PROVE  IInv'
<1> DEFINE w == session[s]  asks == [w EXCEPT !.pc = "asking", !.locked = 0]
           v == IF At(s, "lost") THEN asks ELSE Idle
<1>1. TypeOK /\ w \in SessionRecords /\ w.pc # "idle" /\ faults' \in Nat
      /\ UNCHANGED <<actor, ownerVars, works, answers, done>>
  BY SessionFacts DEF Drop, InDoubt, historyVars, TypeOK
<1>2. /\ asks \in SessionRecords /\ asks.pc = "asking" /\ asks.locked = 0
      /\ asks.b = w.b /\ asks.d = w.d
  <2>1. 0 \in 0..3 /\ "asking" \in SessionStates
    BY DEF SessionStates
  <2> QED
    BY <1>1, <2>1 DEF SessionRecords
<1>3. v \in SessionRecords /\ ~Licensed(v) /\ ~HoldsActor(v) /\ v.locked = 0
      /\ (v.pc # "idle" => v.b = w.b /\ v.d = w.d)
  BY <1>2, IdleIsTyped DEF Idle, Licensed, HoldsActor
<1>4. PrivateStep(s, v) /\ holder' = Unlocked(s)
  BY <1>1 DEF Drop, Settled, PrivateStep, Goto
<1> QED
  BY <1>1, <1>3, <1>4, QuietHistory, Rolls

(* The read-back after COMMIT; a START that is found is the licence to work. *)
LEMMA ReadbackKeeps ==
  ASSUME IInv, NEW s \in Sessions, Readback(s)
  PROVE  IInv'
<1> DEFINE w == session[s]
           After == {[w EXCEPT !.pc = "ready", !.op = "START"], [w EXCEPT !.pc = "work"],
                     [w EXCEPT !.pc = "ready", !.op = "CLOSE"], [w EXCEPT !.pc = "verify"],
                     [w EXCEPT !.pc = "asking"], Idle}
<1>1. TypeOK /\ w \in SessionRecords /\ w.pc = "readback" /\ w.op \in Transitions
      /\ w.locked = 0 /\ ~HoldsActor(w) /\ faults' \in Nat
      /\ UNCHANGED <<actor, ownerVars, holder, works, answers, done>>
  BY SessionFacts DEF Readback, At, historyVars, TypeOK, SessionRecords, TransactionOK, HoldsActor
<1>2. \E v \in After : Goto(s, v) /\ (v.pc = "work" => w.op = "START")
  BY <1>1 DEF Readback, Transitions, Idle, SessionRecords
<1> PICK v \in After : Goto(s, v) /\ (v.pc = "work" => w.op = "START")
  BY <1>2
<1>3. v \in SessionRecords /\ v.locked = 0 /\ v.pc \in {"ready", "work", "verify", "asking", "idle"}
      /\ (v.pc # "idle" => v.b = w.b /\ v.d = w.d)
  <2>1. CASE v = [w EXCEPT !.pc = "ready", !.op = "START"] \/ v = [w EXCEPT !.pc = "ready", !.op = "CLOSE"]
    BY <1>1, <2>1 DEF SessionRecords, SessionStates, Transitions
  <2>2. CASE \E pc \in {"work", "verify", "asking"} : v = [w EXCEPT !.pc = pc]
    BY <1>1, <2>2 DEF SessionRecords, SessionStates
  <2>3. CASE v = Idle
    BY <2>3, IdleIsTyped DEF Idle
  <2> QED
    BY <2>1, <2>2, <2>3
<1>5. ~HoldsActor(v) /\ (Licensed(v) => Licensed(w) /\ v.b = w.b)
  BY <1>1, <1>2, <1>3 DEF Licensed, HoldsActor
<1>6. PrivateStep(s, v)
  BY <1>1 DEF PrivateStep, Goto
<1> QED
  BY <1>1, <1>3, <1>5, <1>6, QuietHistory, Rolls

(* Whatever a read-back calls committed is in the history.                  *)
LEMMA SaidIsDone ==
  ASSUME NEW m \in Aggregates, NEW a \in Actors, AggregateOK(m, a),
         NEW op \in Transitions, NEW b \in Bindings
  PROVE  Said(m, op, b) => <<op, b>> \in done
<1>1. CASE op \in {"CONSUME", "START"}
  BY <1>1 DEF Said, Replayed, AggregateOK
<1>2. CASE op = "FINISH"
  BY <1>2 DEF Said, AggregateOK
<1>3. CASE op = "CLOSE"
  BY <1>3 DEF Said, AggregateOK
<1> QED
  BY <1>1, <1>2, <1>3 DEF Transitions

LEMMA ReconcileKeeps ==
  ASSUME IInv, NEW s \in Sessions, Reconcile(s)
  PROVE  IInv'
<1> DEFINE w == session[s]  a == ActorFor(w.b)  said == Said(Mine(s), w.op, w.b)
<1>1. /\ TypeOK /\ w \in SessionRecords /\ TransactionOK(s) /\ w.pc \in {"lost", "asking", "verify"}
      /\ w.b \in Bindings /\ w.op \in Transitions /\ a \in Actors
      /\ Mine(s) \in Aggregates /\ AggregateOK(Mine(s), a) /\ AnswersAreTrue
      /\ UNCHANGED <<actor, ownerVars, holder, faults, works, done>> /\ faults' \in Nat
  BY SessionFacts DEF Reconcile, SessionRecords, IInv, TypeOK
<1>2. said => <<w.op, w.b>> \in done
  BY <1>1, SaidIsDone
<1>3. answers' = answers \cup (IF said THEN {<<w.op, w.b>>} ELSE {})
  BY DEF Reconcile
<1> HIDE DEF said
<1>4. answers' \subseteq Transitions \X Bindings
  <2>1. answers \subseteq Transitions \X Bindings
    BY <1>1 DEF TypeOK
  <2>2. <<w.op, w.b>> \in Transitions \X Bindings
    BY <1>1
  <2> QED
    BY <1>3, <2>1, <2>2
<1>5. AnswersAreTrue'
  BY <1>1, <1>2, <1>3 DEF AnswersAreTrue
<1>6. CASE w.pc = "lost"
  <2>1. GuardPassed(w) /\ Goto(s, [w EXCEPT !.pc = "told"])
    BY <1>6 DEF GuardPassed, Reconcile, At
  <2> QED
    BY <1>1, <1>4, <1>5, <2>1, DoubtKeeps
<1>7. CASE w.pc # "lost"
  <2>1. PrivateStep(s, Idle) /\ UNCHANGED holder
    BY <1>1, <1>7 DEF Reconcile, At, PrivateStep, Goto
  <2>2. ~Licensed(Idle) /\ ~HoldsActor(Idle) /\ Idle.locked = 0 /\ Idle.pc = "idle" /\ ~HoldsActor(w)
    BY <1>1, <1>7 DEF Idle, Licensed, HoldsActor
  <2> QED
    BY <1>1, <1>4, <1>5, <2>1, <2>2, IdleIsTyped, Rolls
<1> QED
  BY <1>6, <1>7

-----------------------------------------------------------------------------

(* A committed transition keeps what the references are worth, and moves    *)
(* its aggregate as an aggregate may move.                                  *)
LEMMA AppliedKeeps ==
  ASSUME NEW m \in Aggregates, NEW op \in Transitions, NEW b \in Bindings, NEW a \in Actors,
         Ready(m, op, b), AggregateOK(m, a), done' = done \cup {<<op, b>>}
  PROVE  AggregateOK(Applied(m, op, b), a)' /\ Moves(m, Applied(m, op, b))
<1> DEFINE n == Applied(m, op, b)
<1>1. /\ m.task = BindingTask[b] /\ m.task # None /\ m.binding = b /\ m.registered
      /\ m.status \in {"ADMITTED", "CONSUMED", "STARTED", "TERMINAL"} /\ m.task \notin m.closed
      /\ m.status = "ADMITTED" => m.marks = {}
  <2>1. m.task = BindingTask[b] /\ m.task # None /\ m.binding = b
    BY RowSorts DEF Ready
  <2>2. m.status \in {"ADMITTED", "CONSUMED", "STARTED", "TERMINAL"}
    BY DEF Ready, Transitions
  <2>3. m # Unregistered
    BY <2>1 DEF Unregistered
  <2> QED
    BY <2>1, <2>2, <2>3 DEF AggregateOK
<1>2. /\ n.registered = m.registered /\ n.task = m.task /\ n.decision = m.decision /\ n.binding = m.binding
      /\ n.marks = (IF op \in {"CONSUME", "START"} THEN m.marks \cup {op} ELSE m.marks)
      /\ n.terminals = (IF op = "FINISH" THEN m.terminals \cup {b} ELSE m.terminals)
      /\ n.receipts = (IF op = "CLOSE" THEN m.receipts \cup {b} ELSE m.receipts)
      /\ n.closed = (IF op = "CLOSE" THEN m.closed \cup {m.task} ELSE m.closed)
  BY DEF Applied, Aggregates, Transitions
<1>3. n.status = (CASE op = "CONSUME" -> "CONSUMED" [] op = "START" -> "STARTED"
                    [] op = "FINISH" -> "TERMINAL" [] op = "CLOSE" -> "CLOSED")
  BY DEF Applied, Aggregates, Transitions
<1>4. op = "CONSUME" => m.marks = {}
  BY <1>1 DEF Ready
<1> HIDE DEF n
<1>5. Moves(m, n)
  BY <1>2 DEF Moves
<1>6. /\ n.status # "NONE" /\ n.decision \in Decisions /\ DecidedTask[n.decision] = n.task
      /\ ActorOf[n.task] = a /\ (n.status = "CLOSED" <=> n.task \in n.closed)
  BY <1>1, <1>2, <1>3 DEF AggregateOK, Transitions
<1>7. /\ n.registered /\ n.task # None /\ n.status \notin {"NONE", "ADMITTED"}
      /\ n.status = "CONSUMED" => "START" \notin n.marks
  BY <1>1, <1>2, <1>3, <1>4 DEF Transitions
<1>8. /\ \A e \in n.marks : <<e, n.binding>> \in done'
      /\ \A c \in n.terminals : <<"FINISH", c>> \in done'
      /\ \A c \in n.receipts : <<"CLOSE", c>> \in done'
  BY <1>1, <1>2 DEF AggregateOK
<1>9. AggregateOK(n, a)'
  BY <1>6, <1>7, <1>8 DEF AggregateOK
<1> QED
  BY <1>5, <1>9 DEF n

(* A transaction that is ready to START finds no START of its task.         *)
LEMMA NoEarlierStart ==
  ASSUME IInv, NEW s \in Sessions, Drafted(session[s]), session[s].op = "START"
  PROVE  LET t == BindingTask[session[s].b] IN
         /\ \A c \in Bindings : BindingTask[c] = t => <<"START", c>> \notin done
         /\ works[t] = 0
         /\ \A u \in Sessions : Licensed(session[u]) => BindingTask[session[u].b] # t
<1> DEFINE b == session[s].b  t == BindingTask[b]  m == Mine(s)
<1>1. /\ b \in Bindings /\ t \in Tasks /\ Ready(m, "START", b) /\ AggregateOK(m, ActorFor(b))
      /\ m \in Aggregates /\ t # None
  BY DraftHeld, SessionFacts, RowSorts DEF Drafted
<1>2. m.task = t /\ m.status = "CONSUMED" /\ "START" \notin m.marks /\ t \notin m.closed
  BY <1>1 DEF Ready, AggregateOK
<1>3. \A c \in Bindings : BindingTask[c] = t => <<"START", c>> \notin done
  <2> SUFFICES ASSUME NEW c \in Bindings, BindingTask[c] = t, <<"START", c>> \in done PROVE FALSE
    OBVIOUS
  <2>1. actor[ActorFor(c)] = m
    BY DEF ActorFor, Mine
  <2> QED
    BY <1>2, <2>1 DEF IInv, StartInv
<1>4. works[t] = 0
  <2>1. Started(t) = {}
    BY <1>3 DEF Started
  <2>2. works[t] \in Nat /\ works[t] <= 1 /\ (works[t] = 1 => Started(t) # {})
    BY <1>1 DEF IInv, TypeOK, WorkInv
  <2> QED
    BY <2>1, <2>2
<1>5. \A u \in Sessions : Licensed(session[u]) => BindingTask[session[u].b] # t
  <2> SUFFICES ASSUME NEW u \in Sessions, Licensed(session[u]), BindingTask[session[u].b] = t PROVE FALSE
    OBVIOUS
  <2>1. session[u].b \in Bindings
    BY SessionFacts DEF Licensed
  <2>2. <<"START", session[u].b>> \in done
    BY DEF IInv, WorkInv
  <2> QED
    BY <1>3, <2>1, <2>2
<1> QED
  BY <1>3, <1>4, <1>5

(* The COMMIT of a transaction past its guard, seen by its client or not.   *)
LEMMA CommitKeeps ==
  ASSUME IInv, NEW s \in Sessions, GuardPassed(session[s]), Committed(s),
         NEW v \in SessionRecords, Goto(s, v), ~HoldsActor(v), v.locked = 0,
         v.pc # "idle" => v.b = session[s].b /\ v.d = session[s].d,
         Licensed(v) => session[s].op = "START" /\ v.b = session[s].b,
         UNCHANGED <<ownerVars, faults, works, answers>>
  PROVE  IInv'
<1> DEFINE w == session[s]  b == w.b  a == ActorFor(b)  m == actor[a]
<1>1. /\ TypeOK /\ w \in SessionRecords /\ w.pc # "idle" /\ HoldsActor(w) /\ Drafted(w)
      /\ b \in Bindings /\ a \in Actors /\ m \in Aggregates /\ AggregateOK(m, a) /\ w.op \in Transitions
      /\ Ready(m, w.op, b) /\ w.new = Applied(m, w.op, b) /\ w.new \in Aggregates /\ OnTask(s)
  BY SessionFacts, DraftHeld DEF GuardPassed, HoldsActor, Drafted, SessionRecords, Mine
<1>2. /\ holder[a] = s /\ done' = done \cup {<<w.op, b>>}
      /\ actor' = [actor EXCEPT ![a] = w.new] /\ actor'[a] = w.new
      /\ holder' = Unlocked(s) /\ session' = [session EXCEPT ![s] = v] /\ session'[s] = v
      /\ UNCHANGED <<parent, binding, owner>>
  BY <1>1, SessionFacts DEF Committed, Goto, TypeOK, TransactionOK, ownerVars
<1>3. TypeOK'
  BY <1>1, <1>2 DEF TypeOK, Unlocked, Holders
<1>4. Moves(m, w.new)
  BY <1>1, <1>2, AppliedKeeps
<1>5. \A c \in Actors : AggregateOK(actor[c], c)'
  <2> SUFFICES ASSUME NEW c \in Actors PROVE AggregateOK(actor[c], c)'
    OBVIOUS
  <2>1. CASE c = a
    <3>1. PICK m0 \in Aggregates : m0 = m
      BY <1>1
    <3>2. PICK op0 \in Transitions, b0 \in Bindings : op0 = w.op /\ b0 = b
      BY <1>1
    <3>3. AggregateOK(Applied(m0, op0, b0), c)'
      <4>1. AggregateOK(m0, c) /\ Ready(m0, op0, b0) /\ done' = done \cup {<<op0, b0>>}
        BY <1>1, <1>2, <2>1, <3>1, <3>2
      <4> QED
        BY <4>1, AppliedKeeps
    <3>4. actor'[c] = Applied(m0, op0, b0)
      BY <1>1, <1>2, <2>1, <3>1, <3>2
    <3> QED
      BY <3>3, <3>4 DEF AggregateOK
  <2>2. CASE c # a
    <3>1. actor'[c] = actor[c] /\ AggregateOK(actor[c], c)
      BY <1>1, <1>2, <2>2, Parts DEF ByParts, TypeOK
    <3> QED
      BY <1>2, <3>1 DEF AggregateOK
  <2> QED
    BY <2>1, <2>2
<1>6. ActorsMove
  BY <1>1, <1>2, <1>4 DEF ActorsMove, Moves, TypeOK
<1>7. \A p \in (Sessions \cup Owners) \ {s} : SameRows(p)
  BY <1>1, <1>2, LockIsPrivate
<1>8. \A o \in Owners : OwnerOK(o)'
  BY <1>2, <1>7, OwnerStays, Parts, RowAssumption DEF ByParts
<1>9. \A u \in Sessions : TransactionOK(u)'
  <2> SUFFICES ASSUME NEW u \in Sessions PROVE TransactionOK(u)'
    OBVIOUS
  <2>1. CASE u = s
    <3>1. \A r \in Rows : holder'[r] # s
      BY <1>2, UnlockedNone
    <3>2. v.pc # "idle" => OnTask(s)'
      BY <1>1, <1>2, <1>6, OnTaskStays
    <3> QED
      BY <1>1, <1>2, <2>1, <3>1, <3>2, Rests
  <2>2. CASE u # s
    <3>1. session'[u] = session[u] /\ SameRows(u)
      BY <1>1, <1>2, <1>7, <2>2 DEF TypeOK
    <3>2. KeptForHolder(u)
      BY <1>1, <1>2, <2>2 DEF KeptForHolder, TypeOK, ActiveBinding
    <3> QED
      BY <1>1, <1>6, <3>1, <3>2, TransactionStays, Parts DEF ByParts
  <2> QED
    BY <2>1, <2>2
<1>10. StartInv'
  <2>1. CASE w.op # "START"
    <3>1. \A c \in Bindings : <<"START", c>> \in done' => <<"START", c>> \in done
      BY <1>2, <2>1
    <3>2. \A c \in Bindings : ActorFor(c) \in Actors
      BY RowSorts
    <3> SUFFICES ASSUME NEW c \in Bindings, <<"START", c>> \in done
                 PROVE  LET n == actor'[ActorFor(c)] IN
                        \/ BindingTask[c] \in n.closed
                        \/ n.task = BindingTask[c] /\ n.binding = c /\ "START" \in n.marks
      BY <3>1 DEF StartInv, ActorFor, IInv
    <3>3. Moves(actor[ActorFor(c)], actor'[ActorFor(c)]) /\ BindingTask[c] # None
      BY <1>6, <3>2, RowSorts DEF ActorsMove
    <3> QED
      BY <3>3 DEF IInv, StartInv, Moves
  <2>2. CASE w.op = "START"
    <3>1. \A c \in Bindings : BindingTask[c] = BindingTask[b] => <<"START", c>> \notin done
      BY <1>1, <2>2, NoEarlierStart
    <3>2. w.new.task = BindingTask[b] /\ w.new.binding = b /\ "START" \in w.new.marks
      <4>1. w.new = [m EXCEPT !.status = "STARTED", !.marks = @ \cup {"START"}]
        BY <1>1, <2>2 DEF Applied
      <4>2. m.task = BindingTask[b] /\ m.binding = b
        BY <1>1 DEF Ready
      <4> QED
        <5>1. w.new.task = m.task /\ w.new.binding = m.binding
          BY <1>1, <4>1 DEF Aggregates
        <5>2. w.new.marks = m.marks \cup {"START"}
          BY <1>1, <4>1 DEF Aggregates
        <5> QED
          BY <4>2, <5>1, <5>2
    <3>3. \A c \in Bindings : <<"START", c>> \in done' => c = b \/ (<<"START", c>> \in done /\ BindingTask[c] # BindingTask[b])
      BY <1>2, <3>1
    <3>4. \A c \in Bindings : <<"START", c>> \in done /\ c # b =>
            LET n == actor'[ActorFor(c)] IN
            \/ BindingTask[c] \in n.closed
            \/ n.task = BindingTask[c] /\ n.binding = c /\ "START" \in n.marks
      <4> SUFFICES ASSUME NEW c \in Bindings, <<"START", c>> \in done
                   PROVE  LET n == actor'[ActorFor(c)] IN
                          \/ BindingTask[c] \in n.closed
                          \/ n.task = BindingTask[c] /\ n.binding = c /\ "START" \in n.marks
        OBVIOUS
      <4>1. Moves(actor[ActorFor(c)], actor'[ActorFor(c)]) /\ BindingTask[c] # None
        BY <1>6, RowSorts DEF ActorsMove
      <4> QED
        BY <4>1 DEF IInv, StartInv, Moves
    <3>5. \A c, e \in Bindings : <<"START", c>> \in done' /\ <<"START", e>> \in done'
                                  /\ BindingTask[c] = BindingTask[e] => c = e
      BY <3>3 DEF IInv, StartInv
    <3> QED
      BY <1>1, <1>2, <3>2, <3>3, <3>4, <3>5 DEF StartInv, ActorFor
  <2> QED
    BY <2>1, <2>2
<1>11. WorkInv'
  <2>1. CASE ~Licensed(v)
    <3>1. \A u \in Sessions : Licensed(session'[u]) =>
            Licensed(session[u]) /\ session'[u].b = session[u].b
      BY <1>1, <1>2, <2>1 DEF TypeOK
    <3> QED
      BY <1>2, <3>1, WorkStays DEF IInv
  <2>2. CASE Licensed(v)
    <3>1. w.op = "START" /\ v.b = b
      BY <2>2
    <3>2. works[BindingTask[b]] = 0
          /\ \A u \in Sessions : Licensed(session[u]) => BindingTask[session[u].b] # BindingTask[b]
      BY <1>1, <3>1, NoEarlierStart
    <3>3. \A u \in Sessions : session'[u] = IF u = s THEN v ELSE session[u]
      BY <1>1, <1>2 DEF TypeOK
    <3>4. \A u \in Sessions : Licensed(session'[u]) =>
            <<"START", session'[u].b>> \in done' /\ works'[BindingTask[session'[u].b]] = 0
      BY <1>2, <3>1, <3>2, <3>3 DEF IInv, WorkInv
    <3>5. \A u, x \in Sessions : Licensed(session'[u]) /\ Licensed(session'[x])
            /\ BindingTask[session'[u].b] = BindingTask[session'[x].b] => u = x
      BY <3>1, <3>2, <3>3 DEF IInv, WorkInv
    <3>6. \A t \in Tasks : works'[t] <= 1 /\ (works'[t] = 1 => Started(t)' # {})
      BY <1>2 DEF IInv, WorkInv, Started
    <3> QED
      BY <3>4, <3>5, <3>6 DEF WorkInv, Licensed, Started
  <2> QED
    BY <2>1, <2>2
<1>12. AnswersAreTrue'
  BY <1>2 DEF IInv, AnswersAreTrue
<1> QED
  BY <1>3, <1>5, <1>8, <1>9, <1>10, <1>11, <1>12, Parts DEF ByParts

LEMMA CommitAndLandKeep ==
  ASSUME IInv, NEW s \in Sessions, Commit(s) \/ Land(s)
  PROVE  IInv'
<1> DEFINE w == session[s]
           read == [w EXCEPT !.pc = "readback", !.locked = 0]
           asks == [w EXCEPT !.pc = "asking", !.locked = 0]
<1>1. w \in SessionRecords /\ GuardPassed(w) /\ w.pc # "idle" /\ Drafted(w)
  BY SessionFacts DEF Commit, Land, At, InDoubt, GuardPassed, Drafted
<1>2. Committed(s) /\ UNCHANGED <<ownerVars, faults, works, answers>>
      /\ \E v \in {read, asks, Idle} : Goto(s, v)
  BY DEF Commit, Land, Settled
<1> PICK v \in {read, asks, Idle} : Goto(s, v)
  BY <1>2
<1>3. 0 \in 0..3 /\ "asking" \in SessionStates /\ "readback" \in SessionStates
  BY DEF SessionStates
<1>4. /\ read \in SessionRecords /\ read.pc = "readback" /\ read.locked = 0 /\ read.b = w.b /\ read.d = w.d
      /\ read.op = w.op
  BY <1>1, <1>3 DEF SessionRecords
<1>5. /\ asks \in SessionRecords /\ asks.pc = "asking" /\ asks.locked = 0 /\ asks.b = w.b /\ asks.d = w.d
  BY <1>1, <1>3 DEF SessionRecords
<1>6. /\ v \in SessionRecords /\ ~HoldsActor(v) /\ v.locked = 0
      /\ v.pc # "idle" => v.b = w.b /\ v.d = w.d
      /\ Licensed(v) => w.op = "START" /\ v.b = w.b
  <2> HIDE DEF read, asks
  <2>1. CASE v = read
    <3>1. Licensed(w) \/ ~Licensed(v) \/ w.op = "START"
      BY <1>4, <2>1 DEF Licensed
    <3> QED
      BY <1>1, <1>4, <2>1, <3>1 DEF HoldsActor, Licensed, GuardPassed
  <2>2. CASE v = asks
    BY <1>5, <2>2 DEF HoldsActor, Licensed
  <2>3. CASE v = Idle
    BY <2>3, IdleIsTyped DEF HoldsActor, Licensed, Idle
  <2> QED
    BY <2>1, <2>2, <2>3
<1> QED
  BY <1>1, <1>2, <1>6, CommitKeeps

(* The work uses its licence up.                                            *)
LEMMA WorkKeeps ==
  ASSUME IInv, NEW s \in Sessions, Work(s)
  PROVE  IInv'
<1> DEFINE w == session[s]  t == BindingTask[w.b]  v == [w EXCEPT !.pc = "ready", !.op = "FINISH"]
<1>1. /\ TypeOK /\ w \in SessionRecords /\ w.pc = "work" /\ w.locked = 0 /\ ~HoldsActor(w)
      /\ w.b \in Bindings /\ t \in Tasks /\ OnTask(s) /\ TransactionOK(s)
      /\ UNCHANGED <<actor, ownerVars, holder, faults, done, answers>>
  BY SessionFacts, RowSorts DEF Work, At, HoldsActor, TransactionOK
<1>2. v \in SessionRecords /\ v.pc = "ready" /\ v.b = w.b /\ v.d = w.d /\ v.locked = 0
  BY <1>1 DEF SessionRecords, SessionStates, Transitions
<1>3. session' = [session EXCEPT ![s] = v] /\ works' = [works EXCEPT ![t] = @ + 1]
      /\ \A u \in Sessions : session'[u] = IF u = s THEN v ELSE session[u]
  BY <1>1 DEF Work, Goto, TypeOK
<1> HIDE DEF v
<1>4. ~HoldsActor(v) /\ ~Licensed(v)
  BY <1>2 DEF HoldsActor, Licensed
<1>5. Licensed(w) /\ <<"START", w.b>> \in done /\ works[t] = 0
  BY <1>1 DEF Licensed, IInv, WorkInv
<1>6. TypeOK'
  BY <1>1, <1>2, <1>3 DEF TypeOK, ownerVars
<1>7. ActorsMove
  BY <1>1, NobodyMoves
<1>8. \A u \in Sessions : TransactionOK(u)'
  <2> SUFFICES ASSUME NEW u \in Sessions PROVE TransactionOK(u)'
    OBVIOUS
  <2>1. CASE u = s
    <3>1. \A r \in Rows : holder'[r] # s
      BY <1>1, HoldsNone
    <3>2. OnTask(s)'
      BY <1>1, <1>2, <1>3, <1>7, OnTaskStays
    <3> QED
      BY <1>1, <1>2, <1>3, <1>4, <2>1, <3>1, <3>2, Rests
  <2>2. CASE u # s
    <3>1. session'[u] = session[u] /\ SameRows(u) /\ KeptForHolder(u)
      BY <1>1, <1>3, <2>2 DEF SameRows, KeptForHolder, ownerVars, ActiveBinding
    <3> QED
      BY <1>1, <1>7, <3>1, TransactionStays, Parts DEF ByParts
  <2> QED
    BY <2>1, <2>2
<1>9. \A o \in Owners : OwnerOK(o)'
  BY <1>1, OwnerStays, Parts DEF ByParts, SameRows, ownerVars
<1>10. \A a \in Actors : AggregateOK(actor[a], a)'
  BY <1>1, Parts DEF ByParts, AggregateOK
<1>11. WorkInv'
  <2>1. \A u \in Sessions : Licensed(session'[u]) =>
          /\ u # s /\ Licensed(session[u]) /\ session'[u].b = session[u].b
          /\ BindingTask[session[u].b] # t
    BY <1>3, <1>4, <1>5 DEF IInv, WorkInv
  <2>2. \A x \in Tasks : works'[x] = IF x = t THEN 1 ELSE works[x]
    BY <1>1, <1>3, <1>5 DEF TypeOK
  <2>3. \A u \in Sessions : Licensed(session[u]) => session[u].b \in Bindings
    BY SessionFacts DEF Licensed
  <2>4. \A u \in Sessions : Licensed(session'[u]) =>
          <<"START", session'[u].b>> \in done' /\ works'[BindingTask[session'[u].b]] = 0
    BY <1>1, <2>1, <2>2, <2>3, RowSorts DEF IInv, WorkInv
  <2>5. \A u, x \in Sessions : Licensed(session'[u]) /\ Licensed(session'[x])
          /\ BindingTask[session'[u].b] = BindingTask[session'[x].b] => u = x
    BY <2>1 DEF IInv, WorkInv
  <2>6. w.b \in Started(t)
    BY <1>1, <1>5 DEF Started
  <2>7. \A x \in Tasks : works'[x] <= 1 /\ (works'[x] = 1 => Started(x)' # {})
    BY <1>1, <2>2, <2>6 DEF IInv, WorkInv, Started
  <2> QED
    BY <2>4, <2>5, <2>7 DEF WorkInv, Licensed, Started
<1>12. StartInv'
  BY <1>1, <1>7, StartStays DEF IInv
<1>13. AnswersAreTrue'
  BY <1>1 DEF IInv, AnswersAreTrue
<1> QED
  BY <1>6, <1>8, <1>9, <1>10, <1>11, <1>12, <1>13, Parts DEF ByParts

-----------------------------------------------------------------------------

(* Every step keeps the invariant.                                          *)
LEMMA StepKeeps ==
  ASSUME IInv, [Next]_vars
  PROVE  IInv'
<1>1. CASE \E o \in Owners : OwnerStep(o)
              \/ \E op \in {"issue", "retire"}, x \in Parents : OwnerBegin(o, op, x)
  BY <1>1, OwnerBegins, OwnerLocks, OwnerEnds DEF OwnerStep
<1>2. CASE \E b \in Bindings : IssueRow(b) \/ RevokeRow(b) \/ \E old \in Bindings : SupersedeRow(old, b)
  BY <1>2, BindingRowSteps
<1>3. CASE \E a \in Actors : ActorStep(a)
  BY <1>3, ActorSteps
<1>4. CASE \E s \in Sessions : TransactionStep(s) \/ SettleStep(s)
  BY <1>4, LockActorKeeps, LockParentKeeps, LockBindingKeeps, DraftKeeps, GuardKeeps,
     CommitAndLandKeep, DropKeeps DEF TransactionStep, SettleStep
<1>5. CASE \E s \in Sessions : EpisodeStep(s) \/ Lose(s) \/ Crash(s)
  BY <1>5, ReadbackKeeps, WorkKeeps, ReconcileKeeps, LoseKeeps, CrashKeeps DEF EpisodeStep
<1>6. CASE \E s \in Sessions, b \in Bindings : RunBegin(s, b) \/ Release(s, b)
  BY <1>6, Begins
<1>7. CASE UNCHANGED vars
  <2>1. TypeOK'
    BY <1>7 DEF vars, ownerVars, historyVars, IInv, TypeOK
  <2>2. \A p \in Sessions : SameRows(p) /\ KeptForHolder(p)
    BY <1>7 DEF vars, ownerVars, SameRows, KeptForHolder, ActiveBinding
  <2>3. \A o \in Owners : OwnerOK(o)'
    BY <1>7, Parts, OwnerStays DEF ByParts, vars, ownerVars, SameRows
  <2>4. \A a \in Actors : AggregateOK(actor[a], a)'
    BY <1>7, Parts DEF ByParts, AggregateOK, vars, historyVars
  <2> QED
    BY <1>7, <2>1, <2>2, <2>3, <2>4, NobodyMoves, OutsideSteps DEF vars
<1> QED
  BY <1>1, <1>2, <1>3, <1>4, <1>5, <1>6, <1>7 DEF Next

(* The invariant of the lifecycle, for every number of sessions and owners: *)
(* what acquire_parent_fence, commit_guard and apply rely on.               *)
THEOREM LifecycleInvariant == Spec => []IInv
<1>1. Init => IInv
  BY InitHolds
<1>2. IInv /\ [Next]_vars => IInv'
  BY StepKeeps
<1> QED
  BY <1>1, <1>2, PTL DEF Spec

(* The work of a task is done once at most, under one START: the runner     *)
(* works only after its own START was read back.                            *)
THEOREM WorkOnce == Spec => []WorkDoneOnce
<1>1. IInv => WorkDoneOnce
  <2> SUFFICES ASSUME IInv, NEW t \in Tasks
               PROVE  works[t] <= Cardinality(Started(t)) /\ Cardinality(Started(t)) <= 1
    BY DEF WorkDoneOnce
  <2>1. works[t] \in Nat /\ works[t] <= 1 /\ (works[t] = 1 => Started(t) # {})
    BY DEF IInv, TypeOK, WorkInv
  <2>2. \A b, c \in Started(t) : b = c
    BY DEF IInv, StartInv, Started
  <2>3. CASE Started(t) = {}
    <3>1. Cardinality(Started(t)) = 0
      BY <2>3, FS_EmptySet
    <3> QED
      BY <2>1, <2>3, <3>1
  <2>4. CASE Started(t) # {}
    <3>1. PICK b \in Started(t) : TRUE
      BY <2>4
    <3>2. Started(t) = {b}
      BY <2>2
    <3>3. Cardinality(Started(t)) = 1
      BY <3>2, FS_Singleton
    <3> QED
      BY <2>1, <3>3
  <2> QED
    BY <2>3, <2>4
<1> QED
  BY <1>1, LifecycleInvariant, PTL

(* What reconcile_transition and read_ambiguous_outcome call committed is.  *)
THEOREM AnswersTrue == Spec => []AnswersAreTrue
<1>1. IInv => AnswersAreTrue
  BY DEF IInv
<1> QED
  BY <1>1, LifecycleInvariant, PTL

(* A transition commits only while its decision, delegation, rights and     *)
(* binding are all active: the fence of acquire_parent_fence holds.         *)
THEOREM AuthorityHolds == Spec => AuthorityAtCommit
<1> DEFINE A == \A e \in done' \ done :
                  ActiveBinding(e[2]) /\ ChainActive(actor[ActorFor(e[2])].decision)
<1>1. IInv /\ [Next]_vars => [A]_vars
  <2> SUFFICES ASSUME IInv, Next, NEW e \in done' \ done
               PROVE  ActiveBinding(e[2]) /\ ChainActive(actor[ActorFor(e[2])].decision)
    OBVIOUS
  <2>1. \E s \in Sessions : Commit(s) \/ Land(s)
    BY ZenonT(40) DEF Next, TransactionStep, SettleStep, EpisodeStep, OwnerStep, ActorStep, OwnerBegin, OwnerLock,
       OwnerCommit, OwnerRefused, IssueRow, RevokeRow, SupersedeRow, SetActor, Register, AdmitTask,
       IssueBinding, SupersedeBinding, ReportHistorical, AckOutbox, Reset, RunBegin, Release, Rollback,
       LockActor, LockParent, LockBindingToClose, Draft, Guard, Lose, Drop, Readback, Work, Reconcile,
       Crash, historyVars
  <2> PICK s \in Sessions : Commit(s) \/ Land(s)
    BY <2>1
  <2> DEFINE w == session[s]
  <2>2. GuardPassed(w) /\ Drafted(w) /\ w.pc # "idle" /\ done' = done \cup {<<w.op, w.b>>}
    BY DEF Commit, Land, At, InDoubt, Committed, GuardPassed, Drafted
  <2>3. e[2] = w.b
    BY <2>2
  <2>4. ActiveBinding(w.b) /\ Ready(Mine(s), w.op, w.b) /\ HoldsActor(w) /\ w.locked = 3
    BY <2>2, DraftHeld
  <2>5. Mine(s).decision = w.d
    BY <2>2, <2>4, SessionFacts DEF OnTask, Ready
  <2>6. Len(Chain(w.d)) = 3 /\ \A i \in 1..3 : parent[Chain(w.d)[i]] = "ACTIVE"
    BY <2>2, <2>4, SessionFacts, LineHeld
  <2> QED
    BY <2>3, <2>4, <2>5, <2>6 DEF ChainActive, Mine
<1> QED
  BY <1>1, LifecycleInvariant, PTL DEF Spec, AuthorityAtCommit

-----------------------------------------------------------------------------
(* Deadlock: everybody locks in the order of these ranks.                   *)

Rank(r) == IF r \in Actors THEN 0 ELSE IF r \in Parents THEN Len(Line[r]) ELSE 4

LEMMA Ranks ==
  /\ \A r \in Rows : Rank(r) \in 0..4
  /\ \A a \in Actors : Rank(a) = 0
  /\ \A b \in Bindings : Rank(b) = 4
  /\ \A x \in Parents : \A i \in 1..Len(Line[x]) : Line[x][i] \in Rows /\ Rank(Line[x][i]) = i
<1>1. \A x \in Parents : x \notin Actors /\ Len(Line[x]) \in {1, 2, 3}
  BY LineRows, RowAssumption
<1>2. (\A a \in Actors : Rank(a) = 0) /\ \A b \in Bindings : Rank(b) = 4
  BY RowAssumption DEF Rank
<1>3. \A x \in Parents : Rank(x) = Len(Line[x])
  BY <1>1 DEF Rank
<1>4. ASSUME NEW x \in Parents, NEW i \in 1..Len(Line[x])
      PROVE  Line[x][i] \in Rows /\ Rank(Line[x][i]) = i
  <2>1. Line[x] \in Seq(Parents) /\ Line[x][i] \in Parents
    BY LineRows, LineAssumption
  <2>2. Line[Line[x][i]] = SubSeq(Line[x], 1, i)
    BY LineAssumption
  <2>3. Len(SubSeq(Line[x], 1, i)) = i
    BY <1>1, <2>1
  <2> QED
    BY <1>3, <2>1, <2>2, <2>3, RowSorts
<1>5. \A r \in Rows : Rank(r) \in 0..4
  <2>1. \A x \in Parents : Rank(x) \in {1, 2, 3}
    BY <1>1, <1>3
  <2>2. \A r \in Rows : Rank(r) \in {0, 1, 2, 3, 4}
    BY <1>2, <2>1 DEF Rows
  <2> QED
    BY <2>2
<1> QED
  BY <1>2, <1>4, <1>5

(* Who waits for a row that is not its own holds only rows of a lower rank. *)
LEMMA WaitsUpwards ==
  ASSUME IInv, NEW q \in Sessions \cup Owners, NEW r \in Rows, holder[r] = q,
         NEW y \in Wanted(q), holder[y] # q
  PROVE  y \in Rows /\ Rank(r) < Rank(y)
<1>1. CASE q \in Owners
  <2> DEFINE x == owner[q].x  k == owner[q].locked
  <2>1. owner[q] # Resting /\ k < OwnerRows(q) /\ y = NextOwnerRow(q)
    BY <1>1 DEF Wanted
  <2>2. /\ x \in Parents /\ owner[q].op \in {"issue", "retire"} /\ k \in 0..3
        /\ \E i \in 1..k : r = Line[x][i]
    BY <1>1, <2>1, Parts DEF ByParts, OwnerOK, TypeOK, OwnerRecords
  <2>3. OwnerRows(q) \in 0..3 /\ OwnerRows(q) <= Len(Line[x]) /\ y = Line[x][k + 1]
    BY <2>1, <2>2, OwnersLine DEF OwnerRows, NextOwnerRow, OwnerRow
  <2>4. Len(Line[x]) \in {1, 2, 3}
    BY <2>2, LineRows
  <2>5. y \in Rows /\ Rank(y) = k + 1 /\ \A i \in 1..k : Rank(Line[x][i]) = i
    BY SMTT(30), <2>1, <2>2, <2>3, <2>4, Ranks
  <2> QED
    BY <2>2, <2>5
<1>2. CASE q \in Sessions
  <2> DEFINE w == session[q]
  <2>0. q \notin Owners
    BY <1>2, RowAssumption
  <2>1. HoldsActor(w) /\ w.pc # "idle" /\ TransactionOK(q) /\ w \in SessionRecords
    BY <1>2, SessionFacts DEF TransactionOK, HoldsActor
  <2>2. /\ w.b \in Bindings /\ w.b \in Rows /\ w.d \in Parents /\ Len(Chain(w.d)) = 3 /\ w.locked \in 0..3
        /\ ActorFor(w.b) \in Actors
    BY <1>2, <2>1, SessionFacts DEF SessionRecords
  <2>3. /\ Rank(ActorFor(w.b)) = 0 /\ Rank(w.b) = 4
        /\ \A i \in 1..3 : Chain(w.d)[i] \in Rows /\ Rank(Chain(w.d)[i]) = i
    BY <2>2, Ranks DEF Chain
  <2>4. \/ w.pc = "locking" /\ w.locked < 3 /\ y = NextRow(w)
        \/ y = w.b /\ (w.pc = "drafted" \/ (w.pc = "locking" /\ w.locked = 3))
    BY <2>0, <2>1, <2>2 DEF Wanted, HoldsActor
  <2>5. \/ r = ActorFor(w.b) \/ \E i \in 1..w.locked : r = Chain(w.d)[i]
        \/ r = w.b /\ (Drafted(w) \/ w.locked = 3)
    BY <2>1, <2>2 DEF TransactionOK
  <2>6. CASE w.pc = "locking" /\ w.locked < 3 /\ y = NextRow(w)
    <3>1. y \in Rows /\ Rank(y) = w.locked + 1
      BY <2>2, <2>3, <2>6 DEF NextRow
    <3>2. r = ActorFor(w.b) \/ \E i \in 1..w.locked : r = Chain(w.d)[i]
      BY <2>5, <2>6 DEF Drafted
    <3> QED
      BY <2>2, <2>3, <3>1, <3>2
  <2>7. CASE y = w.b
    BY <2>2, <2>3, <2>5, <2>7
  <2> QED
    BY <2>4, <2>6, <2>7
<1> QED
  BY <1>1, <1>2

(* Workers and owners never deadlock: the rank of the wanted row grows      *)
(* along a wait, and there are five ranks (actor_state, rights, delegation, *)
(* decision, current_binding).                                              *)
THEOREM NoDeadlock == Spec => []NoWaitCycle
<1>1. IInv => NoWaitCycle
  <2> SUFFICES ASSUME IInv, NEW S \in SUBSET (Sessions \cup Owners), S # {},
                      \A p \in S : Blocked(p, S)
               PROVE  FALSE
    BY DEF NoWaitCycle
  <2> DEFINE Waits(p, y) == y \in Wanted(p) /\ holder[y] \in S \ {p}
  <2>1. \A p \in S : \E y \in Rows : Waits(p, y)
    <3> SUFFICES ASSUME NEW p \in S PROVE \E y \in Rows : Waits(p, y)
      OBVIOUS
    <3>1. PICK y \in Wanted(p) : holder[y] \in S \ {p}
      BY DEF Blocked
    <3>2. CASE p \in Owners
      <4>1. /\ owner[p] # Resting /\ owner[p].locked < OwnerRows(p) /\ y = NextOwnerRow(p)
        BY <3>2 DEF Wanted
      <4>2. /\ owner[p].x \in Parents /\ owner[p].op \in {"issue", "retire"} /\ owner[p].locked \in 0..3
        BY <3>2, <4>1, Parts DEF ByParts, OwnerOK, TypeOK, OwnerRecords
      <4>3. y \in Rows
        BY <4>1, <4>2, OwnersLine DEF OwnerRows, NextOwnerRow, OwnerRow
      <4> QED
        BY <3>1, <4>3
    <3>3. CASE p \in Sessions
      <4>1. p \notin Owners /\ session[p].pc # "idle"
        BY <3>3, RowAssumption DEF Wanted
      <4>2. /\ session[p].b \in Rows /\ ActorFor(session[p].b) \in Rows /\ session[p].locked \in 0..3
            /\ Len(Chain(session[p].d)) = 3 /\ \A i \in 1..3 : Chain(session[p].d)[i] \in Rows
        BY <3>3, <4>1, SessionFacts DEF SessionRecords
      <4>3. y \in Rows
        BY <4>1, <4>2 DEF Wanted, NextRow
      <4> QED
        BY <3>1, <4>3
    <3> QED
      BY <3>2, <3>3
  <2>2. \A p \in S, y \in Rows : Waits(p, y) => \E q \in S, z \in Rows : Waits(q, z) /\ Rank(y) < Rank(z)
    <3> SUFFICES ASSUME NEW p \in S, NEW y \in Rows, Waits(p, y)
                 PROVE  \E q \in S, z \in Rows : Waits(q, z) /\ Rank(y) < Rank(z)
      OBVIOUS
    <3> DEFINE q == holder[y]
    <3>1. q \in S
      OBVIOUS
    <3>2. PICK z \in Rows : Waits(q, z)
      BY <2>1, <3>1
    <3>3. Rank(y) < Rank(z)
      BY <3>1, <3>2, WaitsUpwards
    <3> QED
      BY <3>1, <3>2, <3>3
  <2> HIDE DEF Waits
  <2> DEFINE Reached(n) == \E p \in S, y \in Rows : Waits(p, y) /\ n <= Rank(y)
  <2>3. Reached(0)
    BY <2>1, Ranks
  <2>4. ASSUME NEW n \in 0..4, Reached(n) PROVE Reached(n + 1)
    BY <2>2, <2>4, Ranks
  <2>5. Reached(1)
    BY <2>3, <2>4
  <2>6. Reached(2)
    BY <2>4, <2>5
  <2>7. Reached(3)
    BY <2>4, <2>6
  <2>8. Reached(4)
    BY <2>4, <2>7
  <2>9. Reached(5)
    BY <2>4, <2>8
  <2> QED
    BY <2>9, Ranks
<1> QED
  BY <1>1, LifecycleInvariant, PTL

-----------------------------------------------------------------------------
(* The lifecycle keeps its promise.                                         *)

MarksOK(m) ==
  /\ m.status = "CONSUMED" => "CONSUME" \in m.marks
  /\ m.status = "STARTED" => "START" \in m.marks

(* Who moves what the owners of authority and bindings can see.             *)
LEMMA VisibleSteps ==
  ASSUME [Next]_vars
  PROVE  \/ UNCHANGED <<parent, binding, done, works, answers>>
         \/ \E o \in Owners : OwnerCommit(o)
         \/ \E b \in Bindings : IssueRow(b) \/ RevokeRow(b) \/ \E old \in Bindings : SupersedeRow(old, b)
         \/ \E s \in Sessions : Commit(s) \/ Land(s) \/ Work(s) \/ Reconcile(s)
<1>1. ASSUME NEW o \in Owners, NEW op, NEW x,
             OwnerLock(o) \/ OwnerRefused(o) \/ OwnerBegin(o, op, x)
      PROVE  UNCHANGED <<parent, binding, done, works, answers>>
  BY <1>1 DEF OwnerLock, OwnerRefused, OwnerBegin, historyVars
<1>2. ASSUME NEW a \in Actors, ActorStep(a)
      PROVE  UNCHANGED <<parent, binding, done, works, answers>>
  BY <1>2 DEF ActorStep, Register, AdmitTask, IssueBinding, SupersedeBinding, ReportHistorical,
     AckOutbox, Reset, SetActor, ownerVars, historyVars
<1>3. ASSUME NEW s \in Sessions,
             \/ LockActor(s) \/ LockParent(s) \/ LockBindingToClose(s) \/ Draft(s) \/ Guard(s)
             \/ Drop(s) \/ Readback(s) \/ Lose(s) \/ Crash(s)
             \/ \E b \in Bindings : RunBegin(s, b) \/ Release(s, b)
      PROVE  UNCHANGED <<parent, binding, done, works, answers>>
  BY <1>3 DEF LockActor, LockParent, LockBindingToClose, Draft, Guard, Rollback, Drop, Readback,
     Lose, Crash, RunBegin, Release, ownerVars, historyVars
<1>4. CASE UNCHANGED vars
  BY <1>4 DEF vars, ownerVars, historyVars
<1> QED
  BY <1>1, <1>2, <1>3, <1>4 DEF Next, OwnerStep, TransactionStep, SettleStep, EpisodeStep

(* An aggregate is moved by a transaction of its own or by a COMMIT.        *)
LEMMA AggregateSteps ==
  ASSUME [Next]_vars
  PROVE  \/ UNCHANGED actor
         \/ \E a \in Actors : ActorStep(a)
         \/ \E s \in Sessions : Commit(s) \/ Land(s)
<1>1. ASSUME NEW o \in Owners, NEW op, NEW x, OwnerStep(o) \/ OwnerBegin(o, op, x)
      PROVE  UNCHANGED actor
  BY <1>1 DEF OwnerStep, OwnerLock, OwnerCommit, OwnerRefused, OwnerBegin
<1>2. ASSUME NEW b, NEW old, IssueRow(b) \/ RevokeRow(b) \/ SupersedeRow(old, b)
      PROVE  UNCHANGED actor
  BY <1>2 DEF IssueRow, RevokeRow, SupersedeRow
<1>3. ASSUME NEW s \in Sessions,
             \/ LockActor(s) \/ LockParent(s) \/ LockBindingToClose(s) \/ Draft(s) \/ Guard(s)
             \/ Drop(s) \/ EpisodeStep(s) \/ Lose(s) \/ Crash(s)
             \/ \E b \in Bindings : RunBegin(s, b) \/ Release(s, b)
      PROVE  UNCHANGED actor
  BY <1>3 DEF LockActor, LockParent, LockBindingToClose, Draft, Guard, Rollback, Drop, EpisodeStep,
     Readback, Work, Reconcile, Lose, Crash, RunBegin, Release
<1>4. CASE UNCHANGED vars
  BY <1>4 DEF vars
<1> QED
  BY <1>1, <1>2, <1>3, <1>4 DEF Next, TransactionStep, SettleStep

\* A COMMIT stores what was drafted under the locks that are still held.
LEMMA CommitFacts ==
  ASSUME IInv, NEW s \in Sessions, Commit(s) \/ Land(s)
  PROVE  LET w == session[s]  m == Mine(s) IN
         /\ w.pc # "idle" /\ Drafted(w) /\ w.op \in Transitions /\ w.b \in Bindings
         /\ w.d \in Decisions /\ DecidedTask[w.d] = BindingTask[w.b]
         /\ \A i \in 1..3 : parent[Chain(w.d)[i]] = "ACTIVE"
         /\ ActiveBinding(w.b) /\ Ready(m, w.op, w.b) /\ m \in Aggregates
         /\ AggregateOK(m, ActorFor(w.b))
         /\ actor' = [actor EXCEPT ![ActorFor(w.b)] = Applied(m, w.op, w.b)]
         /\ done' = done \cup {<<w.op, w.b>>}
         /\ UNCHANGED <<parent, binding, works, answers>>
<1> DEFINE w == session[s]
<1>1. GuardPassed(w) /\ Drafted(w) /\ w.pc # "idle" /\ Committed(s)
      /\ UNCHANGED <<parent, binding, works, answers>>
  BY DEF Commit, Land, At, InDoubt, GuardPassed, Drafted, ownerVars
<1>2. /\ w.b \in Bindings /\ w.d \in Decisions /\ OnTask(s) /\ w.op \in Transitions
      /\ Mine(s) \in Aggregates /\ AggregateOK(Mine(s), ActorFor(w.b))
  BY <1>1, SessionFacts DEF SessionRecords
<1>3. /\ ActiveBinding(w.b) /\ Ready(Mine(s), w.op, w.b) /\ HoldsActor(w) /\ w.locked = 3
      /\ w.new = Applied(Mine(s), w.op, w.b)
  BY <1>1, DraftHeld
<1>4. \A i \in 1..3 : parent[Chain(w.d)[i]] = "ACTIVE"
  BY <1>1, <1>3, SessionFacts, LineHeld
<1> QED
  BY <1>1, <1>2, <1>3, <1>4 DEF Committed, OnTask

(* References and status move together.                                     *)
LEMMA MarksStep ==
  ASSUME IInv, MarksInv, [Next]_vars
  PROVE  MarksInv'
<1> SUFFICES ASSUME NEW a \in Actors PROVE MarksOK(actor'[a])
  BY DEF MarksInv, MarksOK
<1>1. MarksOK(actor[a]) /\ actor \in [Actors -> Aggregates] /\ actor[a] \in Aggregates
  BY DEF MarksInv, MarksOK, IInv, TypeOK
<1>2. ASSUME NEW c \in Actors, ActorStep(c) PROVE MarksOK(actor'[a])
  <2>1. CASE a # c
    BY <1>1, <1>2, <2>1 DEF ActorStep, Register, AdmitTask, IssueBinding, SupersedeBinding,
       ReportHistorical, AckOutbox, Reset, SetActor
  <2>2. CASE a = c
    <3> DEFINE m == actor[a]
    <3>1. \/ actor'[a].status \notin {"CONSUMED", "STARTED"}
          \/ actor'[a].status = m.status /\ actor'[a].marks = m.marks
      <4>1. CASE Register(a)
        BY <1>1, <4>1 DEF Register, SetActor, Unregistered
      <4>2. CASE Reset(a)
        BY <1>1, <4>2 DEF Reset, SetActor, Aggregates
      <4>3. ASSUME NEW d \in Decisions, AdmitTask(a, d) PROVE actor'[a].status = "ADMITTED"
        BY <1>1, <4>3 DEF AdmitTask, SetActor, Aggregates
      <4>4. ASSUME NEW b \in Bindings, IssueBinding(a, b)
            PROVE  actor'[a].status = m.status /\ actor'[a].marks = m.marks
        BY <1>1, <4>4 DEF IssueBinding, SetActor, Aggregates
      <4>5. ASSUME NEW b \in Bindings, SupersedeBinding(a, b)
            PROVE  actor'[a].status = m.status /\ actor'[a].marks = m.marks
        BY <1>1, <4>5 DEF SupersedeBinding, SetActor, Aggregates
      <4>6. ASSUME NEW b \in Bindings, AckOutbox(a, b)
            PROVE  actor'[a].status = m.status /\ actor'[a].marks = m.marks
        BY <1>1, <4>6 DEF AckOutbox, SetActor, Aggregates
      <4>7. ASSUME NEW independent \in BOOLEAN, ReportHistorical(a, independent)
            PROVE  actor'[a].status = "CLOSED"
        BY <1>1, <4>7 DEF ReportHistorical, SetActor, Aggregates
      <4> QED
        BY <1>2, <2>2, <4>1, <4>2, <4>3, <4>4, <4>5, <4>6, <4>7 DEF ActorStep
    <3> QED
      BY <1>1, <3>1 DEF MarksOK
  <2> QED
    BY <2>1, <2>2
<1>3. ASSUME NEW s \in Sessions, Commit(s) \/ Land(s) PROVE MarksOK(actor'[a])
  <2> DEFINE w == session[s]  m == Mine(s)
  <2>1. actor' = [actor EXCEPT ![ActorFor(w.b)] = Applied(m, w.op, w.b)]
        /\ w.op \in Transitions /\ m \in Aggregates
    BY <1>3, CommitFacts
  <2>2. MarksOK(Applied(m, w.op, w.b))
    BY <2>1 DEF MarksOK, Applied, Aggregates, Transitions
  <2> QED
    BY <1>1, <2>1, <2>2
<1>4. CASE UNCHANGED actor
  BY <1>1, <1>4
<1> QED
  BY <1>2, <1>3, <1>4, AggregateSteps

(* A session comes to FINISH from its work, and stays there with its task.  *)
LEMMA ToFinish ==
  ASSUME IInv, [Next]_vars, NEW s \in Sessions,
         session'[s].pc # "idle", session'[s].op = "FINISH"
  PROVE  \/ /\ session[s].pc # "idle" /\ session[s].op = "FINISH"
            /\ session'[s].b = session[s].b
         \/ Work(s) /\ session'[s].b = session[s].b
<1> DEFINE Stays == /\ session[s].pc # "idle" /\ session[s].op = "FINISH"
                    /\ session'[s].b = session[s].b
<1>1. session \in [Sessions -> SessionRecords] /\ session[s] \in SessionRecords
  BY DEF IInv, TypeOK
<1>i. session'[s] # Idle
  BY DEF Idle
<1>2. CASE UNCHANGED session
  BY <1>2
<1>3. ASSUME NEW u \in Sessions, NEW v, session' = [session EXCEPT ![u] = v], u # s
      PROVE  Stays
  BY <1>1, <1>3
<1>4. ASSUME NEW v, session' = [session EXCEPT ![s] = v] PROVE session'[s] = v
  BY <1>1, <1>4
<1>5. ASSUME NEW u \in Sessions, NEW b \in Bindings, RunBegin(u, b) \/ Release(u, b)
      PROVE  Stays
  <2>1. CASE u = s
    <3> DEFINE d == actor[ActorFor(b)].decision
               run == [Idle EXCEPT !.pc = "ready", !.b = b, !.d = d, !.episode = TRUE]
               close == [Idle EXCEPT !.pc = "ready", !.op = "CLOSE", !.b = b, !.d = d]
    <3>1. run.op = "CONSUME" /\ close.op = "CLOSE"
      BY DEF Idle
    <3>2. Goto(s, run) \/ Goto(s, close)
      BY <1>5, <2>1 DEF RunBegin, Release
    <3> HIDE DEF run, close
    <3> QED
      BY <1>4, <3>1, <3>2 DEF Goto
  <2> QED
    BY <1>3, <1>5, <2>1 DEF RunBegin, Release, Goto
<1>6. ASSUME NEW u \in Sessions,
             \/ LockActor(u) \/ LockParent(u) \/ LockBindingToClose(u) \/ Draft(u) \/ Guard(u)
             \/ Commit(u) \/ SettleStep(u) \/ Lose(u) \/ Crash(u) \/ Reconcile(u)
      PROVE  Stays
  <2>1. CASE u = s
    <3>1. session[s].pc # "idle"
      BY <1>6, <2>1 DEF LockActor, LockParent, LockBindingToClose, Draft, Guard, Commit, SettleStep,
         Land, Drop, InDoubt, Lose, Crash, Reconcile, At
    <3>2. \/ UNCHANGED session
          \/ Goto(s, Idle)
          \/ \E pc \in SessionStates : Goto(s, [session[s] EXCEPT !.pc = pc])
          \/ \E pc \in SessionStates : Goto(s, [session[s] EXCEPT !.pc = pc, !.locked = 0])
          \/ Goto(s, [session[s] EXCEPT !.locked = @ + 1])
          \/ \E new : Goto(s, [session[s] EXCEPT !.pc = "drafted", !.new = new])
      BY <1>6, <2>1 DEF LockActor, LockParent, LockBindingToClose, Draft, Guard, Commit, SettleStep,
         Land, Drop, Settled, Lose, Crash, Reconcile, Rollback, AfterReplay, SessionStates
    <3> QED
      BY <1>1, <1>2, <1>4, <1>i, <3>1, <3>2 DEF Goto, SessionRecords
  <2>2. CASE u # s
    <3>1. UNCHANGED session \/ \E v : session' = [session EXCEPT ![u] = v]
      BY <1>6 DEF LockActor, LockParent, LockBindingToClose, Draft, Guard, Commit, SettleStep,
         Land, Drop, Settled, Lose, Crash, Reconcile, Rollback, Goto
    <3> QED
      BY <1>2, <1>3, <2>2, <3>1
  <2> QED
    BY <2>1, <2>2
<1>7. ASSUME NEW u \in Sessions, Readback(u) PROVE Stays
  <2> DEFINE w == session[u]
  <2>1. w \in SessionRecords /\ w.op \in Transitions /\ w.pc = "readback"
    BY <1>1, <1>7 DEF Readback, At, SessionRecords
  <2>2. PICK v \in {[w EXCEPT !.pc = "ready", !.op = "START"], [w EXCEPT !.pc = "work"],
                   [w EXCEPT !.pc = "ready", !.op = "CLOSE"], [w EXCEPT !.pc = "verify"],
                   [w EXCEPT !.pc = "asking"], Idle} : Goto(u, v)
    BY <1>7, <2>1 DEF Readback, Transitions, Idle, SessionRecords
  <2>3. v.op \in {"START", "CLOSE"} \/ v = Idle \/ (v.op = w.op /\ v.b = w.b)
    BY <2>1 DEF SessionRecords
  <2>4. CASE u # s
    BY <1>3, <2>2, <2>4 DEF Goto
  <2>5. CASE u = s
    <3>1. session'[s] = v
      BY <1>4, <2>2, <2>5 DEF Goto
    <3> QED
      BY <1>i, <2>1, <2>3, <2>5, <3>1
  <2> QED
    BY <2>4, <2>5
<1>8. ASSUME NEW u \in Sessions, Work(u)
      PROVE  Stays \/ (Work(s) /\ session'[s].b = session[s].b)
  <2>1. CASE u # s
    BY <1>3, <1>8, <2>1 DEF Work, Goto
  <2>2. CASE u = s
    BY <1>1, <1>4, <1>8, <2>2 DEF Work, Goto, SessionRecords
  <2> QED
    BY <2>1, <2>2
<1>9. ASSUME \/ \E o \in Owners : OwnerStep(o)
             \/ \E o \in Owners, op \in {"issue", "retire"}, x \in Parents : OwnerBegin(o, op, x)
             \/ \E b \in Bindings : IssueRow(b) \/ RevokeRow(b) \/ \E old \in Bindings : SupersedeRow(old, b)
             \/ \E a \in Actors : ActorStep(a)
             \/ UNCHANGED vars
      PROVE  UNCHANGED session
  BY <1>9 DEF OwnerStep, OwnerLock, OwnerCommit, OwnerRefused, OwnerBegin, IssueRow, RevokeRow,
     SupersedeRow, ActorStep, Register, AdmitTask, IssueBinding, SupersedeBinding, ReportHistorical,
     AckOutbox, Reset, SetActor, vars
<1> QED
  BY <1>2, <1>5, <1>6, <1>7, <1>8, <1>9 DEF Next, TransactionStep, EpisodeStep

(* Work that was done stays done, and nobody comes to FINISH without it.    *)
LEMMA EffortStep ==
  ASSUME IInv, EffortInv, [Next]_vars
  PROVE  EffortInv'
<1>1. ASSUME NEW s \in Sessions, Work(s)
      PROVE  /\ session[s].b \in Bindings /\ works[BindingTask[session[s].b]] = 0
             /\ <<"START", session[s].b>> \in done
             /\ works' = [works EXCEPT ![BindingTask[session[s].b]] = 1]
  <2>1. session[s].pc = "work" /\ session[s].b \in Bindings
    BY <1>1, SessionFacts DEF Work, At
  <2>2. /\ works[BindingTask[session[s].b]] = 0
        /\ <<"START", session[s].b>> \in done
    BY <2>1 DEF IInv, WorkInv, Licensed
  <2> QED
    BY <1>1, <2>1, <2>2 DEF Work
<1>2. \A t \in Tasks : works[t] = 1 => works'[t] = 1
  <2>1. CASE \E s \in Sessions : Work(s)
    BY <1>1, <2>1 DEF IInv, TypeOK
  <2>2. CASE UNCHANGED works
    BY <2>2
  <2> QED
    BY <2>1, <2>2, VisibleSteps DEF OwnerCommit, IssueRow, RevokeRow, SupersedeRow, Commit, Land,
       Reconcile, historyVars
<1> SUFFICES ASSUME NEW s \in Sessions, session'[s].pc # "idle", session'[s].op = "FINISH"
             PROVE  works'[BindingTask[session'[s].b]] = 1
  BY DEF EffortInv
<1>3. CASE Work(s) /\ session'[s].b = session[s].b
  BY <1>1, <1>3, RowSorts DEF IInv, TypeOK
<1>4. CASE session[s].pc # "idle" /\ session[s].op = "FINISH" /\ session'[s].b = session[s].b
  <2>1. BindingTask[session[s].b] \in Tasks
    BY <1>4, SessionFacts, RowSorts
  <2> QED
    BY <1>2, <1>4, <2>1 DEF EffortInv
<1> QED
  BY <1>3, <1>4, ToFinish

THEOREM PromiseInvariant == Spec => []PromiseInv
<1>1. Init => MarksInv /\ EffortInv
  BY DEF Init, MarksInv, EffortInv, Unregistered, Idle
<1>2. IInv /\ MarksInv /\ EffortInv /\ [Next]_vars => MarksInv' /\ EffortInv'
  BY MarksStep, EffortStep
<1> QED
  BY <1>1, <1>2, LifecycleInvariant, PTL DEF Spec, PromiseInv

Silent == UNCHANGED Promise!promiseVars

Bound == [b \in Bindings |-> binding[b].status]

LEMMA OwnerIsPromised ==
  ASSUME IInv, NEW o \in Owners, OwnerCommit(o)
  PROVE  \E x \in Parents : Promise!Authorise(x) \/ Promise!Retire(x)
<1> DEFINE x == owner[o].x
<1>1. /\ owner[o] # Resting /\ x \in Parents /\ parent \in [Parents -> RowStates]
      /\ owner[o].op \in {"issue", "retire"} /\ owner[o] \in OwnerRecords
  BY DEF OwnerCommit, IInv, OwnerInv, TypeOK, OwnerRecords
<1>2. UNCHANGED <<Bound, done, works, answers>>
  BY DEF OwnerCommit, Bound, historyVars
<1>3. CASE owner[o].op = "issue"
  <2>1. parent[x] = "none" /\ \A i \in 1..(Len(Line[x]) - 1) : parent[Line[x][i]] = "ACTIVE"
    BY <1>3 DEF OwnerCommit, OwnerAllowed, OwnerRows, RowsToLock
  <2>2. parent' = [parent EXCEPT ![x] = "ACTIVE"]
    BY <1>3 DEF OwnerCommit
  <2> QED
    BY <1>1, <1>2, <2>1, <2>2 DEF Promise!Authorise, Bound
<1>4. CASE owner[o].op = "retire"
  <2>1. parent[x] = "ACTIVE" /\ parent' = [parent EXCEPT ![x] = "RETIRED"]
    BY <1>4 DEF OwnerCommit, OwnerAllowed
  <2> QED
    BY <1>1, <1>2, <2>1 DEF Promise!Retire, Bound
<1> QED
  BY <1>1, <1>3, <1>4

LEMMA BindingIsPromised ==
  ASSUME IInv, NEW b \in Bindings,
         IssueRow(b) \/ RevokeRow(b) \/ \E old \in Bindings : SupersedeRow(old, b)
  PROVE  \/ Promise!Bind(b) \/ Promise!Unbind(b) \/ \E old \in Bindings : Promise!Rebind(old, b)
<1>1. /\ binding \in [Bindings -> BindingRows] /\ binding[b] \in BindingRows
      /\ UNCHANGED <<parent, done, works, answers>>
  BY DEF IInv, TypeOK, IssueRow, RevokeRow, SupersedeRow, historyVars
<1>2. CASE IssueRow(b)
  <2>1. Bound' = [Bound EXCEPT ![b] = "ACTIVE"]
    BY <1>1, <1>2 DEF IssueRow, Bound, BindingRows
  <2> QED
    BY <1>1, <1>2, <2>1 DEF IssueRow, NoActiveBinding, ActiveBinding, Bound, Promise!Bind
<1>3. CASE RevokeRow(b)
  <2>1. Bound' = [Bound EXCEPT ![b] = "RETIRED"]
    BY <1>1, <1>3 DEF RevokeRow, Bound, BindingRows
  <2> QED
    BY <1>1, <1>3, <2>1 DEF RevokeRow, ActiveBinding, Bound, Promise!Unbind
<1>4. ASSUME NEW old \in Bindings, SupersedeRow(old, b) PROVE Promise!Rebind(old, b)
  <2>1. Bound' = [Bound EXCEPT ![old] = "RETIRED", ![b] = "ACTIVE"]
    BY <1>1, <1>4 DEF SupersedeRow, Bound, BindingRows
  <2> QED
    BY <1>1, <1>4, <2>1 DEF SupersedeRow, ActiveBinding, Bound, Promise!Rebind
<1> QED
  BY <1>2, <1>3, <1>4

\* A committed transition is due, and everything that must allow it does.
LEMMA CommitIsPromised ==
  ASSUME PromiseInv, NEW s \in Sessions, Commit(s) \/ Land(s)
  PROVE  \E b \in Bindings, op \in {"CONSUME", "START", "FINISH", "CLOSE"} : Promise!Transit(op, b)
<1> DEFINE w == session[s]  b == w.b  m == Mine(s)
<1>1. /\ w.pc # "idle" /\ Drafted(w) /\ w.op \in Transitions /\ b \in Bindings
      /\ w.d \in Decisions /\ DecidedTask[w.d] = BindingTask[b]
      /\ \A i \in 1..3 : parent[Line[w.d][i]] = "ACTIVE"
      /\ ActiveBinding(b) /\ Ready(m, w.op, b) /\ m \in Aggregates /\ AggregateOK(m, ActorFor(b))
      /\ done' = done \cup {<<w.op, b>>}
      /\ UNCHANGED <<parent, binding, works, answers>>
  BY CommitFacts DEF PromiseInv, Chain
<1>2. Promise!Allowed(b)
  BY <1>1 DEF Promise!Allowed, Promise!Decisions, Decisions, ActiveBinding
<1>3. MarksOK(m) /\ m.binding = b
  <2>1. ActorFor(b) \in Actors
    BY <1>1, RowSorts
  <2> QED
    BY <1>1, <2>1 DEF PromiseInv, MarksInv, MarksOK, Mine, Ready
<1>4. Promise!Due(w.op, b)
  <2>1. CASE w.op = "CONSUME"
    BY <2>1 DEF Promise!Due
  <2>2. CASE w.op = "START"
    <3>1. <<"CONSUME", b>> \in done
      BY <1>1, <1>3, <2>2 DEF Ready, MarksOK, AggregateOK
    <3>2. \A c \in Bindings : BindingTask[c] = BindingTask[b] => <<"START", c>> \notin done
      BY <1>1, <2>2, NoEarlierStart DEF PromiseInv
    <3> QED
      BY <2>2, <3>1, <3>2 DEF Promise!Due
  <2>3. CASE w.op = "FINISH"
    <3>1. <<"START", b>> \in done
      BY <1>1, <1>3, <2>3 DEF Ready, MarksOK, AggregateOK
    <3>2. works[BindingTask[b]] = 1
      BY <1>1, <2>3 DEF PromiseInv, EffortInv
    <3> QED
      BY <2>3, <3>1, <3>2 DEF Promise!Due
  <2>4. CASE w.op = "CLOSE"
    BY <1>1, <2>4 DEF Ready, AggregateOK, Promise!Due
  <2> QED
    BY <1>1, <2>1, <2>2, <2>3, <2>4 DEF Transitions
<1>5. Promise!Transit(w.op, b)
  BY <1>1, <1>2, <1>4 DEF Promise!Transit, Promise!authority
<1> QED
  BY <1>1, <1>5 DEF Transitions

LEMMA WorkIsPromised ==
  ASSUME IInv, NEW s \in Sessions, Work(s)
  PROVE  session[s].b \in Bindings /\ Promise!Work(session[s].b)
<1>1. session[s].pc = "work" /\ session[s].b \in Bindings
  BY SessionFacts DEF Work, At
<1>2. /\ works[BindingTask[session[s].b]] = 0
      /\ <<"START", session[s].b>> \in done
  BY <1>1 DEF IInv, WorkInv, Licensed
<1>3. /\ works' = [works EXCEPT ![BindingTask[session[s].b]] = 1]
      /\ UNCHANGED <<parent, binding, done, answers>>
  BY <1>2 DEF Work, ownerVars
<1> QED
  BY <1>1, <1>2, <1>3 DEF Promise!Work, Promise!authority

LEMMA AnswerIsPromised ==
  ASSUME IInv, NEW s \in Sessions, Reconcile(s)
  PROVE  \/ \E b \in Bindings, op \in {"CONSUME", "START", "FINISH", "CLOSE"} : Promise!Answer(op, b)
         \/ Silent
<1> DEFINE w == session[s]  said == Said(Mine(s), w.op, w.b)
<1>1. /\ w.b \in Bindings /\ w.op \in Transitions
      /\ said => <<w.op, w.b>> \in done
  <2>1. w.pc # "idle"
    BY DEF Reconcile
  <2>2. /\ w.b \in Bindings /\ w.op \in Transitions /\ ActorFor(w.b) \in Actors
        /\ Mine(s) \in Aggregates /\ AggregateOK(Mine(s), ActorFor(w.b))
    BY <2>1, SessionFacts DEF SessionRecords
  <2> QED
    BY <2>2, SaidIsDone
<1>2. /\ answers' = answers \cup (IF said THEN {<<w.op, w.b>>} ELSE {})
      /\ UNCHANGED <<parent, binding, done, works>>
  BY DEF Reconcile, ownerVars
<1> HIDE DEF said
<1>3. CASE said
  <2>1. Promise!Answer(w.op, w.b)
    BY <1>1, <1>2, <1>3 DEF Promise!Answer, Promise!authority
  <2> QED
    BY <1>1, <2>1 DEF Transitions
<1>4. CASE ~said
  BY <1>2, <1>4 DEF Silent, Promise!promiseVars, Promise!authority
<1> QED
  BY <1>3, <1>4

LEMMA StepIsPromised ==
  ASSUME PromiseInv, [Next]_vars
  PROVE  [Promise!Next]_(Promise!promiseVars)
<1>0. IInv
  BY DEF PromiseInv
<1>1. CASE UNCHANGED <<parent, binding, done, works, answers>>
  BY <1>1 DEF Promise!promiseVars, Promise!authority
<1>2. CASE \E o \in Owners : OwnerCommit(o)
  BY <1>0, <1>2, OwnerIsPromised DEF Promise!Next
<1>3. CASE \E b \in Bindings : IssueRow(b) \/ RevokeRow(b) \/ \E old \in Bindings : SupersedeRow(old, b)
  BY <1>0, <1>3, BindingIsPromised DEF Promise!Next
<1>4. CASE \E s \in Sessions : Commit(s) \/ Land(s)
  BY <1>4, CommitIsPromised DEF Promise!Next
<1>5. CASE \E s \in Sessions : Work(s)
  BY <1>0, <1>5, WorkIsPromised DEF Promise!Next
<1>6. CASE \E s \in Sessions : Reconcile(s)
  BY <1>0, <1>6, AnswerIsPromised DEF Promise!Next, Silent
<1> QED
  BY <1>1, <1>2, <1>3, <1>4, <1>5, <1>6, VisibleSteps

(* The lifecycle keeps its promise, for all numbers of sessions, owners and *)
(* failures: each transition is one step, due and allowed at that instant;  *)
(* FINISH speaks of work that was done; answers are of what happened        *)
(* (apply, commit_guard, run, reconcile_transition).                        *)
THEOREM LifecycleKeepsPromise == Spec => KeepsPromise
<1>1. Init => Promise!Init
  BY DEF Init, Promise!Init
<1>2. PromiseInv /\ [Next]_vars => [Promise!Next]_(Promise!promiseVars)
  BY StepIsPromised
<1> QED
  BY <1>1, <1>2, PromiseInvariant, PTL DEF Spec, KeepsPromise, Promise!Spec
=============================================================================
