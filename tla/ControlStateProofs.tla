------------------------- MODULE ControlStateProofs -------------------------
(***************************************************************************)
(* Proofs about ControlState for any sets of contexts, sessions, requests, *)
(* directives and calls. Every commit holds the project's row and the rows *)
(* it writes, so what a call has tested under its locks stays so until it  *)
(* commits; what an operation does to the tree is proved apart, for any    *)
(* project.                                                                *)
(***************************************************************************)
EXTENDS ControlState, TLAPS

(* The operations.                                                          *)

\* A child is a descendant of its parent.
LEMMA ChildIsDescendant ==
  ASSUME NEW p, NEW c \in Contexts, NEW d \in Contexts, c # d, p.parent[d] = c
  PROVE  d \in Descendants(p, c)
<1>1. ASSUME NEW S \in SUBSET Contexts, d \in S, \A x \in S : p.parent[x] \in S \cup {NoContext}
      PROVE  c \in S
  BY <1>1, ContextAssumption
<1>2. c \in Ancestors(p, d)
  BY <1>1 DEF Ancestors
<1> QED
  BY <1>2 DEF Descendants

\* Operations yield projects and leave the revision alone.
LEMMA AfterIsProject ==
  ASSUME NEW p \in Projects, NEW o \in Operations
  PROVE  After(p, o) \in Projects /\ After(p, o).rev = p.rev
<1>1. o.op \in DOMAIN NextLife => NextLife[o.op] \in Lives
  BY DEF NextLife, Lives
<1>2. (IF o.op \in DOMAIN NextLife THEN NextLife[o.op] ELSE p.life[o.ctx]) \in Lives
  BY <1>1 DEF Projects, Operations
<1>3. (IF o.op \in Creations THEN o.at ELSE p.parent[o.ctx]) \in Contexts \cup {NoContext}
  BY DEF Projects, Operations
<1>4. (CASE o.op = "PARK_STABLE_UNKNOWN" -> "PARKED"
         [] o.op = "REOPEN_STABLE_UNKNOWN" -> "NONE"
         [] o.op = "SET_CONTROL_CONDITION" /\ p.hold[o.ctx] # "NONE" -> "LIFTED"
         [] OTHER -> p.hold[o.ctx]) \in Holds
  BY DEF Projects, Operations, Holds
<1>5. (IF o.op = "SET_DEFAULT_CONTEXT" THEN o.ctx ELSE p.default) \in Contexts
  BY DEF Projects, Operations
<1> QED
  BY <1>2, <1>3, <1>4, <1>5 DEF After, Projects, Operations

\* What the operation leaves of life and parents.
LEMMA AfterFields ==
  ASSUME NEW p \in Projects, NEW o \in Operations
  PROVE  /\ \A c \in Contexts \ {o.ctx} : /\ After(p, o).life[c] = p.life[c]
                                          /\ After(p, o).parent[c] = p.parent[c]
         /\ After(p, o).life[o.ctx] = IF o.op \in DOMAIN NextLife THEN NextLife[o.op] ELSE p.life[o.ctx]
         /\ After(p, o).parent[o.ctx] = IF o.op \in Creations THEN o.at ELSE p.parent[o.ctx]
BY DEF After, Projects, Operations

\* The lives of the context operated on, before and after.
LEMMA LegalLives ==
  ASSUME NEW p \in Projects, NEW o \in Operations, Legal(p, o)
  PROVE  LET l == p.life[o.ctx]  m == After(p, o).life[o.ctx] IN
         \/ l = "ABSENT" /\ m = "OPEN" /\ o.op \in Creations
         \/ l = "OPEN" /\ m \in {"RETURNED", "CANCELLED"} /\ o.op \in Endings
         \/ l \in {"RETURNED", "JOINED"} /\ m \in {"JOINED", "CLOSED"} /\ o.op \notin Creations \cup Endings
         \/ l = m /\ o.op \notin DOMAIN NextLife
<1> USE AfterFields
<1>1. CASE o.op \in Creations /\ MayCreate(p, o)
  BY <1>1 DEF Creations, NextLife, MayCreate
<1>2. CASE o.op \in Endings /\ MayEnd(p, o)
  BY <1>2 DEF Endings, NextLife, MayEnd, IsOpen
<1>3. CASE o.op = "APPLY_JOIN_DISPOSITION" /\ p.life[o.ctx] = "RETURNED"
  BY <1>3 DEF NextLife, Creations, Endings
<1>4. CASE o.op = "CLOSE_CONTEXT" /\ p.life[o.ctx] \in {"RETURNED", "JOINED"}
  BY <1>4 DEF NextLife, Creations, Endings
<1>5. CASE o.op \notin DOMAIN NextLife /\ MayTouch(p, o)
  BY <1>5
<1> QED
  BY <1>1, <1>2, <1>3, <1>4, <1>5 DEF Legal

\* No operation leaves a branch behind.
LEMMA OperationKeepsBranches ==
  ASSUME NEW p \in Projects, NEW o \in Operations, Legal(p, o), BranchesHang(p)
  PROVE  BranchesHang(After(p, o))
<1> DEFINE n == After(p, o)
<1> SUFFICES ASSUME NEW c \in Contexts
             PROVE  /\ n.parent[c] # c
                    /\ Unresolved(n, c) /\ n.parent[c] # NoContext => IsOpen(n, n.parent[c])
  BY DEF BranchesHang
<1> HIDE DEF n
<1>f. /\ \A x \in Contexts \ {o.ctx} : n.life[x] = p.life[x] /\ n.parent[x] = p.parent[x]
      /\ n.parent[o.ctx] = IF o.op \in Creations THEN o.at ELSE p.parent[o.ctx]
  BY AfterFields DEF n
<1>l. \/ p.life[o.ctx] = "ABSENT" /\ n.life[o.ctx] = "OPEN" /\ o.op \in Creations
      \/ p.life[o.ctx] = "OPEN" /\ n.life[o.ctx] \in {"RETURNED", "CANCELLED"} /\ o.op \in Endings
      \/ /\ p.life[o.ctx] \in {"RETURNED", "JOINED"} /\ n.life[o.ctx] \in {"JOINED", "CLOSED"}
         /\ o.op \notin Creations \cup Endings
      \/ p.life[o.ctx] = n.life[o.ctx] /\ o.op \notin DOMAIN NextLife
  BY LegalLives DEF n
<1>t. o.ctx \in Contexts /\ o.at \in Contexts /\ p.parent \in [Contexts -> Contexts \cup {NoContext}]
  BY DEF Operations, Projects
<1>b. \A x \in Contexts : p.parent[x] # x /\
        (Unresolved(p, x) /\ p.parent[x] # NoContext => IsOpen(p, p.parent[x]))
  BY DEF BranchesHang
<1>1. CASE o.op \in Creations
  <2>1. MayCreate(p, o)
    BY <1>1 DEF Legal, Creations, Endings, NextLife
  <2>2. p.life[o.ctx] = "ABSENT" /\ p.life[o.at] = "OPEN" /\ o.at # o.ctx
    BY <2>1 DEF MayCreate, IsOpen
  <2>3. n.life[o.ctx] = "OPEN" /\ n.life[o.at] = "OPEN"
    BY <2>2, <1>f, <1>l, <1>t, <1>1 DEF Creations, NextLife
  <2> QED
    BY <2>2, <2>3, <1>f, <1>t, <1>b, <1>1 DEF IsOpen, Unresolved
<1>2. CASE o.op \in Endings
  <2>1. MayEnd(p, o)
    BY <1>2 DEF Legal, Creations, Endings, NextLife
  <2>2. \A d \in Contexts : d # o.ctx /\ p.parent[d] = o.ctx => ~Unresolved(p, d)
    BY <2>1, <1>t, ChildIsDescendant DEF MayEnd, CleanBelow
  <2>3. n.parent[o.ctx] = p.parent[o.ctx] /\ p.life[o.ctx] = "OPEN"
    BY <1>2, <1>f, <2>1 DEF Creations, Endings, MayEnd, IsOpen
  <2>4. CASE c = o.ctx
    <3>1. p.parent[c] # c /\ (p.parent[c] # NoContext => p.life[p.parent[c]] = "OPEN")
      BY <2>3, <2>4, <1>b DEF Unresolved, IsOpen
    <3>2. p.parent[c] \in Contexts \cup {NoContext}
      BY <1>t
    <3>3. p.parent[c] # NoContext => n.life[p.parent[c]] = "OPEN"
      BY <3>1, <3>2, <2>4, <1>f
    <3> QED
      BY <3>1, <3>3, <2>3, <2>4 DEF IsOpen
  <2>5. CASE c # o.ctx
    BY <2>2, <2>5, <1>b, <1>f, <1>t DEF Unresolved, IsOpen
  <2> QED
    BY <2>4, <2>5
<1>3. CASE o.op \notin Creations \cup Endings
  <2>1. n.parent[o.ctx] = p.parent[o.ctx]
    BY <1>3, <1>f
  <2>2. \A x \in Contexts : IsOpen(n, x) <=> IsOpen(p, x)
    BY <1>3, <1>l, <1>f DEF IsOpen
  <2>3. Unresolved(n, c) => Unresolved(p, c)
    BY <1>3, <1>l, <1>f DEF Unresolved
  <2> QED
    BY ZenonT(40), <2>1, <2>2, <2>3, <1>b, <1>f, <1>t
<1> QED
  BY <1>1, <1>2, <1>3

\* An operation keeps what the operations before it have kept.
LEMMA OperationContinues ==
  ASSUME NEW q \in Projects, NEW p \in Projects, NEW o \in Operations, Legal(p, o), Continues(q, p)
  PROVE  Continues(q, After(p, o))
<1> DEFINE n == After(p, o)
<1> SUFFICES ASSUME NEW c \in Contexts, q.life[c] # "ABSENT"
             PROVE  /\ n.parent[c] = q.parent[c]
                    /\ n.life[c] # "ABSENT"
                    /\ q.life[c] \in {"CLOSED", "CANCELLED"} => n.life[c] = q.life[c]
                    /\ q.life[c] \in {"RETURNED", "JOINED"} => n.life[c] \in {"RETURNED", "JOINED", "CLOSED"}
  BY DEF Continues
<1>1. CASE c # o.ctx
  BY <1>1, AfterFields DEF Continues
<1>2. CASE c = o.ctx
  <2>1. p.life[c] # "ABSENT"
    BY DEF Continues
  <2>2. o.op \notin Creations
    BY <1>2, <2>1 DEF Legal, MayCreate, Creations, Endings, NextLife
  <2>3. n.parent[c] = p.parent[c]
    BY <1>2, <2>2, AfterFields
  <2> HIDE DEF n
  <2>4. \/ p.life[c] = "OPEN" /\ n.life[c] \in {"RETURNED", "CANCELLED"}
        \/ p.life[c] \in {"RETURNED", "JOINED"} /\ n.life[c] \in {"JOINED", "CLOSED"}
        \/ p.life[c] = n.life[c]
    BY <1>2, <2>1, LegalLives DEF n
  <2> QED
    BY <2>1, <2>3, <2>4 DEF Continues
<1> QED
  BY <1>1, <1>2

\* Only what a directive returns or cancels is no longer open.
LEMMA OperationEnds ==
  ASSUME NEW p \in Projects, NEW o \in Operations, Legal(p, o), NEW c \in Contexts,
         IsOpen(p, c), ~IsOpen(After(p, o), c)
  PROVE  c = o.ctx /\ o.op \in Endings
BY AfterFields, LegalLives DEF IsOpen

-----------------------------------------------------------------------------
(* Steps that write nothing.                                                *)

\* A call keeps its invariant under a step of another one that leaves alone
\* what it has locked.
LEMMA OthersKeep ==
  ASSUME TypeOK, NEW v \in Workers, CallOK(v), tx'[v] = tx[v], held'[v] = held[v],
         ProjectRow \in held[v] => UNCHANGED rows,
         \A q \in Requests : q \in held[v] /\ event[q].state = "OPEN" => event'[q].state = "OPEN",
         \A s \in Sessions : s \in held[v] /\ session[s].bound => session'[s].bound
  PROVE  CallOK(v)'
<1>1. (tx[v].call = "none" <=> AtStep(v, "idle"))' /\ (tx[v].call = "replay" => AtStep(v, "commit"))'
  BY DEF CallOK, AtStep
<1>2. (tx[v].call = "bind" => BindOK(v))'
  <2> SUFFICES ASSUME tx[v].call = "bind"
               PROVE  BindOK(v)'
    OBVIOUS
  <2>1. BindOK(v)
    BY DEF CallOK
  <2>2. CASE tx[v].pc = "commit"
    <3>1. UNCHANGED <<project, session, event>>
      BY <2>1, <2>2 DEF BindOK, rows
    <3>2. FitsProject(tx[v].f, project)' <=> FitsProject(tx[v].f, project)
      BY <3>1 DEF FitsProject, IsOpen
    <3> QED
      BY <2>1, <3>1, <3>2 DEF BindOK
  <2>3. CASE tx[v].pc # "commit"
    BY <2>1, <2>3 DEF BindOK
  <2> QED
    BY <2>2, <2>3
<1>3. (tx[v].call \in {"begin", "replay"} => BeginOK(v))'
  <2> SUFFICES ASSUME tx[v].call \in {"begin", "replay"}
               PROVE  BeginOK(v)'
    OBVIOUS
  <2>1. BeginOK(v) /\ tx[v].s \in Sessions
    BY ServiceAssumption DEF CallOK, BeginOK
  <2>2. CASE ProjectRow \in held[v]
    <3>1. UNCHANGED <<project, session, event>>
      BY <2>2 DEF rows
    <3>2. FitsProject(tx[v].f, project)' <=> FitsProject(tx[v].f, project)
      BY <3>1 DEF FitsProject, IsOpen
    <3>3. \A a \in Contexts :
            /\ Sees(session[tx[v].s], project, a)' <=> Sees(session[tx[v].s], project, a)
            /\ Rehydrated(session[tx[v].s], project, a)' = Rehydrated(session[tx[v].s], project, a)
      BY <3>1 DEF Sees, Rehydrated, IsNearestOpen, Ancestors, IsOpen
    <3> QED
      BY <2>1, <3>1, <3>2, <3>3 DEF BeginOK
  <2>3. CASE ProjectRow \notin held[v]
    BY <2>1, <2>3 DEF BeginOK
  <2> QED
    BY <2>2, <2>3
<1>4. (tx[v].call = "complete" => CompleteOK(v))'
  <2> SUFFICES ASSUME tx[v].call = "complete"
               PROVE  CompleteOK(v)'
    OBVIOUS
  <2>1. CompleteOK(v)
    BY DEF CallOK
  <2>2. CASE ProjectRow \in held[v]
    <3>1. UNCHANGED <<project, session, event>>
      BY <2>2 DEF rows
    <3>2. OnItsBasis(tx[v].q)' <=> OnItsBasis(tx[v].q)
      BY <3>1 DEF OnItsBasis, FitsProject, IsOpen
    <3>3. (Peers(tx[v].s, tx[v].d) = {})' <=> Peers(tx[v].s, tx[v].d) = {}
      BY <3>1 DEF Peers
    <3>4. Drafted(v)' <=> Drafted(v)
      BY <3>1 DEF Drafted, BranchesHang, Continues, IsOpen, Unresolved
    <3>5. ValidProject(tx[v].p)' <=> ValidProject(tx[v].p)
      BY DEF ValidProject, IsOpen
    <3>6. FitsProject(tx[v].f, tx[v].p)' <=> FitsProject(tx[v].f, tx[v].p)
      BY DEF FitsProject, IsOpen
    <3> QED
      BY <2>1, <3>1, <3>2, <3>3, <3>4, <3>5, <3>6 DEF CompleteOK
  <2>3. CASE ProjectRow \notin held[v]
    BY <2>1, <2>3 DEF CompleteOK
  <2> QED
    BY <2>2, <2>3
<1> QED
  BY <1>1, <1>2, <1>3, <1>4 DEF CallOK

\* A step of w that writes no row keeps the invariant when it keeps that of w.
LEMMA QuietStep ==
  ASSUME IInv, NEW w \in Workers, UNCHANGED <<rows, told>>,
         tx' \in [Workers -> Calls], \A v \in Workers \ {w} : tx'[v] = tx[v],
         \/ UNCHANGED held
         \/ \E r \in Rows : Take(w, r)
         \/ held' = [held EXCEPT ![w] = {}],
         tx'[w].pc = "idle" => held'[w] = {},
         CallOK(w)'
  PROVE  IInv'
<1>t. TypeOK /\ LocksOK
  BY DEF IInv
<1>1. held' \in [Workers -> SUBSET Rows] /\ \A v \in Workers \ {w} : held'[v] = held[v]
  BY <1>t DEF TypeOK, Take
<1>2. TypeOK'
  BY <1>1, <1>t DEF TypeOK, rows
<1>3. LocksOK'
  <2>1. \A v \in Workers \ {w} : held'[v] \cap held'[w] = {}
    BY <1>t, <1>1 DEF LocksOK, Take, Free, TypeOK
  <2>2. \A v \in Workers : tx'[v].pc = "idle" => held'[v] = {}
    BY <1>t, <1>1 DEF LocksOK, AtStep
  <2> QED
    BY <1>t, <1>1, <2>1, <2>2 DEF LocksOK, AtStep
<1>4. \A v \in Workers : CallOK(v)'
  <2> SUFFICES ASSUME NEW v \in Workers, v # w PROVE CallOK(v)'
    OBVIOUS
  <2>1. CallOK(v) /\ tx'[v] = tx[v] /\ held'[v] = held[v]
    BY <1>1 DEF IInv
  <2> QED
    BY <1>t, <2>1, OthersKeep DEF rows
<1>5. RevisionsOK' /\ ValidProject(project)' /\ BranchesHang(project)'
  BY DEF IInv, RevisionsOK, ValidProject, BranchesHang, IsOpen, Unresolved, rows
<1>6. CurrentFocusIsOpen' /\ HistoryIsLinear' /\ AnswersAreDurable'
  BY DEF IInv, CurrentFocusIsOpen, FitsProject, IsOpen, HistoryIsLinear, AnswersAreDurable, rows
<1> QED
  BY <1>2, <1>3, <1>4, <1>5, <1>6 DEF IInv

\* An idle worker may be given any call that has nothing yet.
LEMMA IdleIsACall == Idle \in Calls /\ Bootstrapped \in Projects /\ Unbound \in SessionRows
<1>1. Bootstrapped \in Projects
  BY ContextAssumption DEF Bootstrapped, Projects, Lives, Holds
<1>2. Unbound \in SessionRows
  BY ContextAssumption DEF Unbound, SessionRows
<1> QED
  BY <1>1, <1>2 DEF Idle, Calls, Steps

\* A call that ends without writing.
LEMMA RollbackKeeps ==
  ASSUME IInv, NEW w \in Workers, Rollback(w)
  PROVE  IInv'
<1>1. tx' = [tx EXCEPT ![w] = Idle] /\ held' = [held EXCEPT ![w] = {}] /\ UNCHANGED <<rows, told>>
  BY DEF Rollback, Release
<1>2. tx \in [Workers -> Calls] /\ held \in [Workers -> SUBSET Rows]
  BY DEF IInv, TypeOK
<1>3. tx' \in [Workers -> Calls] /\ tx'[w] = Idle /\ held'[w] = {}
      /\ \A v \in Workers \ {w} : tx'[v] = tx[v]
  BY <1>1, <1>2, IdleIsACall
<1>4. CallOK(w)'
  BY <1>3 DEF CallOK, AtStep, Idle
<1> QED
  BY <1>1, <1>3, <1>4, QuietStep

\* The steps of a bind before its commit.
LEMMA BindSteps ==
  ASSUME IInv, NEW w \in Workers, (\E s \in Sessions : BindCall(w, s)) \/ BindProject(w)
  PROVE  IInv'
<1>t. TypeOK /\ CallOK(w) /\ ValidProject(project)
  BY DEF IInv
<1>tx. tx \in [Workers -> Calls] /\ tx[w] \in Calls /\ project \in Projects
  BY <1>t DEF TypeOK
<1>1. ASSUME NEW s \in Sessions, BindCall(w, s) PROVE IInv'
  <2>1. tx' = [tx EXCEPT ![w] = [Idle EXCEPT !.pc = "bind", !.call = "bind", !.s = s]]
        /\ UNCHANGED <<rows, held, told>>
    BY <1>1 DEF BindCall
  <2>2. [Idle EXCEPT !.pc = "bind", !.call = "bind", !.s = s] \in Calls
    BY IdleIsACall DEF Idle, Calls, Steps
  <2>3. tx' \in [Workers -> Calls] /\ (\A v \in Workers \ {w} : tx'[v] = tx[v])
        /\ tx'[w] = [Idle EXCEPT !.pc = "bind", !.call = "bind", !.s = s]
    BY <2>1, <2>2, <1>tx
  <2>4. tx'[w].pc = "bind" /\ tx'[w].call = "bind" /\ tx'[w].s = s
    BY <2>3 DEF Idle
  <2>5. CallOK(w)'
    BY <2>4 DEF CallOK, BindOK, AtStep
  <2> QED
    BY <2>1, <2>3, <2>4, <2>5, QuietStep
<1>2. ASSUME BindProject(w) PROVE IInv'
  <2> DEFINE f == [bound |-> TRUE, prev |-> project.rev, rev |-> 1,
                   focus |-> project.default, binding |-> NoContext]
             pc == IF session[tx[w].s].bound THEN "found" ELSE "commit"
  <2>0. AtStep(w, "bind") /\ Take(w, ProjectRow) /\ UNCHANGED <<rows, told>>
        /\ tx' = [tx EXCEPT ![w].pc = pc, ![w].f = f]
    BY <1>2 DEF BindProject
  <2>1. tx[w].call = "bind" /\ tx[w].s \in Sessions
    BY <2>0, <1>t, <1>tx DEF CallOK, AtStep, BindOK, BeginOK, CompleteOK, Calls
  <2>2. f \in SessionRows /\ pc \in Steps /\ pc # "idle" /\ pc \in {"found", "commit"}
    BY <1>tx DEF SessionRows, Projects, Steps
  <2>3. tx' \in [Workers -> Calls] /\ (\A v \in Workers \ {w} : tx'[v] = tx[v])
    BY <2>0, <2>2, <1>tx DEF Calls
  <2>4. /\ tx'[w].pc = pc /\ tx'[w].f = f /\ tx'[w].call = "bind"
        /\ tx'[w].s = tx[w].s
    BY <2>0, <2>1, <1>tx DEF Calls
  <2>5. ProjectRow \in held'[w] /\ ProjectRow \in Rows
    BY <2>0, <1>t DEF Take, Rows, TypeOK
  <2>6. FitsProject(f, project)
    BY <1>t DEF FitsProject, ValidProject
  <2>7. UNCHANGED <<project, session>>
    BY <2>0 DEF rows
  <2>8. FitsProject(tx[w].f, project)'
    BY <2>4, <2>6, <2>7 DEF FitsProject, IsOpen
  <2>9. tx'[w].pc = "commit" => ~session[tx[w].s].bound
    BY <2>4
  <2>10. BindOK(w)'
    BY <2>1, <2>2, <2>4, <2>5, <2>7, <2>8, <2>9 DEF BindOK
  <2>11. CallOK(w)'
    BY <2>2, <2>4, <2>10 DEF CallOK, AtStep
  <2> QED
    BY <2>0, <2>2, <2>3, <2>4, <2>5, <2>11, QuietStep
<1> QED
  BY <1>1, <1>2

\* Rehydration yields a row of a session that fits its project.
LEMMA RehydratedIsARow ==
  ASSUME NEW old \in SessionRows, NEW p \in Projects, NEW a \in Contexts
  PROVE  Rehydrated(old, p, a) \in SessionRows
<1> DEFINE b == IF a = old.focus /\ old.binding = a THEN old.binding ELSE NoContext
<1>1. b \in Contexts \cup {NoContext} /\ p.rev \in Nat /\ old.rev + 1 \in Nat
  BY DEF SessionRows, Projects
<1>2. Rehydrated(old, p, a) = IF old.prev = p.rev THEN old
        ELSE [old EXCEPT !.prev = p.rev, !.rev = old.rev + 1, !.focus = a, !.binding = b]
  BY DEF Rehydrated
<1> HIDE DEF b
<1>3. [old EXCEPT !.prev = p.rev, !.rev = old.rev + 1, !.focus = a, !.binding = b] \in SessionRows
  BY <1>1 DEF SessionRows
<1> QED
  BY <1>2, <1>3

\* Which call a step belongs to.
LEMMA StepsOfBegin ==
  ASSUME TypeOK, NEW w \in Workers, CallOK(w), tx[w].pc \in {"session", "begin", "collision"}
  PROVE  tx[w].call = "begin" /\ BeginOK(w) /\ tx[w].q \in Requests /\ tx[w].s \in Sessions
<1>1. tx[w] \in Calls
  BY DEF TypeOK
<1>2. tx[w].call = "begin" /\ BeginOK(w)
  BY <1>1 DEF CallOK, AtStep, BindOK, BeginOK, CompleteOK, Calls
<1> QED
  BY <1>2, ServiceAssumption DEF BeginOK

LEMMA StepsOfComplete ==
  ASSUME TypeOK, NEW w \in Workers, CallOK(w), tx[w].pc \in {"project", "focus", "others", "apply"}
  PROVE  tx[w].call = "complete" /\ CompleteOK(w) /\ tx[w].q \in Requests /\ tx[w].s \in Sessions
<1>1. tx[w] \in Calls
  BY DEF TypeOK
<1>2. tx[w].call = "complete" /\ CompleteOK(w)
  BY <1>1 DEF CallOK, AtStep, BindOK, BeginOK, CompleteOK, Calls
<1> QED
  BY <1>2, ServiceAssumption DEF CompleteOK

\* The steps of a begin before its commit.
LEMMA BeginSteps ==
  ASSUME IInv, NEW w \in Workers,
         (\E q \in Requests : BeginCall(w, q)) \/ BeginSession(w) \/ BeginProject(w) \/ BeginCollision(w)
  PROVE  IInv'
<1>t. TypeOK /\ CallOK(w)
  BY DEF IInv
<1>tx. tx \in [Workers -> Calls] /\ tx[w] \in Calls /\ project \in Projects
       /\ session \in [Sessions -> SessionRows] /\ held \in [Workers -> SUBSET Rows]
       /\ event \in [Requests -> EventRows]
  BY <1>t DEF TypeOK
<1>1. ASSUME NEW q \in Requests, BeginCall(w, q) PROVE IInv'
  <2> DEFINE t == [Idle EXCEPT !.pc = "session", !.call = "begin", !.s = SessionOf[q], !.q = q]
  <2>1. tx' = [tx EXCEPT ![w] = t] /\ UNCHANGED <<rows, held, told>>
    BY <1>1 DEF BeginCall
  <2>2. t \in Calls
    BY IdleIsACall, ServiceAssumption DEF Idle, Calls, Steps
  <2>3. tx' \in [Workers -> Calls] /\ (\A v \in Workers \ {w} : tx'[v] = tx[v]) /\ tx'[w] = t
    BY <2>1, <2>2, <1>tx
  <2>4. tx'[w].pc = "session" /\ tx'[w].call = "begin" /\ tx'[w].s = SessionOf[q] /\ tx'[w].q = q
    BY <2>3 DEF Idle
  <2>5. CallOK(w)'
    BY <2>4 DEF CallOK, BeginOK, AtStep
  <2> QED
    BY <2>1, <2>3, <2>4, <2>5, QuietStep
<1>2. ASSUME BeginSession(w) PROVE IInv'
  <2>0. AtStep(w, "session") /\ Take(w, tx[w].s) /\ UNCHANGED <<rows, told>>
        /\ tx' = [tx EXCEPT ![w].pc = "begin"] /\ session[tx[w].s].bound
    BY <1>2 DEF BeginSession, Goto
  <2>1. tx[w].call = "begin" /\ BeginOK(w) /\ tx[w].q \in Requests /\ tx[w].s \in Sessions
    BY <2>0, <1>t, StepsOfBegin DEF AtStep
  <2>3. tx' \in [Workers -> Calls] /\ (\A v \in Workers \ {w} : tx'[v] = tx[v])
    BY <2>0, <1>tx DEF Calls, Steps
  <2>4. tx'[w].pc = "begin" /\ tx'[w].call = "begin" /\ tx'[w].s = tx[w].s /\ tx'[w].q = tx[w].q
    BY <2>0, <2>1, <1>tx DEF Calls
  <2>5. tx[w].s \in held'[w] /\ tx[w].s \in Rows
    BY <2>0, <2>1, <1>tx DEF Take, Rows
  <2>6. CallOK(w)'
    BY <2>0, <2>1, <2>4, <2>5 DEF CallOK, BeginOK, AtStep, rows
  <2> QED
    BY <2>0, <2>3, <2>4, <2>5, <2>6, QuietStep
<1>3. ASSUME BeginProject(w) PROVE IInv'
  <2> DEFINE old == session[tx[w].s]
             pc == IF SameKeyAs(tx[w].q) # {} THEN "collision" ELSE "commit"
  <2>0. PICK a \in Contexts :
          /\ AtStep(w, "begin") /\ Sees(old, project, a)
          /\ FitsProject(Rehydrated(old, project, a), project)
          /\ Take(w, ProjectRow) /\ UNCHANGED <<rows, told>>
          /\ tx' = [tx EXCEPT ![w].pc = pc, ![w].f = Rehydrated(old, project, a)]
    BY <1>3 DEF BeginProject
  <2>1. tx[w].call = "begin" /\ BeginOK(w) /\ tx[w].q \in Requests /\ tx[w].s \in Sessions
    BY <2>0, <1>t, StepsOfBegin DEF AtStep
  <2>2. Rehydrated(old, project, a) \in SessionRows /\ pc \in Steps /\ pc \in {"collision", "commit"}
    BY <1>tx, <2>1, RehydratedIsARow DEF Steps
  <2> DEFINE f == Rehydrated(old, project, a)
  <2>3. tx' \in [Workers -> Calls] /\ (\A v \in Workers \ {w} : tx'[v] = tx[v])
    <3> HIDE DEF f, pc
    <3> QED BY <2>0, <2>2, <1>tx DEF Calls, f, pc
  <2>4. /\ tx'[w].pc = pc /\ tx'[w].f = f /\ tx'[w].call = "begin"
        /\ tx'[w].s = tx[w].s /\ tx'[w].q = tx[w].q
    <3> HIDE DEF f, pc
    <3> QED BY <2>0, <2>1, <1>tx DEF Calls, f, pc
  <2>5. ProjectRow \in held'[w] /\ ProjectRow \in Rows /\ tx[w].s \in held'[w]
    BY <2>0, <2>1, <1>tx DEF Take, Rows, BeginOK, AtStep
  <2>6. UNCHANGED <<project, session, event>>
    BY <2>0 DEF rows
  <2>7. FitsProject(tx[w].f, project)'
    <3> HIDE DEF f
    <3> QED BY <2>0, <2>4, <2>6 DEF FitsProject, IsOpen, f
  <2>8. Sees(session[tx[w].s], project, a)' /\ (tx[w].f = Rehydrated(session[tx[w].s], project, a))'
    <3>1. Sees(session[tx[w].s], project, a)'
      BY <2>0, <2>4, <2>6 DEF Sees, IsNearestOpen, Ancestors, IsOpen
    <3>2. Rehydrated(session[tx[w].s], project, a)' = f
      BY <2>4, <2>6 DEF Rehydrated
    <3> QED BY <3>1, <3>2, <2>4
  <2>9. pc = "commit" => event[tx[w].q].state = "NONE"
    <3>1. pc = "commit" => tx[w].q \notin SameKeyAs(tx[w].q)
      OBVIOUS
    <3>2. event[tx[w].q].state # "NONE" => tx[w].q \in SameKeyAs(tx[w].q)
      BY <2>1 DEF SameKeyAs, Stored
    <3> QED BY <3>1, <3>2
  <2> HIDE DEF pc, f
  <2>10. BeginOK(w)'
    BY <2>0, <2>1, <2>2, <2>4, <2>5, <2>6, <2>7, <2>8, <2>9 DEF BeginOK, AtStep
  <2>11. CallOK(w)'
    BY <2>2, <2>4, <2>10 DEF CallOK, AtStep
  <2> QED
    BY <2>0, <2>2, <2>3, <2>4, <2>5, <2>11, QuietStep
<1>4. ASSUME BeginCollision(w) PROVE IInv'
  <2>0. AtStep(w, "collision") /\ Take(w, tx[w].q) /\ UNCHANGED <<rows, told>>
        /\ tx' = [tx EXCEPT ![w].pc = "commit", ![w].call = "replay"]
    BY <1>4 DEF BeginCollision
  <2>1. tx[w].call = "begin" /\ BeginOK(w) /\ tx[w].q \in Requests /\ tx[w].s \in Sessions
    BY <2>0, <1>t, StepsOfBegin DEF AtStep
  <2>3. tx' \in [Workers -> Calls] /\ (\A v \in Workers \ {w} : tx'[v] = tx[v])
    BY <2>0, <1>tx DEF Calls, Steps
  <2>4. /\ tx'[w].pc = "commit" /\ tx'[w].call = "replay" /\ tx'[w].s = tx[w].s
        /\ tx'[w].q = tx[w].q /\ tx'[w].f = tx[w].f
    BY <2>0, <1>tx DEF Calls
  <2>5. tx[w].q \in Rows /\ held[w] \subseteq held'[w]
    BY <2>0, <2>1, <1>tx DEF Take, Rows
  <2>6. UNCHANGED <<project, session, event>>
    BY <2>0 DEF rows
  <2>7. PICK a \in Contexts : Sees(session[tx[w].s], project, a)
                              /\ tx[w].f = Rehydrated(session[tx[w].s], project, a)
    BY <2>0, <2>1 DEF BeginOK, AtStep
  <2>8. Sees(session[tx[w].s], project, a)'
    BY <2>4, <2>6, <2>7 DEF Sees, IsNearestOpen, Ancestors, IsOpen
  <2>9. (tx[w].f = Rehydrated(session[tx[w].s], project, a))'
    BY <2>4, <2>6, <2>7 DEF Rehydrated
  <2>10. FitsProject(tx[w].f, project)'
    BY <2>0, <2>1, <2>4, <2>6 DEF BeginOK, AtStep, FitsProject, IsOpen
  <2>11. BeginOK(w)'
    BY <2>0, <2>1, <2>4, <2>5, <2>6, <2>8, <2>9, <2>10 DEF BeginOK, AtStep
  <2>12. CallOK(w)'
    BY <2>4, <2>11 DEF CallOK, AtStep
  <2> QED
    BY <2>0, <2>3, <2>4, <2>5, <2>12, QuietStep
<1> QED
  BY <1>1, <1>2, <1>3, <1>4

\* The operations of a directive, and those it ends contexts with.
LEMMA DirectiveOperations ==
  ASSUME NEW d \in Directives
  PROVE  /\ Len(d.ops) \in Nat /\ d.ops \in Seq(Operations)
         /\ d.focus \in Contexts \cup {Keep} /\ d.binding \in Contexts \cup {NoContext, Keep}
         /\ \A i \in 1..Len(d.ops) :
              d.ops[i] \in Operations /\ (d.ops[i].op \in Endings => d.ops[i].ctx \in EndedBy(d))
<1>1. d \in DirectiveType
  BY ServiceAssumption
<1>2. d.ops \in Seq(Operations)
  BY <1>1 DEF DirectiveType
<1>3. Len(d.ops) \in Nat /\ \A i \in 1..Len(d.ops) : d.ops[i] \in Operations
  BY <1>2
<1>4. \A i \in 1..Len(d.ops) : d.ops[i].op \in Endings => d.ops[i].ctx \in EndedBy(d)
  BY DEF EndedBy
<1> QED
  BY <1>1, <1>2, <1>3, <1>4 DEF DirectiveType

\* The first steps of a completion: it locks event, project and session.
LEMMA CompleteLocks ==
  ASSUME IInv, NEW w \in Workers,
         \/ \E q \in Requests : CompleteCall(w, q)
         \/ CompleteProject(w)
         \/ \E d \in Directives : CompleteSession(w, d)
  PROVE  IInv'
<1>t. TypeOK /\ CallOK(w)
  BY DEF IInv
<1>tx. tx \in [Workers -> Calls] /\ tx[w] \in Calls /\ held \in [Workers -> SUBSET Rows]
  BY <1>t DEF TypeOK
<1>1. ASSUME NEW q \in Requests, CompleteCall(w, q) PROVE IInv'
  <2> DEFINE t == [Idle EXCEPT !.pc = "project", !.call = "complete", !.s = SessionOf[q], !.q = q]
  <2>1. tx' = [tx EXCEPT ![w] = t] /\ UNCHANGED <<rows, told>> /\ Take(w, q) /\ event[q].state = "OPEN"
    BY <1>1 DEF CompleteCall
  <2>2. t \in Calls
    BY IdleIsACall, ServiceAssumption DEF Idle, Calls, Steps
  <2>3. tx' \in [Workers -> Calls] /\ (\A v \in Workers \ {w} : tx'[v] = tx[v]) /\ tx'[w] = t
    BY <2>1, <2>2, <1>tx
  <2>4. tx'[w].pc = "project" /\ tx'[w].call = "complete" /\ tx'[w].s = SessionOf[q] /\ tx'[w].q = q
        /\ tx'[w].k = 0
    BY <2>3 DEF Idle
  <2>5. q \in held'[w] /\ q \in Rows /\ event'[q].state = "OPEN"
    BY <2>1, <1>tx DEF Take, Rows, rows
  <2>6. CallOK(w)'
    BY <2>4, <2>5 DEF CallOK, CompleteOK, AtStep
  <2> QED
    BY <2>1, <2>3, <2>4, <2>5, <2>6, QuietStep
<1>2. ASSUME CompleteProject(w) PROVE IInv'
  <2>0. AtStep(w, "project") /\ Take(w, ProjectRow) /\ UNCHANGED <<rows, told>>
        /\ tx' = [tx EXCEPT ![w].pc = "focus"]
    BY <1>2 DEF CompleteProject, Goto
  <2>1. tx[w].call = "complete" /\ CompleteOK(w) /\ tx[w].q \in Requests /\ tx[w].s \in Sessions
    BY <2>0, <1>t, StepsOfComplete DEF AtStep
  <2>3. tx' \in [Workers -> Calls] /\ (\A v \in Workers \ {w} : tx'[v] = tx[v])
    BY <2>0, <1>tx DEF Calls, Steps
  <2>4. tx'[w].pc = "focus" /\ tx'[w].call = "complete" /\ tx'[w].s = tx[w].s /\ tx'[w].q = tx[w].q
        /\ tx'[w].k = tx[w].k
    BY <2>0, <2>1, <1>tx DEF Calls
  <2>5. ProjectRow \in held'[w] /\ ProjectRow \in Rows /\ held[w] \subseteq held'[w]
    BY <2>0, <2>1, <1>tx DEF Take, Rows
  <2>6. CallOK(w)'
    BY <2>0, <2>1, <2>4, <2>5 DEF CallOK, CompleteOK, AtStep, rows
  <2> QED
    BY <2>0, <2>3, <2>4, <2>5, <2>6, QuietStep
<1>3. ASSUME NEW d \in Directives, CompleteSession(w, d) PROVE IInv'
  <2>0. AtStep(w, "focus") /\ Take(w, tx[w].s) /\ UNCHANGED <<rows, told>> /\ OnItsBasis(tx[w].q)
        /\ tx' = [tx EXCEPT ![w].pc = "others", ![w].d = d]
    BY <1>3 DEF CompleteSession
  <2>1. tx[w].call = "complete" /\ CompleteOK(w) /\ tx[w].q \in Requests /\ tx[w].s \in Sessions
    BY <2>0, <1>t, StepsOfComplete DEF AtStep
  <2>3. tx' \in [Workers -> Calls] /\ (\A v \in Workers \ {w} : tx'[v] = tx[v])
    BY <2>0, <1>tx DEF Calls, Steps
  <2>4. /\ tx'[w].pc = "others" /\ tx'[w].call = "complete" /\ tx'[w].s = tx[w].s
        /\ tx'[w].q = tx[w].q /\ tx'[w].d = d /\ tx'[w].k = tx[w].k
    BY <2>0, <2>1, <1>tx DEF Calls
  <2>5. tx[w].s \in held'[w] /\ tx[w].s \in Rows /\ held[w] \subseteq held'[w]
    BY <2>0, <2>1, <1>tx DEF Take, Rows
  <2>6. OnItsBasis(tx[w].q)'
    BY <2>0, <2>4 DEF OnItsBasis, FitsProject, IsOpen, rows
  <2>7. CallOK(w)'
    BY <2>0, <2>1, <2>4, <2>5, <2>6 DEF CallOK, CompleteOK, AtStep, rows
  <2> QED
    BY <2>0, <2>3, <2>4, <2>5, <2>7, QuietStep
<1> QED
  BY <1>1, <1>2, <1>3

\* What the tests of a completion say as long as its steps write nothing.
LEMMA TestsStay ==
  ASSUME NEW w \in Workers, UNCHANGED rows, tx[w].q \in Requests, tx[w].s \in Sessions,
         tx'[w].q = tx[w].q, tx'[w].s = tx[w].s, tx'[w].d = tx[w].d
  PROVE  /\ OnItsBasis(tx[w].q)' <=> OnItsBasis(tx[w].q)
         /\ (Peers(tx[w].s, tx[w].d) = {})' <=> Peers(tx[w].s, tx[w].d) = {}
         /\ (event[tx[w].q].state = "OPEN")' <=> event[tx[w].q].state = "OPEN"
<1>1. UNCHANGED <<project, session, event>>
  BY DEF rows
<1> QED
  BY <1>1 DEF OnItsBasis, FitsProject, IsOpen, Peers

\* The directive is applied to a draft.
LEMMA CompleteDrafts ==
  ASSUME IInv, NEW w \in Workers, NoPeerInvalidated(w) \/ ApplyOperation(w)
  PROVE  IInv'
<1>t. TypeOK /\ CallOK(w) /\ BranchesHang(project)
  BY DEF IInv
<1>tx. tx \in [Workers -> Calls] /\ tx[w] \in Calls /\ project \in Projects
       /\ session \in [Sessions -> SessionRows]
  BY <1>t DEF TypeOK
<1>1. ASSUME NoPeerInvalidated(w) PROVE IInv'
  <2>0. AtStep(w, "others") /\ Peers(tx[w].s, tx[w].d) = {} /\ UNCHANGED <<rows, held, told>>
        /\ tx' = [tx EXCEPT ![w].pc = "apply", ![w].p = project, ![w].f = session[tx[w].s]]
    BY <1>1 DEF NoPeerInvalidated
  <2>1. tx[w].call = "complete" /\ CompleteOK(w) /\ tx[w].q \in Requests /\ tx[w].s \in Sessions
    BY <2>0, <1>t, StepsOfComplete DEF AtStep
  <2>3. tx' \in [Workers -> Calls] /\ (\A v \in Workers \ {w} : tx'[v] = tx[v])
    BY <2>0, <2>1, <1>tx DEF Calls, Steps
  <2>4. /\ tx'[w].pc = "apply" /\ tx'[w].call = "complete" /\ tx'[w].s = tx[w].s
        /\ tx'[w].q = tx[w].q /\ tx'[w].d = tx[w].d /\ tx'[w].p = project
        /\ tx'[w].f = session[tx[w].s] /\ tx'[w].k = tx[w].k
    BY <2>0, <2>1, <1>tx DEF Calls
  <2>5. UNCHANGED <<project, session, event>>
    BY <2>0 DEF rows
  <2>6. OnItsBasis(tx[w].q)' /\ (Peers(tx[w].s, tx[w].d) = {})' /\ (event[tx[w].q].state = "OPEN")'
    BY <2>0, <2>1, <2>4, TestsStay DEF CompleteOK, AtStep
  <2>7. Drafted(w)'
    BY <1>t, <2>4, <2>5, <1>tx DEF Drafted, Continues, BranchesHang, IsOpen, Unresolved, Projects, Lives
  <2>8. tx'[w].k = 0 /\ tx'[w].d \in Directives
    BY <2>0, <2>1, <2>4 DEF CompleteOK, AtStep
  <2>9. tx'[w].k \in 0..Len(tx'[w].d.ops)
    BY <2>8, DirectiveOperations
  <2>10. CompleteOK(w)'
    BY <2>0, <2>1, <2>4, <2>5, <2>6, <2>7, <2>8, <2>9 DEF CompleteOK, AtStep
  <2>11. CallOK(w)'
    BY <2>4, <2>10 DEF CallOK, AtStep
  <2> QED
    BY <2>0, <2>3, <2>4, <2>11, QuietStep
<1>2. ASSUME ApplyOperation(w) PROVE IInv'
  <2> DEFINE o == tx[w].d.ops[tx[w].k + 1]
             p == After(tx[w].p, o)
  <2>0. AtStep(w, "apply") /\ tx[w].k < Len(tx[w].d.ops) /\ UNCHANGED <<rows, held, told>>
        /\ tx' = [tx EXCEPT ![w].p = p, ![w].k = tx[w].k + 1] /\ Legal(tx[w].p, o)
    BY <1>2, <1>tx DEF ApplyOperation, Calls
  <2>1. tx[w].call = "complete" /\ CompleteOK(w) /\ tx[w].q \in Requests /\ tx[w].s \in Sessions
    BY <2>0, <1>t, StepsOfComplete DEF AtStep
  <2>2. /\ tx[w].d \in Directives /\ Drafted(w) /\ tx[w].p.rev = project.rev
        /\ tx[w].k \in 0..Len(tx[w].d.ops) /\ tx[w].p \in Projects
    BY <2>0, <2>1, <1>tx DEF CompleteOK, AtStep, Calls
  <2>k. tx[w].k + 1 \in 1..Len(tx[w].d.ops) /\ tx[w].k + 1 \in Nat /\ tx[w].k + 1 # 0
    BY SMTT(30), <2>0, <2>2, DirectiveOperations
  <2>o. o \in Operations /\ (o.op \in Endings => o.ctx \in EndedBy(tx[w].d))
    BY <2>2, <2>k, DirectiveOperations
  <2> HIDE DEF o
  <2>p. p \in Projects /\ p.rev = tx[w].p.rev
    BY <2>2, <2>o, AfterIsProject
  <2>b. BranchesHang(p)
    BY <2>0, <2>2, <2>o, OperationKeepsBranches DEF Drafted
  <2>c. Continues(project, p)
    BY <2>0, <2>2, <2>o, <1>tx, OperationContinues DEF Drafted
  <2>e. \A c \in Contexts : IsOpen(project, c) /\ ~IsOpen(p, c) => c \in EndedBy(tx[w].d)
    <3> SUFFICES ASSUME NEW c \in Contexts, IsOpen(project, c), ~IsOpen(p, c)
                 PROVE  c \in EndedBy(tx[w].d)
      OBVIOUS
    <3>1. CASE IsOpen(tx[w].p, c)
      BY <3>1, <2>0, <2>2, <2>o, OperationEnds
    <3>2. CASE ~IsOpen(tx[w].p, c)
      BY <3>2, <2>2 DEF Drafted
    <3> QED
      BY <3>1, <3>2
  <2> HIDE DEF p
  <2>3. tx' \in [Workers -> Calls] /\ (\A v \in Workers \ {w} : tx'[v] = tx[v])
    BY <2>0, <2>p, <2>k, <1>tx DEF Calls
  <2>4. /\ tx'[w].pc = "apply" /\ tx'[w].call = "complete" /\ tx'[w].s = tx[w].s
        /\ tx'[w].q = tx[w].q /\ tx'[w].d = tx[w].d /\ tx'[w].p = p
        /\ tx'[w].f = tx[w].f /\ tx'[w].k = tx[w].k + 1
    BY <2>0, <2>1, <1>tx DEF Calls, AtStep
  <2>5. UNCHANGED <<project, session, event>>
    BY <2>0 DEF rows
  <2>6. OnItsBasis(tx[w].q)' /\ (Peers(tx[w].s, tx[w].d) = {})' /\ (event[tx[w].q].state = "OPEN")'
    BY <2>0, <2>1, <2>4, TestsStay DEF CompleteOK, AtStep
  <2>7. Drafted(w)'
    BY <2>4, <2>5, <2>b, <2>c, <2>e DEF Drafted, Continues, BranchesHang, IsOpen, Unresolved
  <2>9. tx'[w].k \in 0..Len(tx'[w].d.ops) /\ tx'[w].k # 0
    BY <2>4, <2>k, <2>2, DirectiveOperations
  <2>10. CompleteOK(w)'
    BY <2>0, <2>1, <2>2, <2>4, <2>5, <2>6, <2>7, <2>9, <2>p DEF CompleteOK, AtStep
  <2>11. CallOK(w)'
    BY <2>4, <2>10 DEF CallOK, AtStep
  <2> QED
    BY <2>0, <2>3, <2>4, <2>11, QuietStep
<1> QED
  BY <1>1, <1>2

\* The result of a directive is a project and a row of a session.
LEMMA ResultsAreTyped ==
  ASSUME NEW p \in Projects, NEW f \in SessionRows, NEW d \in Directives
  PROVE  /\ Revised(p, d) \in Projects
         /\ Revised(p, d).life = p.life /\ Revised(p, d).parent = p.parent
         /\ Revised(p, d).rev = IF d.ops = <<>> THEN p.rev ELSE p.rev + 1
         /\ d.ops = <<>> => Revised(p, d) = p
         /\ Refocused(f, Revised(p, d), d) \in SessionRows
         /\ ~IsEmpty(d) => Refocused(f, Revised(p, d), d).rev = f.rev + 1
         /\ IsEmpty(d) => Refocused(f, Revised(p, d), d) = f
<1>1. /\ Revised(p, d) \in Projects
      /\ Revised(p, d).life = p.life /\ Revised(p, d).parent = p.parent
      /\ Revised(p, d).rev = IF d.ops = <<>> THEN p.rev ELSE p.rev + 1
      /\ d.ops = <<>> => Revised(p, d) = p
  BY DEF Revised, Projects
<1> DEFINE n == Revised(p, d)
           c == IF d.focus = Keep THEN f.focus ELSE d.focus
           b == IF d.binding = Keep THEN f.binding ELSE d.binding
<1>2. c \in Contexts /\ b \in Contexts \cup {NoContext} /\ n.rev \in Nat /\ f.rev + 1 \in Nat
  BY <1>1, DirectiveOperations DEF SessionRows, Projects
<1>3. Refocused(f, n, d) = IF IsEmpty(d) THEN f
        ELSE [f EXCEPT !.prev = n.rev, !.rev = f.rev + 1, !.focus = c, !.binding = b]
  BY DEF Refocused
<1> HIDE DEF c, b, n
<1>4. /\ [f EXCEPT !.prev = n.rev, !.rev = f.rev + 1, !.focus = c, !.binding = b] \in SessionRows
      /\ [f EXCEPT !.prev = n.rev, !.rev = f.rev + 1, !.focus = c, !.binding = b].rev = f.rev + 1
  BY <1>2 DEF SessionRows
<1>5. Refocused(f, n, d) \in SessionRows /\ (~IsEmpty(d) => Refocused(f, n, d).rev = f.rev + 1)
      /\ (IsEmpty(d) => Refocused(f, n, d) = f)
  BY <1>3, <1>4
<1> QED
  BY <1>1, <1>5 DEF n

\* The draft is complete and valid.
LEMMA CompleteFinishes ==
  ASSUME IInv, NEW w \in Workers, FinishDirective(w)
  PROVE  IInv'
<1>t. TypeOK /\ CallOK(w)
  BY DEF IInv
<1>tx. tx \in [Workers -> Calls] /\ tx[w] \in Calls /\ project \in Projects
       /\ session \in [Sessions -> SessionRows]
  BY <1>t DEF TypeOK
<1> DEFINE d == tx[w].d
           p == Finished(w).p
           f == Finished(w).f
<1>0. AtStep(w, "apply") /\ tx[w].k = Len(d.ops) /\ UNCHANGED <<rows, held, told>>
      /\ Acceptable(w) /\ tx' = [tx EXCEPT ![w].pc = "commit", ![w].p = p, ![w].f = f]
  BY DEF FinishDirective
<1>1. tx[w].call = "complete" /\ CompleteOK(w) /\ tx[w].q \in Requests /\ tx[w].s \in Sessions
  BY <1>0, <1>t, StepsOfComplete DEF AtStep
<1>2. /\ d \in Directives /\ Drafted(w) /\ tx[w].p.rev = project.rev /\ tx[w].f = session[tx[w].s]
      /\ (tx[w].k = 0 => tx[w].p = project) /\ tx[w].p \in Projects /\ tx[w].f \in SessionRows
  BY <1>0, <1>1, <1>tx DEF CompleteOK, AtStep, Calls
<1>3. p = Revised(tx[w].p, d) /\ f = Refocused(tx[w].f, p, d)
  BY DEF Finished
<1>4. ValidProject(p) /\ FitsProject(f, p)
  BY <1>0 DEF Acceptable
<1> HIDE DEF p, f
<1>5. /\ p \in Projects /\ f \in SessionRows
      /\ p.life = tx[w].p.life /\ p.parent = tx[w].p.parent
      /\ p.rev = IF d.ops = <<>> THEN project.rev ELSE project.rev + 1
      /\ d.ops = <<>> => p = tx[w].p
      /\ ~IsEmpty(d) => f.rev = session[tx[w].s].rev + 1
      /\ IsEmpty(d) => f = session[tx[w].s]
  <2> DEFINE P == tx[w].p
             F == tx[w].f
  <2>1. /\ Revised(P, d) \in Projects
        /\ Revised(P, d).life = P.life /\ Revised(P, d).parent = P.parent
        /\ Revised(P, d).rev = IF d.ops = <<>> THEN P.rev ELSE P.rev + 1
        /\ d.ops = <<>> => Revised(P, d) = P
        /\ Refocused(F, Revised(P, d), d) \in SessionRows
        /\ ~IsEmpty(d) => Refocused(F, Revised(P, d), d).rev = F.rev + 1
        /\ IsEmpty(d) => Refocused(F, Revised(P, d), d) = F
    <3> P \in Projects /\ F \in SessionRows /\ d \in Directives
      BY <1>2
    <3> HIDE DEF P, F, d
    <3> QED BY ResultsAreTyped
  <2> QED
    BY <2>1, <1>2, <1>3
<1>6. p = project \/ (p.rev = project.rev + 1 /\ f.rev = session[tx[w].s].rev + 1)
  <2>1. CASE d.ops = <<>>
    <3>1. tx[w].k = 0
      BY <2>1, <1>0
    <3> QED BY <2>1, <3>1, <1>2, <1>5
  <2>2. CASE d.ops # <<>>
    BY <2>2, <1>5 DEF IsEmpty
  <2> QED BY <2>1, <2>2
<1>7. f = session[tx[w].s] \/ f.rev = session[tx[w].s].rev + 1
  BY <1>5
<1>8. tx' \in [Workers -> Calls] /\ (\A v \in Workers \ {w} : tx'[v] = tx[v])
  BY <1>0, <1>5, <1>tx DEF Calls, Steps
<1>9. /\ tx'[w].pc = "commit" /\ tx'[w].call = "complete" /\ tx'[w].s = tx[w].s
      /\ tx'[w].q = tx[w].q /\ tx'[w].d = d /\ tx'[w].p = p /\ tx'[w].f = f
  BY <1>0, <1>1, <1>tx DEF Calls
<1>10. UNCHANGED <<project, session, event>>
  BY <1>0 DEF rows
<1>11. OnItsBasis(tx[w].q)' /\ (Peers(tx[w].s, tx[w].d) = {})' /\ (event[tx[w].q].state = "OPEN")'
  BY <1>0, <1>1, <1>9, TestsStay DEF CompleteOK, AtStep
<1>12. Drafted(w)'
  BY <1>2, <1>5, <1>9, <1>10 DEF Drafted, Continues, BranchesHang, IsOpen, Unresolved
<1>13. ValidProject(tx[w].p)' /\ FitsProject(tx[w].f, tx[w].p)'
  BY <1>4, <1>9 DEF ValidProject, FitsProject, IsOpen
<1>14. CompleteOK(w)'
  BY <1>0, <1>1, <1>2, <1>6, <1>7, <1>9, <1>10, <1>11, <1>12, <1>13 DEF CompleteOK, AtStep
<1>15. CallOK(w)'
  BY <1>9, <1>14 DEF CallOK, AtStep
<1> QED
  BY <1>0, <1>8, <1>9, <1>15, QuietStep

-----------------------------------------------------------------------------
(* Commits.                                                                 *)

\* The transaction of w is over, and what it wrote was locked by it.
LEMMA CommitFrame ==
  ASSUME IInv, NEW w \in Workers, Release(w), ProjectRow \in held[w],
         \A q \in Requests : event'[q] = event[q] \/ q \in held[w] \/ event[q].state = "NONE",
         \A s \in Sessions : session'[s] = session[s] \/ s \in held[w] \/ ~session[s].bound
  PROVE  /\ tx' \in [Workers -> Calls] /\ held' \in [Workers -> SUBSET Rows]
         /\ LocksOK'
         /\ \A v \in Workers : CallOK(v)'
<1>t. TypeOK /\ LocksOK
  BY DEF IInv
<1>1. tx' = [tx EXCEPT ![w] = Idle] /\ held' = [held EXCEPT ![w] = {}]
  BY DEF Release
<1>2. /\ tx' \in [Workers -> Calls] /\ held' \in [Workers -> SUBSET Rows]
      /\ tx'[w] = Idle /\ held'[w] = {}
      /\ \A v \in Workers \ {w} : tx'[v] = tx[v] /\ held'[v] = held[v]
  BY <1>1, <1>t, IdleIsACall DEF TypeOK
<1>3. LocksOK'
  <2>1. \A v \in Workers : tx'[v].pc = "idle" => held'[v] = {}
    BY <1>t, <1>2 DEF LocksOK, AtStep
  <2>2. \A v, u \in Workers : v # u => held'[v] \cap held'[u] = {}
    BY <1>t, <1>2 DEF LocksOK
  <2> QED
    BY <2>1, <2>2 DEF LocksOK, AtStep
<1>4. CallOK(w)'
  BY <1>2 DEF CallOK, AtStep, Idle
<1>5. ASSUME NEW v \in Workers, v # w PROVE CallOK(v)'
  <2>1. held[v] \cap held[w] = {}
    BY <1>t, <1>5 DEF LocksOK
  <2>2. CallOK(v) /\ tx'[v] = tx[v] /\ held'[v] = held[v] /\ ProjectRow \notin held[v]
    BY <1>2, <1>5, <2>1 DEF IInv
  <2>3. \A q \in Requests : q \in held[v] /\ event[q].state = "OPEN" => event'[q].state = "OPEN"
    BY <2>1
  <2>4. \A s \in Sessions : s \in held[v] /\ session[s].bound => session'[s].bound
    BY <2>1
  <2> QED
    BY <1>t, <2>2, <2>3, <2>4, OthersKeep
<1> QED
  BY <1>2, <1>3, <1>4, <1>5

\* A session that fits the project is written.
LEMMA SessionWritten ==
  ASSUME IInv, NEW s \in Sessions, NEW f \in SessionRows, FitsProject(f, project),
         session' = [session EXCEPT ![s] = f], UNCHANGED project
  PROVE  /\ session' \in [Sessions -> SessionRows] /\ project' \in Projects
         /\ CurrentFocusIsOpen' /\ \A r \in Sessions : session'[r].prev <= project'.rev
         /\ ValidProject(project)' /\ BranchesHang(project)' /\ project'.rev >= 1
<1>t. session \in [Sessions -> SessionRows] /\ project \in Projects
  BY DEF IInv, TypeOK
<1>1. session'[s] = f /\ \A r \in Sessions \ {s} : session'[r] = session[r]
  BY <1>t
<1>2. f.prev = project.rev /\ project.rev \in Nat
  BY <1>t DEF FitsProject, Projects
<1>3. \A r \in Sessions : session'[r].prev <= project'.rev
  BY <1>1, <1>2 DEF IInv, RevisionsOK
<1>4. CurrentFocusIsOpen'
  BY <1>1 DEF IInv, CurrentFocusIsOpen, FitsProject, IsOpen
<1>5. ValidProject(project)' /\ BranchesHang(project)' /\ project'.rev >= 1
  BY DEF IInv, RevisionsOK, ValidProject, BranchesHang, IsOpen, Unresolved
<1> QED
  BY <1>t, <1>3, <1>4, <1>5

LEMMA CommitBindKeeps ==
  ASSUME IInv, NEW w \in Workers, CommitBind(w)
  PROVE  IInv'
<1>t. TypeOK /\ CallOK(w)
  BY DEF IInv
<1>tx. tx[w] \in Calls /\ session \in [Sessions -> SessionRows]
  BY <1>t DEF TypeOK
<1>0. AtStep(w, "commit") /\ tx[w].call = "bind" /\ Release(w)
      /\ session' = [session EXCEPT ![tx[w].s] = tx[w].f] /\ UNCHANGED <<project, event, told>>
  BY DEF CommitBind
<1>1. BindOK(w) /\ tx[w].s \in Sessions /\ tx[w].f \in SessionRows
  BY <1>0, <1>t, <1>tx DEF CallOK, BindOK, Calls
<1>2. ProjectRow \in held[w] /\ ~session[tx[w].s].bound /\ FitsProject(tx[w].f, project)
  BY <1>0, <1>1 DEF BindOK, AtStep
<1>3. /\ session' \in [Sessions -> SessionRows] /\ project' \in Projects
      /\ CurrentFocusIsOpen' /\ \A r \in Sessions : session'[r].prev <= project'.rev
      /\ ValidProject(project)' /\ BranchesHang(project)' /\ project'.rev >= 1
  BY <1>0, <1>1, <1>2, SessionWritten
<1>4. \A s \in Sessions : session'[s] = session[s] \/ s \in held[w] \/ ~session[s].bound
  BY <1>0, <1>1, <1>2, <1>tx
<1>5. /\ tx' \in [Workers -> Calls] /\ held' \in [Workers -> SUBSET Rows]
      /\ LocksOK' /\ \A v \in Workers : CallOK(v)'
  BY <1>0, <1>2, <1>4, CommitFrame
<1>6. RevisionsOK'
  BY <1>0, <1>3 DEF IInv, RevisionsOK
<1>7. HistoryIsLinear' /\ AnswersAreDurable'
  BY <1>0 DEF IInv, HistoryIsLinear, AnswersAreDurable
<1>8. TypeOK'
  BY <1>0, <1>3, <1>5, <1>t DEF TypeOK
<1> QED
  BY <1>3, <1>5, <1>6, <1>7, <1>8 DEF IInv

\* What a begin has when it commits.
LEMMA BeginCommits ==
  ASSUME TypeOK, NEW w \in Workers, CallOK(w), AtStep(w, "commit"), tx[w].call \in {"begin", "replay"}
  PROVE  /\ tx[w].q \in Requests /\ tx[w].s = SessionOf[tx[w].q] /\ tx[w].s \in Sessions
         /\ tx[w].f \in SessionRows
         /\ ProjectRow \in held[w] /\ tx[w].s \in held[w]
         /\ session[tx[w].s].bound /\ FitsProject(tx[w].f, project)
         /\ tx[w].call = "begin" => event[tx[w].q].state = "NONE"
<1>1. tx[w] \in Calls
  BY DEF TypeOK
<1>2. BeginOK(w)
  BY DEF CallOK
<1> QED
  BY <1>1, <1>2, ServiceAssumption DEF BeginOK, AtStep, Calls

LEMMA CommitBeginKeeps ==
  ASSUME IInv, NEW w \in Workers, CommitBegin(w)
  PROVE  IInv'
<1>t. TypeOK /\ CallOK(w) /\ project.rev \in Nat /\ event \in [Requests -> EventRows]
      /\ session \in [Sessions -> SessionRows] /\ told \in [Requests -> Completions]
  BY DEF IInv, TypeOK, Projects
<1> DEFINE q == tx[w].q
           e == [NotBegun EXCEPT !.state = "OPEN", !.prev = project.rev, !.srev = tx[w].f.rev]
<1>0. AtStep(w, "commit") /\ tx[w].call = "begin" /\ Release(w)
      /\ session' = [session EXCEPT ![tx[w].s] = tx[w].f] /\ event' = [event EXCEPT ![q] = e]
      /\ UNCHANGED <<project, told>>
  BY DEF CommitBegin
<1>1. /\ q \in Requests /\ tx[w].s \in Sessions /\ tx[w].f \in SessionRows
      /\ ProjectRow \in held[w] /\ tx[w].s \in held[w]
      /\ FitsProject(tx[w].f, project) /\ event[q].state = "NONE"
  BY <1>0, <1>t, BeginCommits
<1>2. e \in EventRows /\ e.state = "OPEN" /\ e.prev = project.rev
  BY <1>1, <1>t DEF NotBegun, NotDone, EventRows, Completions, SessionRows
<1> HIDE DEF q, e
<1>3. /\ event' \in [Requests -> EventRows] /\ event'[q] = e
      /\ \A r \in Requests \ {q} : event'[r] = event[r]
  BY <1>0, <1>1, <1>2, <1>t
<1>4. /\ session' \in [Sessions -> SessionRows] /\ project' \in Projects
      /\ CurrentFocusIsOpen' /\ \A r \in Sessions : session'[r].prev <= project'.rev
      /\ ValidProject(project)' /\ BranchesHang(project)' /\ project'.rev >= 1
  BY <1>0, <1>1, SessionWritten
<1>5. \A s \in Sessions : session'[s] = session[s] \/ s \in held[w] \/ ~session[s].bound
  BY <1>0, <1>1, <1>t
<1>6. \A r \in Requests : event'[r] = event[r] \/ r \in held[w] \/ event[r].state = "NONE"
  BY <1>1, <1>3
<1>7. /\ tx' \in [Workers -> Calls] /\ held' \in [Workers -> SUBSET Rows]
      /\ LocksOK' /\ \A v \in Workers : CallOK(v)'
  BY <1>0, <1>1, <1>5, <1>6, CommitFrame
<1>8. RevisionsOK'
  BY <1>0, <1>2, <1>3, <1>4, <1>t DEF IInv, RevisionsOK
<1>9. {r \in Requests : event'[r].state = "COMPLETED"} = {r \in Requests : event[r].state = "COMPLETED"}
      /\ \A r \in {x \in Requests : event[x].state = "COMPLETED"} : event'[r] = event[r]
  BY <1>1, <1>2, <1>3
<1>10. HistoryIsLinear'
  BY <1>0, <1>9 DEF IInv, HistoryIsLinear
<1>11. AnswersAreDurable'
  BY <1>0, <1>1, <1>3 DEF IInv, AnswersAreDurable
<1>12. TypeOK'
  BY <1>0, <1>3, <1>4, <1>7, <1>t DEF TypeOK
<1> QED
  BY <1>4, <1>7, <1>8, <1>10, <1>11, <1>12 DEF IInv

LEMMA CommitReplayKeeps ==
  ASSUME IInv, NEW w \in Workers, NEW answered \in BOOLEAN, CommitReplay(w, answered)
  PROVE  IInv'
<1>t. TypeOK /\ CallOK(w) /\ event \in [Requests -> EventRows]
      /\ session \in [Sessions -> SessionRows] /\ told \in [Requests -> Completions]
  BY DEF IInv, TypeOK
<1> DEFINE q == tx[w].q
<1>0. AtStep(w, "commit") /\ tx[w].call = "replay" /\ Release(w)
      /\ session' = [session EXCEPT ![tx[w].s] = tx[w].f]
      /\ told' = (IF answered /\ event[q].state = "COMPLETED" THEN [told EXCEPT ![q] = event[q].after] ELSE told)
      /\ UNCHANGED <<project, event>>
  BY DEF CommitReplay
<1>1. /\ q \in Requests /\ tx[w].s \in Sessions /\ tx[w].f \in SessionRows
      /\ ProjectRow \in held[w] /\ tx[w].s \in held[w] /\ FitsProject(tx[w].f, project)
  BY <1>0, <1>t, BeginCommits
<1> HIDE DEF q
<1>4. /\ session' \in [Sessions -> SessionRows] /\ project' \in Projects
      /\ CurrentFocusIsOpen' /\ \A r \in Sessions : session'[r].prev <= project'.rev
      /\ ValidProject(project)' /\ BranchesHang(project)' /\ project'.rev >= 1
  BY <1>0, <1>1, SessionWritten
<1>5. \A s \in Sessions : session'[s] = session[s] \/ s \in held[w] \/ ~session[s].bound
  BY <1>0, <1>1, <1>t
<1>7. /\ tx' \in [Workers -> Calls] /\ held' \in [Workers -> SUBSET Rows]
      /\ LocksOK' /\ \A v \in Workers : CallOK(v)'
  BY <1>0, <1>1, <1>5, CommitFrame
<1>8. RevisionsOK' /\ HistoryIsLinear'
  BY <1>0, <1>4 DEF IInv, RevisionsOK, HistoryIsLinear
<1>9. event[q].after \in Completions
  BY <1>1, <1>t DEF EventRows
<1>10. told' \in [Requests -> Completions]
       /\ \A r \in Requests : told'[r] = told[r] \/ (event[r].state = "COMPLETED" /\ told'[r] = event[r].after)
  BY <1>0, <1>1, <1>9, <1>t
<1>11. AnswersAreDurable'
  BY <1>0, <1>10 DEF IInv, AnswersAreDurable
<1>12. TypeOK'
  BY <1>0, <1>4, <1>7, <1>10, <1>t DEF TypeOK
<1> QED
  BY <1>4, <1>7, <1>8, <1>11, <1>12 DEF IInv

\* A replay that locks nothing.
LEMMA ReplayKeeps ==
  ASSUME IInv, NEW w \in Workers, NEW q \in Requests, Replay(w, q)
  PROVE  IInv'
<1>t. TypeOK /\ event \in [Requests -> EventRows] /\ told \in [Requests -> Completions]
  BY DEF IInv, TypeOK
<1>0. event[q].state = "COMPLETED" /\ told' = [told EXCEPT ![q] = event[q].after]
      /\ UNCHANGED <<rows, held, tx>>
  BY DEF Replay
<1>1. UNCHANGED <<project, session, event, held, tx>>
  BY <1>0 DEF rows
<1>2. event[q].after \in Completions
  BY <1>t DEF EventRows
<1>3. told' \in [Requests -> Completions] /\ AnswersAreDurable'
  BY <1>0, <1>1, <1>2, <1>t DEF IInv, AnswersAreDurable
<1>4. \A v \in Workers : CallOK(v)'
  BY <1>0, <1>1, <1>t, OthersKeep DEF IInv
<1>5. TypeOK' /\ LocksOK' /\ RevisionsOK'
  BY <1>1, <1>3, <1>t DEF IInv, TypeOK, LocksOK, AtStep, RevisionsOK
<1>6. ValidProject(project)' /\ BranchesHang(project)' /\ CurrentFocusIsOpen' /\ HistoryIsLinear'
  BY <1>1 DEF IInv, ValidProject, BranchesHang, IsOpen, Unresolved, CurrentFocusIsOpen, FitsProject, HistoryIsLinear
<1> QED
  BY <1>3, <1>4, <1>5, <1>6 DEF IInv

\* What a completion has when it commits: the rows it writes, the draft it
\* made, and the stored state as it tested it.
LEMMA CompleteCommits ==
  ASSUME IInv, NEW w \in Workers, AtStep(w, "commit"), tx[w].call = "complete"
  PROVE  LET t == tx[w] IN
         /\ t.q \in Requests /\ t.s = SessionOf[t.q] /\ t.s \in Sessions
         /\ t.p \in Projects /\ t.f \in SessionRows /\ t.d \in Directives
         /\ ProjectRow \in held[w] /\ t.s \in held[w] /\ t.q \in held[w]
         /\ event[t.q].state = "OPEN" /\ OnItsBasis(t.q)
         /\ Peers(t.s, t.d) = {} /\ Drafted(w)
         /\ ValidProject(t.p) /\ FitsProject(t.f, t.p)
         /\ t.p = project \/ (t.p.rev = project.rev + 1 /\ t.f.rev = session[t.s].rev + 1)
         /\ t.f = session[t.s] \/ t.f.rev = session[t.s].rev + 1
<1>1. tx[w] \in Calls /\ CompleteOK(w)
  BY DEF IInv, TypeOK, CallOK
<1>2. tx[w].q \in Requests /\ tx[w].s = SessionOf[tx[w].q]
  BY <1>1 DEF CompleteOK
<1>3. tx[w].s \in Sessions
  BY <1>2, ServiceAssumption
<1>4. tx[w].p \in Projects /\ tx[w].f \in SessionRows
  BY <1>1 DEF Calls
<1> QED
  BY <1>1, <1>2, <1>3, <1>4 DEF CompleteOK, AtStep

\* A completion adds one event to the history and at most one revision, the
\* next one.
LEMMA HistoryGrows ==
  ASSUME HistoryIsLinear, NEW q \in Requests, event[q].state = "OPEN",
         event \in [Requests -> EventRows], project \in Projects, project' \in Projects,
         event[q].prev = project.rev,
         project'.rev = project.rev \/ project'.rev = project.rev + 1,
         event'[q].state = "COMPLETED", event'[q].prev = event[q].prev,
         event'[q].after.prev = project'.rev,
         \A r \in Requests \ {q} : event'[r] = event[r]
  PROVE  HistoryIsLinear'
<1> DEFINE done == {r \in Requests : event[r].state = "COMPLETED"}
           done2 == {r \in Requests : event'[r].state = "COMPLETED"}
           A == project.rev
           B == project'.rev
<1>t. A \in Nat /\ B \in Nat /\ \A r \in Requests : event[r].after.prev \in Nat /\ event[r].prev \in Nat
  BY DEF Projects, EventRows, Completions
<1>1. done2 = done \cup {q} /\ q \notin done /\ \A r \in done : event'[r] = event[r]
  OBVIOUS
<1>2. /\ \A r \in done : event[r].after.prev \in {event[r].prev, event[r].prev + 1}
                         /\ event[r].after.prev <= A
      /\ \A n \in 2..A : \E r \in done : event[r].prev = n - 1 /\ event[r].after.prev = n
      /\ \A r, s \in done : (r # s /\ event[r].after.prev = event[s].after.prev)
                            => event[r].prev = event[r].after.prev \/ event[s].prev = event[s].after.prev
  BY DEF HistoryIsLinear
<1>3. event'[q].prev = A /\ event'[q].after.prev = B /\ (B = A \/ B = A + 1)
  OBVIOUS
<1> HIDE DEF done, done2, A, B
<1>4. \A r \in done2 : event'[r].after.prev \in {event'[r].prev, event'[r].prev + 1}
                       /\ event'[r].after.prev <= B
  <2> SUFFICES ASSUME NEW r \in done2
               PROVE  event'[r].after.prev \in {event'[r].prev, event'[r].prev + 1}
                      /\ event'[r].after.prev <= B
    OBVIOUS
  <2>1. CASE r = q
    BY <2>1, <1>3, <1>t
  <2>2. CASE r # q
    <3>1. r \in done /\ r \in Requests
      BY <2>2, <1>1 DEF done
    <3> QED
      BY <3>1, <1>1, <1>2, <1>3, <1>t
  <2> QED
    BY <2>1, <2>2
<1>5. \A n \in 2..B : \E r \in done2 : event'[r].prev = n - 1 /\ event'[r].after.prev = n
  <2> SUFFICES ASSUME NEW n \in 2..B
               PROVE  \E r \in done2 : event'[r].prev = n - 1 /\ event'[r].after.prev = n
    OBVIOUS
  <2>1. CASE n \in 2..A
    <3> PICK r \in done : event[r].prev = n - 1 /\ event[r].after.prev = n
      BY <2>1, <1>2
    <3> QED
      BY <1>1
  <2>2. CASE n \notin 2..A
    <3>1. n = A + 1 /\ B = A + 1
      BY <2>2, <1>3, <1>t
    <3> QED
      BY <3>1, <1>1, <1>3, <1>t
  <2> QED
    BY <2>1, <2>2
<1>6. \A r, s \in done2 : (r # s /\ event'[r].after.prev = event'[s].after.prev)
                          => event'[r].prev = event'[r].after.prev \/ event'[s].prev = event'[s].after.prev
  <2>1. \A r \in done : event'[r].after.prev = B => B = A
    <3> SUFFICES ASSUME NEW r \in done, event'[r].after.prev = B PROVE B = A
      OBVIOUS
    <3>1. event[r].after.prev = B /\ event[r].after.prev <= A
      BY <1>1, <1>2
    <3> QED
      BY <3>1, <1>3, <1>t
  <2> SUFFICES ASSUME NEW r \in done2, NEW s \in done2, r # s,
                      event'[r].after.prev = event'[s].after.prev
               PROVE  event'[r].prev = event'[r].after.prev \/ event'[s].prev = event'[s].after.prev
    OBVIOUS
  <2>2. CASE r = q
    BY <2>1, <2>2, <1>1, <1>3
  <2>3. CASE s = q
    BY <2>1, <2>3, <1>1, <1>3
  <2>4. CASE r # q /\ s # q
    BY <2>4, <1>1, <1>2
  <2> QED
    BY <2>2, <2>3, <2>4
<1> QED
  BY <1>4, <1>5, <1>6 DEF HistoryIsLinear, done2, B

LEMMA CommitCompleteKeeps ==
  ASSUME IInv, NEW w \in Workers, NEW answered \in BOOLEAN, CommitComplete(w, answered)
  PROVE  IInv'
<1>t. /\ TypeOK /\ project \in Projects /\ event \in [Requests -> EventRows]
      /\ session \in [Sessions -> SessionRows] /\ told \in [Requests -> Completions]
  BY DEF IInv, TypeOK
<1> DEFINE q == tx[w].q
           s == tx[w].s
           p == tx[w].p
           f == tx[w].f
           after == [prev |-> p.rev, srev |-> f.rev]
<1>0. /\ AtStep(w, "commit") /\ tx[w].call = "complete" /\ Release(w)
      /\ project' = p /\ session' = [session EXCEPT ![s] = f]
      /\ event' = [event EXCEPT ![q].state = "COMPLETED", ![q].after = after]
      /\ told' = IF answered THEN [told EXCEPT ![q] = after] ELSE told
  BY DEF CommitComplete
<1>1. /\ q \in Requests /\ s = SessionOf[q] /\ s \in Sessions /\ p \in Projects /\ f \in SessionRows
      /\ ProjectRow \in held[w] /\ s \in held[w] /\ q \in held[w]
      /\ event[q].state = "OPEN" /\ event[q].prev = project.rev
      /\ BranchesHang(p) /\ ValidProject(p) /\ FitsProject(f, p)
      /\ p = project \/ p.rev = project.rev + 1
  BY <1>0, CompleteCommits DEF OnItsBasis, Drafted
<1> HIDE DEF q, s, p, f
<1>2. after \in Completions
  BY <1>1 DEF Projects, SessionRows, Completions
<1>3. /\ event' \in [Requests -> EventRows] /\ \A r \in Requests \ {q} : event'[r] = event[r]
      /\ event'[q].state = "COMPLETED" /\ event'[q].prev = event[q].prev /\ event'[q].after = after
  BY <1>0, <1>1, <1>2, <1>t DEF EventRows
<1>4. session' \in [Sessions -> SessionRows] /\ session'[s] = f
      /\ \A r \in Sessions \ {s} : session'[r] = session[r]
  BY <1>0, <1>1, <1>t
<1>n. /\ project.rev \in Nat /\ p.rev \in Nat /\ f.prev = p.rev
      /\ (p.rev = project.rev \/ p.rev = project.rev + 1)
  BY <1>1, <1>t DEF Projects, FitsProject
<1>5. /\ tx' \in [Workers -> Calls] /\ held' \in [Workers -> SUBSET Rows]
      /\ LocksOK' /\ \A v \in Workers : CallOK(v)'
  <2>1. \A r \in Requests : event'[r] = event[r] \/ r \in held[w] \/ event[r].state = "NONE"
    BY <1>1, <1>3
  <2>2. \A r \in Sessions : session'[r] = session[r] \/ r \in held[w] \/ ~session[r].bound
    BY <1>1, <1>4
  <2> QED
    BY <2>1, <2>2, <1>0, <1>1, CommitFrame
<1>6. HistoryIsLinear'
  <2>1. HistoryIsLinear /\ project' \in Projects /\ event'[q].after.prev = project'.rev
        /\ (project'.rev = project.rev \/ project'.rev = project.rev + 1)
    BY <1>0, <1>1, <1>3, <1>n DEF IInv
  <2> QED
    BY <2>1, <1>1, <1>3, <1>t, HistoryGrows
<1>7. told' \in [Requests -> Completions] /\ AnswersAreDurable'
  <2>1. told' \in [Requests -> Completions] /\ (told'[q] = told[q] \/ told'[q] = after)
        /\ \A r \in Requests \ {q} : told'[r] = told[r]
    BY <1>0, <1>1, <1>2, <1>t
  <2>2. told[q] = NotDone
    BY <1>1 DEF IInv, AnswersAreDurable
  <2> QED
    BY <2>1, <2>2, <1>3 DEF IInv, AnswersAreDurable
<1>8. CurrentFocusIsOpen'
  <2> SUFFICES ASSUME NEW r \in Sessions, session'[r].bound, session'[r].prev = p.rev
               PROVE  FitsProject(session'[r], p)
    BY <1>0 DEF CurrentFocusIsOpen, FitsProject, IsOpen
  <2>1. CASE r = s
    BY <2>1, <1>1, <1>4
  <2>2. CASE r # s
    <3>1. session[r].bound /\ session[r].prev = p.rev /\ session[r].prev <= project.rev
      BY <2>2, <1>4 DEF IInv, RevisionsOK
    <3>2. p = project
      BY <3>1, <1>1, <1>n
    <3> QED
      BY <3>1, <3>2, <2>2, <1>4 DEF IInv, CurrentFocusIsOpen
  <2> QED
    BY <2>1, <2>2
<1>9. RevisionsOK'
  <2>1. project.rev >= 1 /\ p.rev >= project.rev
    BY <1>n DEF IInv, RevisionsOK
  <2>2. \A r \in Sessions : session'[r].prev <= p.rev
    <3> SUFFICES ASSUME NEW r \in Sessions PROVE session'[r].prev <= p.rev
      OBVIOUS
    <3>1. CASE r = s
      BY <3>1, <1>4, <1>n
    <3>2. CASE r # s
      <4>1. session[r].prev \in Nat /\ session[r].prev <= project.rev /\ session'[r] = session[r]
        BY <3>2, <1>4, <1>t DEF IInv, RevisionsOK, SessionRows
      <4> QED BY <4>1, <2>1, <1>n
    <3> QED BY <3>1, <3>2
  <2>3. \A r \in Requests : event'[r].prev = event[r].prev /\ event[r].prev \in Nat
    BY <1>3, <1>t DEF EventRows
  <2>4. \A r \in Requests : event'[r].prev <= p.rev
    BY <2>1, <2>3, <1>n DEF IInv, RevisionsOK
  <2>5. \A r \in Requests : event'[r].state = "COMPLETED" => event'[r].prev >= 1
    BY <2>1, <2>3, <1>1, <1>3 DEF IInv, RevisionsOK
  <2>6. p.rev >= 1
    BY <2>1, <1>n
  <2>7. project' = p
    BY <1>0
  <2> QED
    BY <2>2, <2>4, <2>5, <2>6, <2>7 DEF RevisionsOK
<1>10. ValidProject(project)' /\ BranchesHang(project)'
  BY <1>0, <1>1 DEF ValidProject, BranchesHang, IsOpen, Unresolved
<1>11. TypeOK'
  BY <1>0, <1>1, <1>3, <1>4, <1>5, <1>7 DEF TypeOK
<1> QED
  BY <1>5, <1>6, <1>7, <1>8, <1>9, <1>10, <1>11 DEF IInv

-----------------------------------------------------------------------------
(* The invariant.                                                           *)

\* The service starts in it: a root that is open, and nothing else.
LEMMA InitInvariant == Init => IInv
<1> SUFFICES ASSUME Init PROVE IInv
  OBVIOUS
<1> USE DEF Init
<1>1. /\ Bootstrapped.rev = 1 /\ Bootstrapped.default = Root
      /\ \A c \in Contexts : /\ Bootstrapped.life[c] = IF c = Root THEN "OPEN" ELSE "ABSENT"
                             /\ Bootstrapped.parent[c] = NoContext /\ Bootstrapped.hold[c] = "NONE"
  BY DEF Bootstrapped
<1>2. ValidProject(project)
  <2>1. \A c \in Contexts : (Bootstrapped.life[c] # "ABSENT" /\ Bootstrapped.parent[c] = NoContext) <=> c = Root
    BY <1>1, ContextAssumption
  <2> HIDE DEF Bootstrapped
  <2> QED
    BY <1>1, <2>1, ContextAssumption DEF ValidProject, IsOpen
<1>3. BranchesHang(project)
  BY ZenonT(40), <1>1, ContextAssumption DEF BranchesHang
<1>4. NotBegun \in EventRows /\ NotBegun.state = "NONE" /\ NotBegun.prev = 0 /\ NotDone \in Completions
  BY DEF NotBegun, NotDone, EventRows, Completions
<1>5. TypeOK
  <2>1. session \in [Sessions -> SessionRows] /\ tx \in [Workers -> Calls] /\ project \in Projects
    BY IdleIsACall
  <2>2. event \in [Requests -> EventRows] /\ told \in [Requests -> Completions]
    BY <1>4
  <2> QED
    BY <2>1, <2>2 DEF TypeOK
<1>6. LocksOK
  BY DEF LocksOK
<1>7. \A w \in Workers : CallOK(w)
  BY DEF CallOK, AtStep, Idle
<1>8. RevisionsOK
  BY <1>1, <1>4 DEF RevisionsOK, Unbound
<1>9. CurrentFocusIsOpen
  BY DEF CurrentFocusIsOpen, Unbound
<1>10. HistoryIsLinear
  <2>1. {q \in Requests : event[q].state = "COMPLETED"} = {} /\ 2..project.rev = {}
    BY <1>1, <1>4
  <2> QED
    BY <2>1 DEF HistoryIsLinear
<1>11. AnswersAreDurable
  BY DEF AnswersAreDurable
<1> QED
  BY <1>2, <1>3, <1>5, <1>6, <1>7, <1>8, <1>9, <1>10, <1>11 DEF IInv

\* No step leaves it.
LEMMA NextInvariant == IInv /\ [Next]_vars => IInv'
<1> SUFFICES ASSUME IInv, [Next]_vars PROVE IInv'
  OBVIOUS
<1>1. CASE UNCHANGED vars
  <2>1. UNCHANGED <<project, session, event, held, tx, told>>
    BY <1>1 DEF vars, rows
  <2>2. TypeOK' /\ LocksOK' /\ RevisionsOK'
    BY <2>1 DEF IInv, TypeOK, LocksOK, AtStep, RevisionsOK
  <2>3. ValidProject(project)' /\ BranchesHang(project)'
    BY <2>1 DEF IInv, ValidProject, BranchesHang, IsOpen, Unresolved
  <2>4. CurrentFocusIsOpen' /\ HistoryIsLinear' /\ AnswersAreDurable'
    BY <2>1 DEF IInv, CurrentFocusIsOpen, FitsProject, IsOpen, HistoryIsLinear, AnswersAreDurable
  <2>5. \A w \in Workers : CallOK(w)'
    BY <2>1, OthersKeep DEF IInv, rows
  <2> QED
    BY <2>2, <2>3, <2>4, <2>5 DEF IInv
<1>2. ASSUME NEW w \in Workers, \E s \in Sessions : BindCall(w, s) PROVE IInv'
  BY <1>2, BindSteps
<1>3. ASSUME NEW w \in Workers, NEW q \in Requests, BeginCall(w, q) \/ Replay(w, q) \/ CompleteCall(w, q)
      PROVE  IInv'
  BY <1>3, BeginSteps, ReplayKeeps, CompleteLocks
<1>4. ASSUME NEW w \in Workers, Refuse(w) \/ Fail(w) \/ Victim(w) PROVE IInv'
  BY <1>4, RollbackKeeps DEF Refuse, Fail, Victim
<1>5. ASSUME NEW w \in Workers, Advance(w) PROVE IInv'
  <2>1. CASE BindProject(w)
    BY <2>1, BindSteps
  <2>2. CASE BeginSession(w) \/ BeginProject(w) \/ BeginCollision(w)
    BY <2>2, BeginSteps
  <2>3. CASE CompleteProject(w) \/ \E d \in Directives : CompleteSession(w, d)
    BY <2>3, CompleteLocks
  <2>4. CASE NoPeerInvalidated(w) \/ ApplyOperation(w)
    BY <2>4, CompleteDrafts
  <2>5. CASE FinishDirective(w)
    BY <2>5, CompleteFinishes
  <2>6. CASE CommitBind(w) \/ CommitBegin(w)
    BY <2>6, CommitBindKeeps, CommitBeginKeeps
  <2>7. CASE \E answered \in BOOLEAN : CommitReplay(w, answered) \/ CommitComplete(w, answered)
    BY <2>7, CommitReplayKeeps, CommitCompleteKeeps
  <2>8. CASE Refuse(w)
    BY <2>8, <1>4
  <2> QED
    BY <1>5, <2>1, <2>2, <2>3, <2>4, <2>5, <2>6, <2>7, <2>8 DEF Advance
<1> QED
  BY <1>1, <1>2, <1>3, <1>4, <1>5 DEF Next

\* The locks, the calls under way and the stored rows agree in every state:
\* what a call has tested holds until it commits (begin_event, complete_event,
\* bind_session).
THEOREM ControlInvariant == Spec => []IInv
<1> QED
  BY InitInvariant, NextInvariant, PTL DEF Spec

\* A later revision was made from the one before it, by one event
\* (complete_event under its project lock).
THEOREM HistoryLinear == Spec => []HistoryIsLinear
<1> QED
  BY ControlInvariant, PTL DEF IInv

\* A client is told only of what is stored (_transaction).
THEOREM ToldIsStored == Spec => []AnswersAreDurable
<1> QED
  BY ControlInvariant, PTL DEF IInv

\* The end of a context leaves none below it that is open or waits for its
\* join (_apply_project_operation).
THEOREM NoBranchLost == Spec => []NoBranchIsLost
<1>1. IInv => NoBranchIsLost
  BY DEF IInv, BranchesHang, NoBranchIsLost
<1> QED
  BY <1>1, ControlInvariant, PTL

\* A session that is current has an open focus (begin_event, complete_event).
THEOREM CurrentFocusOpen == Spec => []CurrentFocusIsOpen
<1> QED
  BY ControlInvariant, PTL DEF IInv

-----------------------------------------------------------------------------
(* What a step does to the rows.                                            *)

\* Rows are written by commits only.
LEMMA OnlyCommitsWrite ==
  ASSUME [Next]_vars
  PROVE  \/ UNCHANGED <<project, session, event>>
         \/ \E w \in Workers : \/ CommitBind(w) \/ CommitBegin(w)
                               \/ \E answered \in BOOLEAN : CommitReplay(w, answered) \/ CommitComplete(w, answered)
<1>1. CASE UNCHANGED vars
  BY <1>1 DEF vars, rows
<1>2. ASSUME NEW w \in Workers, \E s \in Sessions : BindCall(w, s)
      PROVE  UNCHANGED <<project, session, event>>
  BY <1>2 DEF BindCall, rows
<1>3. ASSUME NEW w \in Workers, NEW q \in Requests, BeginCall(w, q) \/ Replay(w, q) \/ CompleteCall(w, q)
      PROVE  UNCHANGED <<project, session, event>>
  BY <1>3 DEF BeginCall, Replay, CompleteCall, rows
<1>4. ASSUME NEW w \in Workers, Refuse(w) \/ Fail(w) \/ Victim(w)
      PROVE  UNCHANGED <<project, session, event>>
  BY <1>4 DEF Refuse, Fail, Victim, Rollback, rows
<1>5. ASSUME NEW w \in Workers, \/ BindProject(w) \/ BeginSession(w) \/ BeginProject(w) \/ BeginCollision(w)
                                \/ CompleteProject(w) \/ (\E d \in Directives : CompleteSession(w, d))
                                \/ NoPeerInvalidated(w) \/ ApplyOperation(w) \/ FinishDirective(w)
      PROVE  UNCHANGED <<project, session, event>>
  BY <1>5 DEF BindProject, BeginSession, BeginProject, BeginCollision, CompleteProject,
              CompleteSession, NoPeerInvalidated, ApplyOperation, FinishDirective, rows
<1> QED
  BY <1>1, <1>2, <1>3, <1>4, <1>5 DEF Next, Advance

\* What each commit writes, from what.
LEMMA CommitsWrite ==
  ASSUME IInv, NEW w \in Workers, NEW answered \in BOOLEAN
  PROVE  LET t == tx[w] IN
         /\ CommitBind(w) =>
              /\ t.s \in Sessions /\ ~session[t.s].bound /\ t.f.bound
              /\ t.f = [bound |-> TRUE, prev |-> project.rev, rev |-> 1,
                        focus |-> project.default, binding |-> NoContext]
              /\ session' = [session EXCEPT ![t.s] = t.f] /\ UNCHANGED <<project, event>>
         /\ CommitBegin(w) \/ CommitReplay(w, answered) =>
              /\ t.q \in Requests /\ t.s = SessionOf[t.q] /\ t.s \in Sessions
              /\ session[t.s].bound /\ FitsProject(t.f, project)
              /\ \E a \in Contexts : Sees(session[t.s], project, a)
                                     /\ t.f = Rehydrated(session[t.s], project, a)
              /\ session' = [session EXCEPT ![t.s] = t.f] /\ UNCHANGED project
         /\ CommitBegin(w) => event[t.q].state = "NONE"
         /\ CommitReplay(w, answered) => UNCHANGED event
<1>t. TypeOK /\ CallOK(w) /\ tx[w] \in Calls
  BY DEF IInv, TypeOK
<1>1. ASSUME CommitBind(w)
      PROVE  LET t == tx[w] IN
             /\ t.s \in Sessions /\ ~session[t.s].bound
             /\ t.f = [bound |-> TRUE, prev |-> project.rev, rev |-> 1,
                       focus |-> project.default, binding |-> NoContext]
             /\ session' = [session EXCEPT ![t.s] = t.f] /\ UNCHANGED <<project, event>>
  <2>1. /\ BindOK(w) /\ tx[w].pc = "commit" /\ tx[w].f \in SessionRows
        /\ session' = [session EXCEPT ![tx[w].s] = tx[w].f] /\ UNCHANGED <<project, event>>
    BY <1>1, <1>t DEF CommitBind, CallOK, AtStep, Calls
  <2>2. /\ tx[w].s \in Sessions /\ ~session[tx[w].s].bound
        /\ tx[w].f.bound = TRUE /\ tx[w].f.prev = project.rev /\ tx[w].f.rev = 1
        /\ tx[w].f.focus = project.default /\ tx[w].f.binding = NoContext
    BY <2>1 DEF BindOK, FitsProject, SessionRows
  <2> QED
    BY <2>1, <2>2 DEF SessionRows
<1>2. ASSUME CommitBegin(w) \/ CommitReplay(w, answered)
      PROVE  LET t == tx[w] IN
             /\ t.q \in Requests /\ t.s = SessionOf[t.q] /\ t.s \in Sessions
             /\ session[t.s].bound /\ FitsProject(t.f, project)
             /\ \E a \in Contexts : Sees(session[t.s], project, a)
                                    /\ t.f = Rehydrated(session[t.s], project, a)
             /\ session' = [session EXCEPT ![t.s] = t.f] /\ UNCHANGED project
             /\ tx[w].call = "begin" => event[t.q].state = "NONE"
  <2>1. /\ AtStep(w, "commit") /\ tx[w].call \in {"begin", "replay"}
        /\ session' = [session EXCEPT ![tx[w].s] = tx[w].f] /\ UNCHANGED project
    BY <1>2 DEF CommitBegin, CommitReplay
  <2>2. BeginOK(w)
    BY <2>1, <1>t DEF CallOK
  <2>3. /\ tx[w].q \in Requests /\ tx[w].s = SessionOf[tx[w].q] /\ tx[w].s \in Sessions
        /\ session[tx[w].s].bound /\ FitsProject(tx[w].f, project)
        /\ tx[w].call = "begin" => event[tx[w].q].state = "NONE"
    BY <2>1, <1>t, BeginCommits
  <2>4. \E a \in Contexts : Sees(session[tx[w].s], project, a)
                            /\ tx[w].f = Rehydrated(session[tx[w].s], project, a)
    BY <2>1, <2>2 DEF BeginOK, AtStep
  <2> QED
    BY <2>1, <2>3, <2>4
<1>3. CommitBegin(w) => tx[w].call = "begin"
  BY DEF CommitBegin
<1>4. CommitReplay(w, answered) => UNCHANGED event
  BY DEF CommitReplay
<1>5. CommitBind(w) => tx[w].f.bound
  BY <1>1
<1> QED
  BY <1>1, <1>2, <1>3, <1>4, <1>5

\* A completion of q that writes project p and session row f for directive d.
Completion(q, p, f, d) ==
  LET s == SessionOf[q] IN
  /\ s \in Sessions /\ event[q].state = "OPEN" /\ OnItsBasis(q)
  /\ Peers(s, d) = {} /\ Continues(project, p)
  /\ \A c \in Contexts : IsOpen(project, c) /\ ~IsOpen(p, c) => c \in EndedBy(d)
  /\ ValidProject(p) /\ FitsProject(f, p)
  /\ p = project \/ (p.rev = project.rev + 1 /\ f.rev = session[s].rev + 1)
  /\ f = session[s] \/ f.rev = session[s].rev + 1
  /\ project' = p /\ session' = [session EXCEPT ![s] = f]
  /\ event' = [event EXCEPT ![q].state = "COMPLETED",
                            ![q].after = [prev |-> p.rev, srev |-> f.rev]]

\* That is what the commit of a completion does.
LEMMA CompletionWrites ==
  ASSUME IInv, NEW w \in Workers, NEW answered \in BOOLEAN, CommitComplete(w, answered)
  PROVE  \E q \in Requests, p \in Projects, f \in SessionRows, d \in Directives : Completion(q, p, f, d)
<1>1. AtStep(w, "commit") /\ tx[w].call = "complete"
  BY DEF CommitComplete
<1>2. /\ tx[w].q \in Requests /\ tx[w].s = SessionOf[tx[w].q]
      /\ tx[w].p \in Projects /\ tx[w].f \in SessionRows /\ tx[w].d \in Directives
  BY <1>1, CompleteCommits
<1>3. Completion(tx[w].q, tx[w].p, tx[w].f, tx[w].d)
  <2> DEFINE q == tx[w].q
             p == tx[w].p
             f == tx[w].f
             d == tx[w].d
             s == tx[w].s
  <2>1. /\ s \in Sessions /\ event[q].state = "OPEN" /\ OnItsBasis(q)
        /\ Peers(s, d) = {} /\ Drafted(w)
        /\ ValidProject(p) /\ FitsProject(f, p)
        /\ p = project \/ (p.rev = project.rev + 1 /\ f.rev = session[s].rev + 1)
        /\ f = session[s] \/ f.rev = session[s].rev + 1
    BY <1>1, CompleteCommits
  <2>2. /\ project' = p /\ session' = [session EXCEPT ![s] = f]
        /\ event' = [event EXCEPT ![q].state = "COMPLETED", ![q].after = [prev |-> p.rev, srev |-> f.rev]]
    BY DEF CommitComplete
  <2>3. Continues(project, p) /\ \A c \in Contexts : IsOpen(project, c) /\ ~IsOpen(p, c) => c \in EndedBy(d)
    BY <2>1 DEF Drafted
  <2>4. s = SessionOf[q]
    BY <1>2
  <2> HIDE DEF q, p, f, d, s
  <2>7. Completion(q, p, f, d)
    BY <2>1, <2>2, <2>3, <2>4 DEF Completion
  <2> QED
    BY <2>7 DEF q, p, f, d
<1> QED
  BY <1>2, <1>3

\* The steps of the service as one of its peers sees them.
LEMMA PeerFocusStep ==
  ASSUME IInv, [Next]_vars, NEW q \in Requests, NEW t \in Sessions,
         Completes(q), t # SessionOf[q], PrincipalOf[t] = PrincipalOf[SessionOf[q]],
         session[t].bound, IsOpen(project, session[t].focus)
  PROVE  IsOpen(project', session[t].focus)
<1>t. event \in [Requests -> EventRows] /\ session[t].focus \in Contexts
  BY DEF IInv, TypeOK, SessionRows
<1>1. CASE UNCHANGED <<project, session, event>>
  BY <1>1
<1>2. ASSUME NEW w \in Workers, NEW answered \in BOOLEAN,
             CommitBind(w) \/ CommitBegin(w) \/ CommitReplay(w, answered)
      PROVE  FALSE
  <2>1. CASE CommitBegin(w)
    <3>1. event' = [event EXCEPT ![tx[w].q] = [NotBegun EXCEPT !.state = "OPEN", !.prev = project.rev, !.srev = tx[w].f.rev]]
      BY <2>1 DEF CommitBegin
    <3>2. event'[q] = event[q] \/ event'[q].state = "OPEN"
      BY <3>1, <1>t DEF NotBegun
    <3> QED
      BY <3>2 DEF Completes
  <2>2. CASE CommitBind(w) \/ CommitReplay(w, answered)
    BY <2>2 DEF CommitBind, CommitReplay, Completes
  <2> QED
    BY <1>2, <2>1, <2>2
<1>3. ASSUME NEW w \in Workers, NEW answered \in BOOLEAN, CommitComplete(w, answered)
      PROVE  IsOpen(project', session[t].focus)
  <2> PICK r \in Requests, p \in Projects, f \in SessionRows, d \in Directives : Completion(r, p, f, d)
    BY <1>3, CompletionWrites
  <2>0. /\ Peers(SessionOf[r], d) = {}
        /\ \A c \in Contexts : IsOpen(project, c) /\ ~IsOpen(p, c) => c \in EndedBy(d)
        /\ project' = p
        /\ event' = [event EXCEPT ![r].state = "COMPLETED",
                                  ![r].after = [prev |-> p.rev, srev |-> f.rev]]
    BY DEF Completion
  <2>1. r = q
    <3>1. \A x \in Requests \ {r} : event'[x] = event[x]
      BY <2>0, <1>t
    <3> QED
      BY <3>1 DEF Completes
  <2>2. session[t].focus \notin EndedBy(d)
    BY <2>0, <2>1 DEF Peers
  <2> QED
    BY <2>0, <2>2, <1>t
<1> QED
  BY <1>1, <1>2, <1>3, OnlyCommitsWrite

\* No completion ends the focus of another session of its principal
\* (_assert_no_other_session_invalidated).
THEOREM PeerFocusKept == Spec => FocusIsNotEndedByPeer
<1>1. IInv /\ [Next]_vars =>
        [\A q \in Requests, t \in Sessions :
           /\ Completes(q) /\ t # SessionOf[q] /\ PrincipalOf[t] = PrincipalOf[SessionOf[q]]
           /\ session[t].bound /\ IsOpen(project, session[t].focus)
           => IsOpen(project', session[t].focus)]_vars
  BY PeerFocusStep
<1> QED
  BY <1>1, ControlInvariant, PTL DEF Spec, FocusIsNotEndedByPeer

\* The steps of the service as an open event sees them.
LEMMA OpenEventStep ==
  ASSUME IInv, [Next]_vars, NEW q \in Requests, event[q].state = "OPEN", OnItsBasis(q),
         project'.rev = project.rev
  PROVE  \/ OnItsBasis(q)'
         \/ \E r \in Requests : Completes(r) /\ SessionOf[r] = SessionOf[q]
<1>t. /\ event \in [Requests -> EventRows] /\ session \in [Sessions -> SessionRows]
      /\ project \in Projects /\ project.rev \in Nat /\ SessionOf[q] \in Sessions
  BY ServiceAssumption DEF IInv, TypeOK, Projects
<1>b. /\ event[q].prev = project.rev /\ event[q].srev = session[SessionOf[q]].rev
      /\ FitsProject(session[SessionOf[q]], project)
  BY DEF OnItsBasis
<1>s. ASSUME event'[q] = event[q], session'[SessionOf[q]] = session[SessionOf[q]], project' = project
      PROVE  OnItsBasis(q)'
  BY <1>s, <1>b DEF OnItsBasis, FitsProject, IsOpen
<1>1. CASE UNCHANGED <<project, session, event>>
  BY <1>1, <1>s
<1>2. ASSUME NEW w \in Workers, CommitBind(w) PROVE OnItsBasis(q)'
  <2>1. /\ tx[w].s \in Sessions /\ ~session[tx[w].s].bound
        /\ session' = [session EXCEPT ![tx[w].s] = tx[w].f] /\ UNCHANGED <<project, event>>
    BY <1>2, CommitsWrite
  <2>2. tx[w].s # SessionOf[q]
    BY <2>1, <1>b DEF FitsProject
  <2> QED
    BY <2>1, <2>2, <1>s, <1>t
<1>3. ASSUME NEW w \in Workers, NEW answered \in BOOLEAN, CommitBegin(w) \/ CommitReplay(w, answered)
      PROVE  OnItsBasis(q)'
  <2>1. /\ tx[w].q \in Requests /\ tx[w].s \in Sessions
        /\ \E a \in Contexts : tx[w].f = Rehydrated(session[tx[w].s], project, a)
        /\ session' = [session EXCEPT ![tx[w].s] = tx[w].f] /\ UNCHANGED project
    BY <1>3, CommitsWrite
  <2>2. event'[q] = event[q]
    <3>1. CASE CommitBegin(w)
      <4>1. event[tx[w].q].state = "NONE"
        BY <3>1, CommitsWrite
      <4>2. tx[w].q # q
        BY <4>1
      <4> QED
        BY <3>1, <4>2, <1>t DEF CommitBegin
    <3>2. CASE CommitReplay(w, answered)
      BY <3>2 DEF CommitReplay
    <3> QED
      BY <1>3, <3>1, <3>2
  <2>3. session'[SessionOf[q]] = session[SessionOf[q]]
    <3>1. CASE tx[w].s = SessionOf[q]
      <4>1. tx[w].f = session[SessionOf[q]]
        BY <3>1, <2>1, <1>b DEF Rehydrated, FitsProject
      <4> QED
        BY <3>1, <4>1, <2>1, <1>t
    <3>2. CASE tx[w].s # SessionOf[q]
      BY <3>2, <2>1, <1>t
    <3> QED
      BY <3>1, <3>2
  <2> QED
    BY <2>1, <2>2, <2>3, <1>s
<1>4. ASSUME NEW w \in Workers, NEW answered \in BOOLEAN, CommitComplete(w, answered)
      PROVE  OnItsBasis(q)' \/ \E r \in Requests : Completes(r) /\ SessionOf[r] = SessionOf[q]
  <2> PICK r \in Requests, p \in Projects, f \in SessionRows, d \in Directives : Completion(r, p, f, d)
    BY <1>4, CompletionWrites
  <2>0. /\ SessionOf[r] \in Sessions /\ event[r].state = "OPEN"
        /\ p = project \/ p.rev = project.rev + 1
        /\ project' = p /\ session' = [session EXCEPT ![SessionOf[r]] = f]
        /\ event' = [event EXCEPT ![r].state = "COMPLETED",
                                  ![r].after = [prev |-> p.rev, srev |-> f.rev]]
    BY DEF Completion
  <2>1. CASE SessionOf[r] = SessionOf[q]
    <3>1. event'[r].state = "COMPLETED"
      BY <2>0, <1>t DEF EventRows
    <3> QED
      BY <2>0, <2>1, <3>1 DEF Completes
  <2>2. CASE SessionOf[r] # SessionOf[q]
    <3>1. r # q /\ project' = project
      BY <2>0, <2>2, <1>t
    <3> QED
      BY <2>0, <2>2, <3>1, <1>s, <1>t
  <2> QED
    BY <2>1, <2>2
<1> QED
  BY <1>1, <1>2, <1>3, <1>4, OnlyCommitsWrite

\* While the project stands still an open event can be completed until another
\* one of its session is (rehydrate_control_session, complete_event).
THEOREM OpenEventsStay == Spec => OpenEventsSurvive
<1>1. IInv /\ [Next]_vars =>
        [\A q \in Requests :
           event[q].state = "OPEN" /\ OnItsBasis(q) /\ project'.rev = project.rev
           => \/ OnItsBasis(q)'
              \/ \E r \in Requests : Completes(r) /\ SessionOf[r] = SessionOf[q]]_vars
  BY OpenEventStep
<1> QED
  BY <1>1, ControlInvariant, PTL DEF Spec, OpenEventsSurvive

-----------------------------------------------------------------------------
(* The promise: every commit is one step of the abstract service.           *)

\* The two modules judge contexts and projects alike.
LEMMA SameJudgement ==
  /\ \A f, p : FitsProject(f, p) <=> Promise!FitsProject(f, p)
  /\ \A p, c, a : IsNearestOpen(p, c, a) <=> Promise!IsNearestOpen(p, c, a)
  /\ \A p : ValidProject(p) <=> Promise!ValidProject(p)
  /\ \A p, r : Continues(p, r) <=> Promise!Continues(p, r)
<1>1. \A f, p : FitsProject(f, p) <=> Promise!FitsProject(f, p)
  BY DEF FitsProject, Promise!FitsProject, IsOpen, Promise!IsOpen
<1>2. \A p, c : Ancestors(p, c) = Promise!Ancestors(p, c)
  BY DEF Ancestors, Promise!Ancestors
<1>3. \A p, c : IsOpen(p, c) <=> Promise!IsOpen(p, c)
  BY DEF IsOpen, Promise!IsOpen
<1>4. \A p, c, a : IsNearestOpen(p, c, a) <=> Promise!IsNearestOpen(p, c, a)
  BY <1>2, <1>3 DEF IsNearestOpen, Promise!IsNearestOpen
<1>5. \A p : ValidProject(p) <=> Promise!ValidProject(p)
  BY <1>3 DEF ValidProject, Promise!ValidProject
<1>6. \A p, r : Continues(p, r) <=> Promise!Continues(p, r)
  BY DEF Continues, Promise!Continues
<1> QED
  BY <1>1, <1>4, <1>5, <1>6

\* Rehydration as the promise has it.
LEMMA RehydrationIsPromised ==
  ASSUME TypeOK, NEW s \in Sessions, NEW f \in SessionRows, NEW a \in Contexts,
         Sees(session[s], project, a), f = Rehydrated(session[s], project, a),
         FitsProject(f, project)
  PROVE  Promise!Rehydrates(s, f)
<1>1. CASE session[s].prev = project.rev
  BY <1>1 DEF Rehydrated, Promise!Rehydrates
<1>2. CASE session[s].prev # project.rev
  <2>1. session[s] \in SessionRows
    BY DEF TypeOK
  <2>2. f.rev = session[s].rev + 1 /\ f.focus = a
    BY <1>2, <2>1 DEF Rehydrated, SessionRows
  <2>3. IsNearestOpen(project, session[s].focus, a)
    BY <1>2 DEF Sees
  <2> QED
    BY <1>2, <2>2, <2>3, SameJudgement DEF Promise!Rehydrates
<1> QED
  BY <1>1, <1>2

\* A step of the service is one of the promise.
LEMMA StepIsPromised == IInv /\ [Next]_vars => [Promise!Next]_<<project, session, event>>
<1> SUFFICES ASSUME IInv, [Next]_vars PROVE Promise!Next \/ UNCHANGED <<project, session, event>>
  OBVIOUS
<1>t. /\ TypeOK /\ event \in [Requests -> EventRows] /\ session \in [Sessions -> SessionRows]
      /\ project \in Projects
  BY DEF IInv, TypeOK
<1>1. ASSUME NEW w \in Workers, CommitBind(w) PROVE Promise!Next
  <2>1. LET t == tx[w] IN
        /\ t.s \in Sessions /\ ~session[t.s].bound
        /\ t.f = [bound |-> TRUE, prev |-> project.rev, rev |-> 1,
                  focus |-> project.default, binding |-> NoContext]
        /\ session' = [session EXCEPT ![t.s] = t.f] /\ UNCHANGED <<project, event>>
    BY <1>1, CommitsWrite
  <2>2. Promise!Bind(tx[w].s)
    BY <2>1 DEF Promise!Bind
  <2> QED
    BY <2>1, <2>2 DEF Promise!Next
<1>2. ASSUME NEW w \in Workers, NEW answered \in BOOLEAN, CommitBegin(w) \/ CommitReplay(w, answered)
      PROVE  Promise!Next
  <2> DEFINE q == tx[w].q
             s == tx[w].s
             f == tx[w].f
  <2>1. /\ q \in Requests /\ s = SessionOf[q] /\ s \in Sessions
        /\ session[s].bound /\ FitsProject(f, project)
        /\ \E a \in Contexts : Sees(session[s], project, a) /\ f = Rehydrated(session[s], project, a)
        /\ session' = [session EXCEPT ![s] = f] /\ UNCHANGED project
    BY <1>2, CommitsWrite
  <2>2. f \in SessionRows /\ session'[s] = f
    <3>1. tx[w] \in Calls
      BY DEF IInv, TypeOK
    <3> QED
      BY <3>1, <2>1, <1>t DEF Calls
  <2>3. Promise!Rehydrates(s, f)
    BY <2>1, <2>2, <1>t, RehydrationIsPromised
  <2>4. CASE CommitBegin(w)
    <3>1. /\ event[q].state = "NONE"
          /\ event' = [event EXCEPT ![q] =
                         [NotBegun EXCEPT !.state = "OPEN", !.prev = project.rev, !.srev = f.rev]]
      BY <2>4, CommitsWrite DEF CommitBegin
    <3>2. NotBegun = Promise!NotBegun
      BY DEF NotBegun, NotDone, Promise!NotBegun
    <3> HIDE DEF q, s, f
    <3>3. Promise!Begin(q)
      BY <2>1, <2>2, <2>3, <3>1, <3>2 DEF Promise!Begin
    <3> QED
      BY <2>1, <3>3 DEF Promise!Next
  <2>5. CASE CommitReplay(w, answered)
    <3>1. UNCHANGED event
      BY <2>5 DEF CommitReplay
    <3> HIDE DEF q, s, f
    <3>2. Promise!Rehydrate(s)
      BY <2>1, <2>2, <2>3, <3>1 DEF Promise!Rehydrate
    <3> QED
      BY <2>1, <3>2 DEF Promise!Next
  <2> QED
    BY <1>2, <2>4, <2>5
<1>3. ASSUME NEW w \in Workers, NEW answered \in BOOLEAN, CommitComplete(w, answered) PROVE Promise!Next
  <2> PICK q \in Requests, p \in Projects, f \in SessionRows, d \in Directives : Completion(q, p, f, d)
    BY <1>3, CompletionWrites
  <2> DEFINE s == SessionOf[q]
  <2>1. /\ s \in Sessions /\ event[q].state = "OPEN" /\ OnItsBasis(q)
        /\ Continues(project, p) /\ ValidProject(p) /\ FitsProject(f, p)
        /\ p = project \/ p.rev = project.rev + 1
        /\ f = session[s] \/ f.rev = session[s].rev + 1
        /\ project' = p /\ session' = [session EXCEPT ![s] = f]
        /\ event' = [event EXCEPT ![q].state = "COMPLETED",
                                  ![q].after = [prev |-> p.rev, srev |-> f.rev]]
    BY DEF Completion
  <2>2. session'[s] = f
    BY <2>1, <1>t
  <2>3. /\ event[q].prev = project.rev /\ event[q].srev = session[s].rev
        /\ Promise!FitsProject(session[s], project)
    BY <2>1, SameJudgement DEF OnItsBasis
  <2>4. project' = project \/ Promise!Succeeds(project, project')
    BY <2>1, SameJudgement DEF Promise!Succeeds
  <2>5. Promise!FitsProject(f, p)
    BY <2>1, SameJudgement
  <2>6. Promise!Complete(q)
    BY <2>1, <2>2, <2>3, <2>4, <2>5 DEF Promise!Complete
  <2> QED
    BY <2>6 DEF Promise!Next
<1> QED
  BY <1>1, <1>2, <1>3, OnlyCommitsWrite

\* The service with its locks, its calls cut off and its lost answers keeps the
\* promise of one that does each operation at once (begin_event, complete_event,
\* bind_session).
THEOREM ServiceKeepsPromise == Spec => ServesPromise
<1>1. Init => Promise!Init
  BY DEF Init, Promise!Init, Bootstrapped, Promise!Bootstrapped, Unbound, Promise!Unbound,
         NotBegun, NotDone, Promise!NotBegun
<1> QED
  BY <1>1, StepIsPromised, ControlInvariant, PTL DEF Spec, ServesPromise, Promise!Spec, Promise!vars
=============================================================================
