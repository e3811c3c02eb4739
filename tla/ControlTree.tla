----------------------------- MODULE ControlTree -----------------------------
(***************************************************************************)
(* The project aggregate of the control context registry: one tree of      *)
(* contexts with a default context, the operations a directive may apply   *)
(* to it, and what a project must satisfy before it is written. Labels,    *)
(* objectives, evidence, compatibility flags and fingerprints are left     *)
(* out: a directive that the code refuses for one of them is a call that   *)
(* fails (ControlState).                                                   *)
(***************************************************************************)
EXTENDS Naturals, Sequences

CONSTANTS
  Contexts,   \* context_id
  Root,       \* the context that bootstrap creates
  NoContext   \* no parent, no binding

ASSUME ContextAssumption == Root \in Contexts /\ NoContext \notin Contexts

\* Lifecycle and disposition together. RETURNED is pending its join; JOINED is
\* a RETURNED context with a final disposition, which no stored project has.
Lives == {"ABSENT", "OPEN", "RETURNED", "JOINED", "CLOSED", "CANCELLED"}

\* hold: whether a context has a stable_unknown envelope. LIFTED is a context
\* that has one and is no longer in SAFE_HOLD, which no stored project has.
Holds == {"NONE", "PARKED", "LIFTED"}
Projects == [rev : Nat, default : Contexts, life : [Contexts -> Lives],
             parent : [Contexts -> Contexts \cup {NoContext}],
             hold : [Contexts -> Holds]]

\* The project as bootstrap leaves it: its root, open and the default.
Bootstrapped ==
  [rev |-> 1, default |-> Root,
   hold |-> [c \in Contexts |-> "NONE"],
   life |-> [c \in Contexts |-> IF c = Root THEN "OPEN" ELSE "ABSENT"],
   parent |-> [c \in Contexts |-> NoContext]]

IsOpen(p, c) == p.life[c] = "OPEN"
Unresolved(p, c) == p.life[c] \in {"OPEN", "RETURNED"}

\* The parent chain of c, c included: the least set that holds c and the
\* parent of every member.
Ancestors(p, c) ==
  {a \in Contexts : \A S \in SUBSET Contexts :
     (c \in S /\ \A x \in S : p.parent[x] \in S \cup {NoContext}) => a \in S}

Descendants(p, c) == {d \in Contexts \ {c} : c \in Ancestors(p, d)}

\* a is where a session whose focus was c is put: the first open context on
\* the chain of c, or the default when there is none.
IsNearestOpen(p, c, a) ==
  LET open == {x \in Ancestors(p, c) : IsOpen(p, x)} IN
  /\ IsOpen(p, a)
  /\ IF open = {} THEN a = p.default
     ELSE a \in open /\ open \subseteq Ancestors(p, a)

-----------------------------------------------------------------------------
(* Operations. ctx: the context operated on; at: the parent of a created    *)
(* context, the return target of a returned one; from: the source of a      *)
(* derived one. SET_CONTROL_CONDITION sets a condition other than SAFE_HOLD. *)

NextLife == [CREATE_CHILD |-> "OPEN", CREATE_DERIVED_CONTEXT |-> "OPEN",
             RETURN_CONTEXT |-> "RETURNED", APPLY_JOIN_DISPOSITION |-> "JOINED",
             CLOSE_CONTEXT |-> "CLOSED", CANCEL_CONTEXT |-> "CANCELLED"]
Creations == {"CREATE_CHILD", "CREATE_DERIVED_CONTEXT"}
Endings == {"RETURN_CONTEXT", "CANCEL_CONTEXT"}
ProjectOperations ==
  (DOMAIN NextLife) \cup {"SET_CONTROL_CONDITION", "PARK_STABLE_UNKNOWN",
     "REOPEN_STABLE_UNKNOWN", "REFRESH_GOVERNING_REFS", "SET_DEFAULT_CONTEXT"}
Operations == [op : ProjectOperations, ctx : Contexts, at : Contexts, from : Contexts]

MayCreate(p, o) ==
  /\ p.life[o.ctx] = "ABSENT"
  /\ IsOpen(p, o.at)
  /\ o.op = "CREATE_DERIVED_CONTEXT" => p.life[o.from] \notin {"ABSENT", "OPEN"}

\* Only what waits for its join is looked for.
MutantCleanBelow(p, c) == \A d \in Descendants(p, c) : p.life[d] # "RETURNED"

\* Nothing below c is open or waits for its join.
CleanBelow(p, c) == \A d \in Descendants(p, c) : ~Unresolved(p, d)

MayEnd(p, o) ==
  /\ IsOpen(p, o.ctx)
  /\ p.parent[o.ctx] # NoContext
  /\ CleanBelow(p, o.ctx)
  /\ o.op = "RETURN_CONTEXT" => IsOpen(p, o.at)

MayTouch(p, o) ==
  /\ IsOpen(p, o.ctx)
  /\ o.op = "REOPEN_STABLE_UNKNOWN" => p.hold[o.ctx] = "PARKED"
  /\ o.op = "SET_DEFAULT_CONTEXT" => p.default # o.ctx

Legal(p, o) ==
  \/ o.op \in Creations /\ MayCreate(p, o)
  \/ o.op \in Endings /\ MayEnd(p, o)
  \/ o.op = "APPLY_JOIN_DISPOSITION" /\ p.life[o.ctx] = "RETURNED"
  \/ o.op = "CLOSE_CONTEXT" /\ p.life[o.ctx] \in {"RETURNED", "JOINED"}
  \/ o.op \notin DOMAIN NextLife /\ MayTouch(p, o)

After(p, o) ==
  [p EXCEPT
     !.life[o.ctx] = IF o.op \in DOMAIN NextLife THEN NextLife[o.op] ELSE @,
     !.parent[o.ctx] = IF o.op \in Creations THEN o.at ELSE @,
     !.default = IF o.op = "SET_DEFAULT_CONTEXT" THEN o.ctx ELSE @,
     !.hold[o.ctx] = CASE o.op = "PARK_STABLE_UNKNOWN" -> "PARKED"
                       [] o.op = "REOPEN_STABLE_UNKNOWN" -> "NONE"
                       [] o.op = "SET_CONTROL_CONDITION" /\ @ # "NONE" -> "LIFTED"
                       [] OTHER -> @]

\* What is checked before a project is written, and whenever one is read.
ValidProject(p) ==
  /\ IsOpen(p, p.default)
  /\ \A c \in Contexts : p.life[c] # "JOINED"
  /\ \A c \in Contexts : p.hold[c] \in {"NONE", "PARKED"}
  /\ \A c \in Contexts : p.hold[c] = "PARKED" => IsOpen(p, c)
  /\ \E r \in Contexts : \A c \in Contexts :
       (p.life[c] # "ABSENT" /\ p.parent[c] = NoContext) <=> c = r

-----------------------------------------------------------------------------
(* What any sequence of operations keeps.                                   *)

\* A context that is open or waits for its join is below an open one.
BranchesHang(p) ==
  \A c \in Contexts : p.parent[c] # c /\
    (Unresolved(p, c) /\ p.parent[c] # NoContext => IsOpen(p, p.parent[c]))

\* Nothing that ended is open again, nothing is forgotten or moved.
Continues(p, p2) ==
  \A c \in Contexts : p.life[c] # "ABSENT" =>
    /\ p2.parent[c] = p.parent[c]
    /\ p2.life[c] # "ABSENT"
    /\ p.life[c] \in {"CLOSED", "CANCELLED"} => p2.life[c] = p.life[c]
    /\ p.life[c] \in {"RETURNED", "JOINED"} => p2.life[c] \in {"RETURNED", "JOINED", "CLOSED"}
=============================================================================
