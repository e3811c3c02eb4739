--------------------------- MODULE AdmissionFence ---------------------------
(***************************************************************************)
(* The admission fence: PgAdmissionStore.admit decides, in one READ        *)
(* COMMITTED transaction, whether a batch may become a FENCED admission,   *)
(* while the owner of its delegation and approval changes them in          *)
(* transactions of its own. The fence holds FOR SHARE locks on the two     *)
(* owner rows until it commits; the owner's UPDATE waits for them. One     *)
(* idempotency key, global to all scopes, makes one admission.             *)
(*                                                                         *)
(* A spec stands for everything its digest covers, so two digests are      *)
(* equal iff the specs are. The static refusals (malformed spec, wrong     *)
(* actor, operation, target or version out of scope) depend on the request *)
(* alone; the specs here pass them.                                        *)
(***************************************************************************)
EXTENDS Naturals

CONSTANTS
  Requesters,    \* threads that call admit, one store each
  ScopeOf,       \* [Requesters -> scopes]: the scope_ref of its store
  Specs,         \* batch specs
  KeyOf,         \* [Specs -> idempotency keys]
  DelegationOf,  \* [Specs -> Delegations]
  RevisionOf,    \* [Specs -> Nat]: delegation_revision the spec names
  GenerationOf,  \* [Specs -> Nat]: actor_generation the spec names
  ApprovalOf,    \* [Specs -> Approvals]
  Delegations, Approvals,
  Sessions,      \* concurrent owner-side transactions
  Generations,   \* the values amend may set
  MaxTicks       \* bound on owner mutations

ASSUME FenceAssumption ==
  /\ DelegationOf \in [Specs -> Delegations]
  /\ ApprovalOf \in [Specs -> Approvals]
  /\ RevisionOf \in [Specs -> Nat] /\ GenerationOf \in [Specs -> Nat]
  /\ Generations \subseteq Nat
  /\ {} \notin {Specs, Delegations, Approvals, Generations}
  /\ MaxTicks \in Nat

VARIABLES
  delegation,  \* [Delegations -> row of the owner's delegation table]
  approved,    \* the approvals whose status is APPROVED
  lapsed,      \* delegations whose expires_at the clock has passed
  tick,        \* the owner's sequence (nextval, never rolled back)
  session,     \* [Sessions -> the owner mutation under way]
  admitted,    \* committed admissions
  tx,          \* [Requesters -> the admit call under way]
  reply        \* [Requesters -> its last answer]

ownerVars == <<delegation, approved, lapsed, tick, session>>
fenceVars == <<admitted, tx, reply>>
vars == <<ownerVars, fenceVars>>

Rows == [status: {"ACTIVE", "REVOKED", "EXPIRED"}, revision: Nat,
         generation: Nat, currentness: Nat]

(* An admission and the owner's currentness it was fenced at. *)
Records == [spec: Specs, scope: {ScopeOf[w] : w \in Requesters}, currentness: Nat]

Txs == [pc: {"idle", "delegation", "approval", "insert", "commit"},
        spec: Specs, seen: Rows]

Ops == {"idle", "REVOKE", "EXPIRE", "AMEND", "WITHDRAW_APPROVAL"}
OwnerTxs == [op: Ops, delegation: Delegations, approval: Approvals,
             generation: Generations, n: Nat]

Kinds == {"none", "FENCED_ONCE", "EXACT_REPLAY", "IDEMPOTENCY_KEY_CONFLICT",
          "IDEMPOTENCY_KEY_BELONGS_TO_ANOTHER_SCOPE", "DELEGATION_NOT_CURRENT",
          "APPROVAL_NOT_ACTIVE", "ADMISSION_COMMIT_NOT_CONFIRMED",
          "ADMISSION_STORAGE_ERROR"}

FreshRow == [status |-> "ACTIVE", revision |-> 1, generation |-> 1, currentness |-> 0]
IdleTx == [pc |-> "idle", spec |-> CHOOSE s \in Specs : TRUE, seen |-> FreshRow]
IdleOwner == [op |-> "idle", delegation |-> CHOOSE d \in Delegations : TRUE,
              approval |-> CHOOSE p \in Approvals : TRUE,
              generation |-> CHOOSE g \in Generations : TRUE, n |-> 0]

TypeOK ==
  /\ delegation \in [Delegations -> Rows]
  /\ approved \subseteq Approvals
  /\ lapsed \subseteq Delegations
  /\ tick \in 0..MaxTicks
  /\ session \in [Sessions -> OwnerTxs]
  /\ admitted \subseteq Records
  /\ tx \in [Requesters -> Txs]
  /\ reply \in [Requesters -> [kind: Kinds, spec: Specs]]

Init ==
  /\ delegation = [d \in Delegations |-> FreshRow]
  /\ approved = Approvals /\ lapsed = {}
  /\ tick = 0
  /\ session = [o \in Sessions |-> IdleOwner]
  /\ admitted = {}
  /\ tx = [w \in Requesters |-> IdleTx]
  /\ reply = [w \in Requesters |-> [kind |-> "none", spec |-> IdleTx.spec]]

-----------------------------------------------------------------------------
(* Mutant: the owner's row is read without FOR SHARE. *)
MutantReadsUnlocked(w, d) == FALSE

(* Row locks. Both are held from the read to the end of the transaction. *)
SharesDelegation(w, d) ==
  tx[w].pc \in {"approval", "insert", "commit"} /\ DelegationOf[tx[w].spec] = d
SharesApproval(w, p) ==
  tx[w].pc \in {"insert", "commit"} /\ ApprovalOf[tx[w].spec] = p

(* The transaction ends, with its answer; its locks go with it. *)
End(w, kind) ==
  /\ tx' = [tx EXCEPT ![w] = IdleTx]
  /\ reply' = [reply EXCEPT ![w] = [kind |-> kind, spec |-> tx[w].spec]]

ByKey(s) == {r \in admitted : KeyOf[r.spec] = KeyOf[s]}

(* Mutant: an equal digest is replayed to any scope. *)
MutantReplaysAcrossScopes(r, s, scope) ==
  IF r.spec = s THEN "EXACT_REPLAY" ELSE "IDEMPOTENCY_KEY_CONFLICT"

(* _replay_or_conflict: another scope's admission is never replayed. *)
ReplayOrConflict(r, s, scope) ==
  IF r.scope # scope THEN "IDEMPOTENCY_KEY_BELONGS_TO_ANOTHER_SCOPE"
  ELSE IF r.spec # s THEN "IDEMPOTENCY_KEY_CONFLICT" ELSE "EXACT_REPLAY"

(* The request begins: a first look for its key, without a lock. *)
Begin(w, s) ==
  /\ tx[w].pc = "idle"
  /\ IF ByKey(s) = {}
     THEN /\ tx' = [tx EXCEPT ![w] = [IdleTx EXCEPT !.pc = "delegation", !.spec = s]]
          /\ UNCHANGED reply
     ELSE \E r \in ByKey(s) :
            /\ reply' = [reply EXCEPT ![w] =
                 [kind |-> ReplayOrConflict(r, s, ScopeOf[w]), spec |-> s]]
            /\ UNCHANGED tx
  /\ UNCHANGED <<ownerVars, admitted>>

(* SELECT ... FOR SHARE of the delegation row. *)
LockDelegation(w) ==
  /\ tx[w].pc = "delegation"
  /\ tx' = [tx EXCEPT ![w] = [pc |-> "approval", spec |-> @.spec,
                              seen |-> delegation[DelegationOf[@.spec]]]]
  /\ UNCHANGED <<ownerVars, admitted, reply>>

(* _check, on the row read under the lock and on the clock. *)
DelegationCurrent(row, s, late) ==
  /\ row.status = "ACTIVE" /\ ~late
  /\ row.revision = RevisionOf[s]
  /\ row.generation = GenerationOf[s]

(* SELECT ... FOR SHARE of the approval row, and the check of both. *)
LockApproval(w) ==
  /\ tx[w].pc = "approval"
  /\ LET s == tx[w].spec
     IN IF ~DelegationCurrent(tx[w].seen, s, DelegationOf[s] \in lapsed)
        THEN End(w, "DELEGATION_NOT_CURRENT")
        ELSE IF ApprovalOf[s] \notin approved
        THEN End(w, "APPROVAL_NOT_ACTIVE")
        ELSE tx' = [tx EXCEPT ![w].pc = "insert"] /\ UNCHANGED reply
  /\ UNCHANGED <<ownerVars, admitted>>

(* Mutant: the key is looked up, not unique in the table. *)
MutantNoUniqueKey(w) == FALSE

(* INSERT ... ON CONFLICT DO NOTHING waits for a transaction that has       *)
(* inserted the key and not ended. The loser reads the committed winner.    *)
KeyUndecided(w) ==
  \E v \in Requesters \ {w} :
    tx[v].pc = "commit" /\ KeyOf[tx[v].spec] = KeyOf[tx[w].spec]

Insert(w) ==
  /\ tx[w].pc = "insert"
  /\ ~KeyUndecided(w)
  /\ IF ByKey(tx[w].spec) = {}
     THEN tx' = [tx EXCEPT ![w].pc = "commit"] /\ UNCHANGED reply
     ELSE \E r \in ByKey(tx[w].spec) :
            End(w, ReplayOrConflict(r, tx[w].spec, ScopeOf[w]))
  /\ UNCHANGED <<ownerVars, admitted>>

Admission(w) ==
  [spec |-> tx[w].spec, scope |-> ScopeOf[w], currentness |-> tx[w].seen.currentness]

Commit(w) ==
  /\ tx[w].pc = "commit"
  /\ admitted' = admitted \cup {Admission(w)}
  /\ End(w, "FENCED_ONCE")
  /\ UNCHANGED ownerVars

(* COMMIT raises: durable or not, the request is denied. *)
CommitNotConfirmed(w) ==
  /\ tx[w].pc = "commit"
  /\ admitted' \in {admitted, admitted \cup {Admission(w)}}
  /\ End(w, "ADMISSION_COMMIT_NOT_CONFIRMED")
  /\ UNCHANGED ownerVars

(* A lock or statement timeout, a broken connection, the death of the       *)
(* requester's process: the transaction is rolled back.                     *)
Abort(w) ==
  /\ tx[w].pc # "idle"
  /\ End(w, "ADMISSION_STORAGE_ERROR")
  /\ UNCHANGED <<ownerVars, admitted>>

-----------------------------------------------------------------------------
(* The owner: a tick of its sequence, then the UPDATE, which waits for the  *)
(* locks of the fence, and the commit.                                      *)
OwnerBegin(o) ==
  /\ session[o].op = "idle"
  /\ tick < MaxTicks
  /\ tick' = tick + 1
  /\ \E op \in Ops \ {"idle"}, d \in Delegations, p \in Approvals, g \in Generations :
       session' = [session EXCEPT ![o] = [op |-> op, delegation |-> d, approval |-> p,
                                          generation |-> g, n |-> tick + 1]]
  /\ UNCHANGED <<delegation, approved, lapsed, fenceVars>>

UpdatedRow(row, s) ==
  [status |-> CASE s.op = "REVOKE" -> "REVOKED"
                [] s.op = "EXPIRE" -> "EXPIRED"
                [] OTHER -> row.status,
   revision |-> row.revision + 1,
   generation |-> IF s.op = "AMEND" THEN s.generation ELSE row.generation,
   currentness |-> s.n]

(* revoke, expire, amend: every one of them moves the revision. *)
UpdateDelegation(o) ==
  /\ session[o].op \in {"REVOKE", "EXPIRE", "AMEND"}
  /\ \A w \in Requesters : ~SharesDelegation(w, session[o].delegation)
  /\ delegation' = [delegation EXCEPT ![session[o].delegation] = UpdatedRow(@, session[o])]
  /\ session' = [session EXCEPT ![o] = IdleOwner]
  /\ UNCHANGED <<approved, lapsed, tick, fenceVars>>

WithdrawApproval(o) ==
  /\ session[o].op = "WITHDRAW_APPROVAL"
  /\ \A w \in Requesters : ~SharesApproval(w, session[o].approval)
  /\ approved' = approved \ {session[o].approval}
  /\ session' = [session EXCEPT ![o] = IdleOwner]
  /\ UNCHANGED <<delegation, lapsed, tick, fenceVars>>

Lapse(d) ==
  /\ d \notin lapsed
  /\ lapsed' = lapsed \cup {d}
  /\ UNCHANGED <<delegation, approved, tick, session, fenceVars>>

-----------------------------------------------------------------------------
Admit(w) ==
  \/ \E s \in Specs : Begin(w, s)
  \/ LockDelegation(w) \/ LockApproval(w) \/ Insert(w)
  \/ Commit(w) \/ CommitNotConfirmed(w) \/ Abort(w)

Mutate(o) == OwnerBegin(o) \/ UpdateDelegation(o) \/ WithdrawApproval(o)

Next ==
  \/ \E w \in Requesters : Admit(w)
  \/ \E o \in Sessions : Mutate(o)
  \/ \E d \in Delegations : Lapse(d)

Spec == Init /\ [][Next]_vars

-----------------------------------------------------------------------------
(* An admission becomes durable only while the owner's rows still allow it: *)
(* a revocation, an expiry, an amendment or a withdrawal is strictly before *)
(* the fence, which then refuses, or strictly after its commit (admit).     *)
FenceIsCurrent ==
  [][\A r \in admitted' \ admitted :
       /\ delegation[DelegationOf[r.spec]].status = "ACTIVE"
       /\ delegation[DelegationOf[r.spec]].revision = RevisionOf[r.spec]
       /\ delegation[DelegationOf[r.spec]].generation = GenerationOf[r.spec]
       /\ delegation[DelegationOf[r.spec]].currentness = r.currentness
       /\ ApprovalOf[r.spec] \in approved]_vars

(* One admission per idempotency key, whatever requests race in whatever    *)
(* scopes (UNIQUE(idempotency_key), ON CONFLICT DO NOTHING).                *)
OneAdmissionPerKey ==
  \A r, q \in admitted : KeyOf[r.spec] = KeyOf[q.spec] => r = q

(* Each answer about a key is true of the durable admission and stays so:   *)
(* a caller told FENCED or EXACT_REPLAY has its own batch in its own scope, *)
(* and a refused key is held by somebody else, never by the caller's own    *)
(* unconfirmed commit (_replay_or_conflict).                                *)
AnswersAreTrue ==
  \A w \in Requesters :
    LET kind == reply[w].kind
        own  == [spec |-> reply[w].spec, scope |-> ScopeOf[w]]
        kept == {[spec |-> r.spec, scope |-> r.scope] : r \in ByKey(reply[w].spec)}
    IN  /\ kind \in {"FENCED_ONCE", "EXACT_REPLAY"} => kept = {own}
        /\ kind \in {"IDEMPOTENCY_KEY_CONFLICT",
                     "IDEMPOTENCY_KEY_BELONGS_TO_ANOTHER_SCOPE"} =>
             kept # {} /\ own \notin kept

(* The inductive invariant behind the first two: what a transaction has     *)
(* read and checked under its locks is still so, and no two transactions    *)
(* have inserted the same key.                                              *)
LockInv ==
  \A w \in Requesters :
    /\ tx[w].pc \in {"approval", "insert", "commit"} =>
         tx[w].seen = delegation[DelegationOf[tx[w].spec]]
    /\ tx[w].pc \in {"insert", "commit"} =>
         /\ DelegationCurrent(tx[w].seen, tx[w].spec, FALSE)
         /\ ApprovalOf[tx[w].spec] \in approved

KeyInv ==
  \A w \in Requesters : tx[w].pc = "commit" =>
    /\ ByKey(tx[w].spec) = {}
    /\ \A v \in Requesters \ {w} :
         tx[v].pc = "commit" => KeyOf[tx[v].spec] # KeyOf[tx[w].spec]

IInv == TypeOK /\ LockInv /\ KeyInv /\ OneAdmissionPerKey
=============================================================================
