------------------------ MODULE AdmissionFenceProofs ------------------------
(***************************************************************************)
(* The admission fence is atomic with the owner's rows and admits a key    *)
(* once, for every number of stores, scopes, specs and owner sessions.     *)
(***************************************************************************)
EXTENDS AdmissionFence, TLAPS

LEMMA IdleTyped ==
  /\ IdleTx \in Txs /\ IdleTx.pc = "idle" /\ IdleTx.spec \in Specs
  /\ IdleOwner \in OwnerTxs
  /\ FreshRow \in Rows
<1>1. /\ Specs # {} /\ Delegations # {} /\ Approvals # {} /\ Generations # {}
  BY FenceAssumption
<1>2. IdleTx \in Txs /\ IdleTx.pc = "idle" /\ IdleTx.spec \in Specs
  BY <1>1 DEF IdleTx, Txs, FreshRow, Rows
<1>3. IdleOwner \in OwnerTxs
  BY <1>1 DEF IdleOwner, OwnerTxs, Ops
<1> QED
  BY <1>2, <1>3 DEF FreshRow, Rows

LEMMA InitInvariant ==
  ASSUME Init
  PROVE  IInv
<1>1. tick \in 0..MaxTicks
  BY FenceAssumption DEF Init
<1>2. TypeOK
  BY <1>1, IdleTyped DEF Init, TypeOK, Kinds
<1> QED
  BY <1>2, IdleTyped DEF Init, IInv, LockInv, KeyInv, OneAdmissionPerKey

LEMMA TxTyped ==
  ASSUME TypeOK, NEW w \in Requesters
  PROVE  /\ tx[w] \in Txs /\ tx[w].spec \in Specs /\ tx[w].seen \in Rows
         /\ DelegationOf[tx[w].spec] \in Delegations
         /\ ApprovalOf[tx[w].spec] \in Approvals
         /\ Admission(w) \in Records
<1>1. tx[w] \in Txs
  BY DEF TypeOK
<1>2. tx[w].spec \in Specs /\ tx[w].seen \in Rows
  BY <1>1 DEF Txs
<1>3. tx[w].seen.currentness \in Nat
  BY <1>2 DEF Rows
<1> QED
  BY <1>1, <1>2, <1>3, FenceAssumption DEF Admission, Records

LEMMA EndTyped ==
  ASSUME TypeOK, NEW w \in Requesters, NEW kind \in Kinds, End(w, kind)
  PROVE  tx' \in [Requesters -> Txs] /\ reply' \in [Requesters -> [kind: Kinds, spec: Specs]]
BY TxTyped, IdleTyped DEF End, TypeOK

LEMMA ReplayTyped ==
  ASSUME NEW r, NEW s, NEW scope
  PROVE  ReplayOrConflict(r, s, scope) \in Kinds
BY DEF ReplayOrConflict, Kinds

LEMMA TypeStep ==
  ASSUME TypeOK, [Next]_vars
  PROVE  TypeOK'
<1>k. {"FENCED_ONCE", "DELEGATION_NOT_CURRENT", "APPROVAL_NOT_ACTIVE",
       "ADMISSION_COMMIT_NOT_CONFIRMED", "ADMISSION_STORAGE_ERROR"} \subseteq Kinds
  BY DEF Kinds
<1>u. UNCHANGED ownerVars =>
        /\ (delegation \in [Delegations -> Rows])' /\ (approved \subseteq Approvals)'
        /\ (lapsed \subseteq Delegations)' /\ (tick \in 0..MaxTicks)'
        /\ (session \in [Sessions -> OwnerTxs])'
  BY DEF ownerVars, TypeOK
<1>v. UNCHANGED fenceVars =>
        /\ (admitted \subseteq Records)' /\ (tx \in [Requesters -> Txs])'
        /\ (reply \in [Requesters -> [kind: Kinds, spec: Specs]])'
  BY DEF fenceVars, TypeOK
<1>1. ASSUME NEW w \in Requesters, NEW s \in Specs, Begin(w, s) PROVE TypeOK'
  <2>1. [IdleTx EXCEPT !.pc = "delegation", !.spec = s] \in Txs
    BY IdleTyped DEF Txs
  <2>2. tx' \in [Requesters -> Txs]
    BY <1>1, <2>1 DEF Begin, TypeOK
  <2>3. reply' \in [Requesters -> [kind: Kinds, spec: Specs]]
    BY <1>1, ReplayTyped DEF Begin, TypeOK
  <2> QED
    BY <1>1, <1>u, <2>2, <2>3 DEF Begin, TypeOK
<1>2. ASSUME NEW w \in Requesters, LockDelegation(w) PROVE TypeOK'
  <2>1. [pc |-> "approval", spec |-> tx[w].spec,
         seen |-> delegation[DelegationOf[tx[w].spec]]] \in Txs
    BY TxTyped DEF Txs, TypeOK
  <2> QED
    BY <1>2, <1>u, <2>1 DEF LockDelegation, TypeOK
<1>3. ASSUME NEW w \in Requesters, LockApproval(w) PROVE TypeOK'
  <2>1. CASE End(w, "DELEGATION_NOT_CURRENT") \/ End(w, "APPROVAL_NOT_ACTIVE")
    BY <1>3, <1>u, <1>k, <2>1, EndTyped DEF LockApproval, TypeOK
  <2>2. CASE tx' = [tx EXCEPT ![w].pc = "insert"] /\ UNCHANGED reply
    BY <1>3, <1>u, <2>2, TxTyped DEF LockApproval, TypeOK, Txs
  <2> QED
    BY <1>3, <2>1, <2>2 DEF LockApproval
<1>4. ASSUME NEW w \in Requesters, Insert(w) PROVE TypeOK'
  <2>1. CASE \E r \in admitted : End(w, ReplayOrConflict(r, tx[w].spec, ScopeOf[w]))
    BY <1>4, <1>u, <2>1, ReplayTyped, EndTyped DEF Insert, TypeOK
  <2>2. CASE tx' = [tx EXCEPT ![w].pc = "commit"] /\ UNCHANGED reply
    BY <1>4, <1>u, <2>2, TxTyped DEF Insert, TypeOK, Txs
  <2> QED
    BY <1>4, <2>1, <2>2 DEF Insert, ByKey
<1>5. ASSUME NEW w \in Requesters, Commit(w) \/ CommitNotConfirmed(w) PROVE TypeOK'
  <2>1. admitted' \subseteq Records
    BY <1>5, TxTyped DEF Commit, CommitNotConfirmed, TypeOK
  <2>2. PICK kind \in Kinds : End(w, kind)
    BY <1>5, <1>k DEF Commit, CommitNotConfirmed
  <2> QED
    BY <1>5, <1>u, <2>1, <2>2, EndTyped DEF Commit, CommitNotConfirmed, TypeOK
<1>6. ASSUME NEW w \in Requesters, Abort(w) PROVE TypeOK'
  BY <1>6, <1>u, <1>k, EndTyped DEF Abort, TypeOK
<1>7. ASSUME NEW o \in Sessions, OwnerBegin(o) PROVE TypeOK'
  <2>1. tick' \in 0..MaxTicks /\ tick + 1 \in Nat
    BY <1>7, FenceAssumption DEF OwnerBegin, TypeOK
  <2>2. session' \in [Sessions -> OwnerTxs]
    BY <1>7, <2>1 DEF OwnerBegin, TypeOK, OwnerTxs
  <2> QED
    BY <1>7, <1>v, <2>1, <2>2 DEF OwnerBegin, TypeOK
<1>8. ASSUME NEW o \in Sessions, UpdateDelegation(o) PROVE TypeOK'
  <2>1. session[o] \in OwnerTxs
    BY DEF TypeOK
  <2>2. session[o].delegation \in Delegations /\ session[o].n \in Nat
        /\ session[o].generation \in Nat
    BY <2>1, FenceAssumption DEF OwnerTxs
  <2>3. ASSUME NEW row \in Rows PROVE UpdatedRow(row, session[o]) \in Rows
    BY <2>2 DEF UpdatedRow, Rows
  <2>4. delegation' \in [Delegations -> Rows]
    BY <1>8, <2>2, <2>3 DEF UpdateDelegation, TypeOK
  <2>5. session' \in [Sessions -> OwnerTxs]
    BY <1>8, IdleTyped DEF UpdateDelegation, TypeOK
  <2> QED
    BY <1>8, <1>v, <2>4, <2>5 DEF UpdateDelegation, TypeOK
<1>9. ASSUME NEW o \in Sessions, WithdrawApproval(o) PROVE TypeOK'
  <2>1. session' \in [Sessions -> OwnerTxs]
    BY <1>9, IdleTyped DEF WithdrawApproval, TypeOK
  <2> QED
    BY <1>9, <1>v, <2>1 DEF WithdrawApproval, TypeOK
<1>10. ASSUME NEW d \in Delegations, Lapse(d) PROVE TypeOK'
  BY <1>10, <1>v DEF Lapse, TypeOK
<1>11. CASE UNCHANGED vars
  BY <1>11, <1>u, <1>v DEF vars, TypeOK
<1> QED
  BY <1>1, <1>2, <1>3, <1>4, <1>5, <1>6, <1>7, <1>8, <1>9, <1>10, <1>11
  DEF Next, Admit, Mutate

-----------------------------------------------------------------------------
(* One step moves one transaction: what another thread's looks like after   *)
(* it, and what this thread's may be.                                       *)
LEMMA TxSteps ==
  ASSUME TypeOK, [Next]_vars, NEW w \in Requesters
  PROVE  \/ tx'[w] = tx[w]
         \/ tx'[w].pc = "idle"
         \/ tx'[w].pc = "delegation"
         \/ LockDelegation(w)
         \/ LockApproval(w) /\ tx' = [tx EXCEPT ![w].pc = "insert"]
         \/ Insert(w) /\ tx' = [tx EXCEPT ![w].pc = "commit"]
<1>1. ASSUME NEW v \in Requesters, NEW kind, End(v, kind)
      PROVE  tx'[w] = tx[w] \/ tx'[w].pc = "idle"
  BY <1>1, IdleTyped DEF End, TypeOK
<1>2. ASSUME NEW v \in Requesters, NEW s \in Specs, Begin(v, s)
      PROVE  tx'[w] = tx[w] \/ tx'[w].pc = "delegation"
  <2>1. [IdleTx EXCEPT !.pc = "delegation", !.spec = s].pc = "delegation"
    BY IdleTyped DEF Txs
  <2> QED
    BY <1>2, <2>1 DEF Begin, TypeOK
<1>3. ASSUME NEW v \in Requesters, LockDelegation(v)
      PROVE  tx'[w] = tx[w] \/ LockDelegation(w)
  BY <1>3 DEF LockDelegation, TypeOK
<1>4. ASSUME NEW v \in Requesters, LockApproval(v)
      PROVE  \/ tx'[w] = tx[w] \/ tx'[w].pc = "idle"
             \/ LockApproval(w) /\ tx' = [tx EXCEPT ![w].pc = "insert"]
  <2>1. CASE tx' = [tx EXCEPT ![v].pc = "insert"]
    BY <1>4, <2>1 DEF TypeOK
  <2>2. CASE ~(tx' = [tx EXCEPT ![v].pc = "insert"])
    BY <1>4, <1>1, <2>2 DEF LockApproval
  <2> QED
    BY <2>1, <2>2
<1>5. ASSUME NEW v \in Requesters, Insert(v)
      PROVE  \/ tx'[w] = tx[w] \/ tx'[w].pc = "idle"
             \/ Insert(w) /\ tx' = [tx EXCEPT ![w].pc = "commit"]
  <2>1. CASE tx' = [tx EXCEPT ![v].pc = "commit"]
    BY <1>5, <2>1 DEF TypeOK
  <2>2. CASE ~(tx' = [tx EXCEPT ![v].pc = "commit"])
    BY <1>5, <1>1, <2>2 DEF Insert
  <2> QED
    BY <2>1, <2>2
<1>6. ASSUME NEW v \in Requesters, Commit(v) \/ CommitNotConfirmed(v) \/ Abort(v)
      PROVE  tx'[w] = tx[w] \/ tx'[w].pc = "idle"
  BY <1>1, <1>6 DEF Commit, CommitNotConfirmed, Abort
<1>7. ASSUME NEW o \in Sessions, Mutate(o) PROVE tx' = tx
  BY <1>7 DEF Mutate, OwnerBegin, UpdateDelegation, WithdrawApproval, fenceVars
<1>8. (\E d \in Delegations : Lapse(d)) \/ UNCHANGED vars => tx' = tx
  BY DEF Lapse, vars, fenceVars
<1> QED
  BY <1>2, <1>3, <1>4, <1>5, <1>6, <1>7, <1>8 DEF Next, Admit

(* The owner's rows move only when no fence shares them.                    *)
LEMMA RowsStay ==
  ASSUME TypeOK, [Next]_vars, NEW w \in Requesters
  PROVE  /\ SharesDelegation(w, DelegationOf[tx[w].spec]) =>
              delegation'[DelegationOf[tx[w].spec]] = delegation[DelegationOf[tx[w].spec]]
         /\ SharesApproval(w, ApprovalOf[tx[w].spec]) /\ ApprovalOf[tx[w].spec] \in approved =>
              ApprovalOf[tx[w].spec] \in approved'
<1>1. ASSUME NEW o \in Sessions, UpdateDelegation(o),
             SharesDelegation(w, DelegationOf[tx[w].spec])
      PROVE  delegation'[DelegationOf[tx[w].spec]] = delegation[DelegationOf[tx[w].spec]]
  BY <1>1, TxTyped DEF UpdateDelegation, TypeOK
<1>2. ASSUME NEW o \in Sessions, WithdrawApproval(o),
             SharesApproval(w, ApprovalOf[tx[w].spec]), ApprovalOf[tx[w].spec] \in approved
      PROVE  ApprovalOf[tx[w].spec] \in approved'
  BY <1>2 DEF WithdrawApproval
<1>3. CASE UNCHANGED delegation
  BY <1>2, <1>3 DEF Next, Admit, Mutate, Begin, LockDelegation, LockApproval, Insert, Commit,
     CommitNotConfirmed, Abort, OwnerBegin, UpdateDelegation, Lapse, vars, ownerVars
<1>4. CASE ~ UNCHANGED delegation
  <2>1. PICK o \in Sessions : UpdateDelegation(o)
    BY <1>4 DEF Next, Admit, Mutate, Begin, LockDelegation, LockApproval, Insert, Commit,
       CommitNotConfirmed, Abort, OwnerBegin, WithdrawApproval, Lapse, vars, ownerVars
  <2> QED
    BY <1>1, <2>1 DEF UpdateDelegation
<1> QED
  BY <1>3, <1>4

LEMMA LockStep ==
  ASSUME TypeOK, LockInv, [Next]_vars
  PROVE  LockInv'
<1> DEFINE Read(w) == tx[w].pc \in {"approval", "insert", "commit"} =>
                        tx[w].seen = delegation[DelegationOf[tx[w].spec]]
           Checked(w) == tx[w].pc \in {"insert", "commit"} =>
                           /\ DelegationCurrent(tx[w].seen, tx[w].spec, FALSE)
                           /\ ApprovalOf[tx[w].spec] \in approved
<1> SUFFICES ASSUME NEW w \in Requesters PROVE Read(w)' /\ Checked(w)'
  BY DEF LockInv
<1>0. Read(w) /\ Checked(w)
  BY DEF LockInv
<1>a. /\ tx[w].pc \in {"approval", "insert", "commit"} =>
           delegation'[DelegationOf[tx[w].spec]] = delegation[DelegationOf[tx[w].spec]]
      /\ tx[w].pc \in {"insert", "commit"} /\ ApprovalOf[tx[w].spec] \in approved =>
           ApprovalOf[tx[w].spec] \in approved'
  BY RowsStay DEF SharesDelegation, SharesApproval
<1>t. tx[w] \in Txs
  BY TxTyped
<1>1. CASE tx'[w] = tx[w]
  BY <1>0, <1>1, <1>a DEF DelegationCurrent
<1>2. CASE tx'[w].pc = "idle" \/ tx'[w].pc = "delegation"
  BY <1>2
<1>3. CASE LockDelegation(w)
  <2>1. tx'[w] = [pc |-> "approval", spec |-> tx[w].spec,
                  seen |-> delegation[DelegationOf[tx[w].spec]]]
    BY <1>3 DEF LockDelegation, TypeOK
  <2>2. delegation' = delegation
    BY <1>3 DEF LockDelegation, ownerVars
  <2> QED
    BY <2>1, <2>2
<1>4. CASE LockApproval(w) /\ tx' = [tx EXCEPT ![w].pc = "insert"]
  <2>1. /\ tx[w].pc = "approval" /\ tx'[w].pc = "insert"
        /\ tx'[w].spec = tx[w].spec /\ tx'[w].seen = tx[w].seen
        /\ delegation' = delegation /\ approved' = approved
    BY <1>4, <1>t DEF LockApproval, TypeOK, Txs, ownerVars
  <2>2. ~ \E kind \in Kinds : End(w, kind)
    BY <2>1, IdleTyped DEF End, TypeOK
  <2>3. /\ DelegationCurrent(tx[w].seen, tx[w].spec, DelegationOf[tx[w].spec] \in lapsed)
        /\ ApprovalOf[tx[w].spec] \in approved
    BY <1>4, <2>2 DEF LockApproval, Kinds
  <2> QED
    BY <1>0, <2>1, <2>3 DEF DelegationCurrent
<1>5. CASE Insert(w) /\ tx' = [tx EXCEPT ![w].pc = "commit"]
  <2>1. /\ tx[w].pc = "insert"
        /\ tx'[w].spec = tx[w].spec /\ tx'[w].seen = tx[w].seen
        /\ delegation' = delegation /\ approved' = approved
    BY <1>5, <1>t DEF Insert, TypeOK, Txs, ownerVars
  <2> QED
    BY <1>0, <2>1 DEF DelegationCurrent
<1> QED
  BY <1>1, <1>2, <1>3, <1>4, <1>5, TxSteps

-----------------------------------------------------------------------------
(* An admission becomes durable only by the commit that inserted it.        *)
LEMMA AdmittedSteps ==
  ASSUME TypeOK, [Next]_vars
  PROVE  \/ admitted' = admitted
         \/ \E v \in Requesters : /\ tx[v].pc = "commit" /\ tx'[v].pc = "idle"
                                  /\ admitted' = admitted \cup {Admission(v)}
                                  /\ UNCHANGED ownerVars
<1> SUFFICES ASSUME admitted' # admitted
             PROVE  \E v \in Requesters : /\ tx[v].pc = "commit" /\ tx'[v].pc = "idle"
                                          /\ admitted' = admitted \cup {Admission(v)}
                                          /\ UNCHANGED ownerVars
  OBVIOUS
<1>1. PICK v \in Requesters : Commit(v) \/ CommitNotConfirmed(v)
  BY DEF Next, Admit, Mutate, Begin, LockDelegation, LockApproval, Insert, Abort, OwnerBegin,
     UpdateDelegation, WithdrawApproval, Lapse, vars, fenceVars
<1>2. tx'[v].pc = "idle"
  BY <1>1, IdleTyped DEF Commit, CommitNotConfirmed, End, TypeOK
<1> QED
  BY <1>1, <1>2 DEF Commit, CommitNotConfirmed

(* Who has inserted a key after a step had inserted it before, or has just  *)
(* done so, alone.                                                          *)
LEMMA InsertedSteps ==
  ASSUME TypeOK, [Next]_vars, NEW w \in Requesters, tx'[w].pc = "commit"
  PROVE  /\ tx'[w].spec = tx[w].spec
         /\ \/ tx'[w] = tx[w]
            \/ /\ ~KeyUndecided(w) /\ ByKey(tx[w].spec) = {} /\ admitted' = admitted
               /\ \A v \in Requesters \ {w} : tx'[v] = tx[v]
<1>1. CASE tx'[w] = tx[w]
  BY <1>1
<1>2. CASE LockDelegation(w)
  BY <1>2 DEF LockDelegation, TypeOK
<1>3. CASE LockApproval(w) /\ tx' = [tx EXCEPT ![w].pc = "insert"]
  BY <1>3, TxTyped DEF TypeOK, Txs
<1>4. CASE Insert(w) /\ tx' = [tx EXCEPT ![w].pc = "commit"]
  <2>1. tx'[w].spec = tx[w].spec /\ \A v \in Requesters \ {w} : tx'[v] = tx[v]
    BY <1>4, TxTyped DEF TypeOK, Txs
  <2>2. ASSUME NEW kind PROVE ~End(w, kind)
    BY <1>4, IdleTyped DEF End, TypeOK
  <2> QED
    BY <1>4, <2>1, <2>2 DEF Insert
<1> QED
  BY <1>1, <1>2, <1>3, <1>4, TxSteps

LEMMA KeyStep ==
  ASSUME TypeOK, KeyInv, [Next]_vars
  PROVE  KeyInv'
<1> SUFFICES ASSUME NEW w \in Requesters, tx'[w].pc = "commit"
             PROVE  /\ (ByKey(tx[w].spec) = {})'
                    /\ \A v \in Requesters \ {w} :
                         tx'[v].pc = "commit" => KeyOf[tx'[v].spec] # KeyOf[tx'[w].spec]
  BY DEF KeyInv
<1>1. CASE tx'[w] = tx[w]
  <2>1. ASSUME NEW r \in admitted' PROVE KeyOf[r.spec] # KeyOf[tx[w].spec]
    <3>1. CASE r \in admitted
      BY <1>1, <3>1 DEF KeyInv, ByKey
    <3>2. ASSUME NEW v \in Requesters, tx[v].pc = "commit", tx'[v].pc = "idle",
                 r = Admission(v)
          PROVE  KeyOf[r.spec] # KeyOf[tx[w].spec]
      BY <1>1, <3>2 DEF KeyInv, Admission
    <3> QED
      BY <3>1, <3>2, AdmittedSteps
  <2>2. ASSUME NEW v \in Requesters \ {w}, tx'[v].pc = "commit"
        PROVE  KeyOf[tx'[v].spec] # KeyOf[tx'[w].spec]
    <3>1. CASE tx'[v] = tx[v]
      BY <1>1, <2>2, <3>1 DEF KeyInv
    <3>2. CASE ~KeyUndecided(v)
      BY <1>1, <2>2, <3>2, InsertedSteps DEF KeyUndecided
    <3> QED
      BY <2>2, <3>1, <3>2, InsertedSteps
  <2> QED
    BY <1>1, <2>1, <2>2 DEF ByKey
<1>2. CASE /\ ~KeyUndecided(w) /\ ByKey(tx[w].spec) = {} /\ admitted' = admitted
           /\ \A v \in Requesters \ {w} : tx'[v] = tx[v]
  <2>1. tx'[w].spec = tx[w].spec
    BY InsertedSteps
  <2> QED
    BY <1>2, <2>1 DEF ByKey, KeyUndecided
<1> QED
  BY <1>1, <1>2, InsertedSteps

LEMMA OneAdmissionStep ==
  ASSUME TypeOK, KeyInv, OneAdmissionPerKey, [Next]_vars
  PROVE  OneAdmissionPerKey'
<1>1. CASE admitted' = admitted
  BY <1>1 DEF OneAdmissionPerKey
<1>2. ASSUME NEW v \in Requesters, tx[v].pc = "commit",
             admitted' = admitted \cup {Admission(v)}
      PROVE  OneAdmissionPerKey'
  <2>1. \A r \in admitted : KeyOf[r.spec] # KeyOf[Admission(v).spec]
    BY <1>2 DEF KeyInv, ByKey, Admission
  <2> QED
    BY <1>2, <2>1 DEF OneAdmissionPerKey
<1> QED
  BY <1>1, <1>2, AdmittedSteps

(* What a fence has checked is so until it commits, and a key is inserted   *)
(* by one transaction at a time.                                            *)
THEOREM InvariantHolds == Spec => []IInv
<1>1. IInv /\ [Next]_vars => IInv'
  BY TypeStep, LockStep, KeyStep, OneAdmissionStep DEF IInv
<1> QED
  BY InitInvariant, <1>1, PTL DEF Spec

(* One admission per idempotency key, in all scopes (admit).                *)
THEOREM KeyAdmittedOnce == Spec => []OneAdmissionPerKey
<1>1. IInv => OneAdmissionPerKey
  BY DEF IInv
<1> QED
  BY <1>1, InvariantHolds, PTL

(* An admission becomes durable only while the owner's rows allow it: every *)
(* owner mutation is strictly before or strictly after the fence (admit).   *)
THEOREM FenceIsAtomic == Spec => FenceIsCurrent
<1> DEFINE Current(r) ==
      /\ delegation[DelegationOf[r.spec]].status = "ACTIVE"
      /\ delegation[DelegationOf[r.spec]].revision = RevisionOf[r.spec]
      /\ delegation[DelegationOf[r.spec]].generation = GenerationOf[r.spec]
      /\ delegation[DelegationOf[r.spec]].currentness = r.currentness
      /\ ApprovalOf[r.spec] \in approved
<1>1. ASSUME IInv, [Next]_vars, NEW r \in admitted' \ admitted
      PROVE  Current(r)
  <2>1. PICK v \in Requesters : tx[v].pc = "commit" /\ r = Admission(v)
    BY <1>1, AdmittedSteps DEF IInv
  <2>2. /\ tx[v].seen = delegation[DelegationOf[tx[v].spec]]
        /\ DelegationCurrent(tx[v].seen, tx[v].spec, FALSE)
        /\ ApprovalOf[tx[v].spec] \in approved
    BY <1>1, <2>1 DEF IInv, LockInv
  <2> QED
    BY <2>1, <2>2 DEF Admission, DelegationCurrent
<1>2. IInv /\ [Next]_vars => [\A r \in admitted' \ admitted : Current(r)]_vars
  BY <1>1
<1> QED
  BY InvariantHolds, <1>2, PTL DEF Spec, FenceIsCurrent
-----------------------------------------------------------------------------
(* An answer is given for a key that is free, or on the admission that      *)
(* holds it, or by the commit that makes the admission.                     *)
LEMMA ReplySteps ==
  ASSUME TypeOK, [Next]_vars, NEW w \in Requesters
  PROVE  \/ reply'[w] = reply[w]
         \/ reply'[w].kind \in {"DELEGATION_NOT_CURRENT", "APPROVAL_NOT_ACTIVE",
              "ADMISSION_COMMIT_NOT_CONFIRMED", "ADMISSION_STORAGE_ERROR"}
         \/ /\ reply'[w] = [kind |-> "FENCED_ONCE", spec |-> tx[w].spec]
            /\ Admission(w) \in admitted'
         \/ \E s \in Specs : \E r \in ByKey(s) :
              /\ reply'[w] = [kind |-> ReplayOrConflict(r, s, ScopeOf[w]), spec |-> s]
              /\ admitted' = admitted
<1>1. ASSUME NEW v \in Requesters, NEW kind, End(v, kind)
      PROVE  \/ reply'[w] = reply[w]
             \/ v = w /\ reply'[w] = [kind |-> kind, spec |-> tx[w].spec]
  BY <1>1 DEF End, TypeOK
<1>k. ASSUME NEW v \in Requesters, NEW kind, End(v, kind), reply'[w] # reply[w]
      PROVE  reply'[w].kind = kind
  <2>1. reply'[w] = [kind |-> kind, spec |-> tx[w].spec]
    BY <1>1, <1>k
  <2> QED
    BY <2>1
<1>2. ASSUME NEW v \in Requesters, NEW s \in Specs, Begin(v, s), reply'[w] # reply[w]
      PROVE  /\ admitted' = admitted
             /\ \E r \in ByKey(s) :
                  reply'[w] = [kind |-> ReplayOrConflict(r, s, ScopeOf[w]), spec |-> s]
  BY <1>2 DEF Begin, TypeOK
<1>3. ASSUME NEW v \in Requesters, LockApproval(v), reply'[w] # reply[w]
      PROVE  reply'[w].kind \in {"DELEGATION_NOT_CURRENT", "APPROVAL_NOT_ACTIVE"}
  <2>1. End(v, "DELEGATION_NOT_CURRENT") \/ End(v, "APPROVAL_NOT_ACTIVE")
    BY <1>3 DEF LockApproval
  <2> QED
    BY <1>k, <1>3, <2>1
<1>4. ASSUME NEW v \in Requesters, Insert(v), reply'[w] # reply[w]
      PROVE  /\ admitted' = admitted /\ tx[w].spec \in Specs
             /\ \E r \in ByKey(tx[w].spec) :
                  reply'[w] = [kind |-> ReplayOrConflict(r, tx[w].spec, ScopeOf[w]),
                               spec |-> tx[w].spec]
  <2>1. PICK r \in ByKey(tx[v].spec) : End(v, ReplayOrConflict(r, tx[v].spec, ScopeOf[v]))
    BY <1>4 DEF Insert
  <2>2. v = w
    BY <1>1, <1>4, <2>1
  <2> QED
    BY <1>1, <1>4, <2>1, <2>2, TxTyped DEF Insert
<1>5. ASSUME NEW v \in Requesters, Commit(v), reply'[w] # reply[w]
      PROVE  /\ reply'[w] = [kind |-> "FENCED_ONCE", spec |-> tx[w].spec]
             /\ Admission(w) \in admitted'
  BY <1>1, <1>5 DEF Commit
<1>6. ASSUME NEW v \in Requesters, CommitNotConfirmed(v) \/ Abort(v), reply'[w] # reply[w]
      PROVE  reply'[w].kind \in {"ADMISSION_COMMIT_NOT_CONFIRMED", "ADMISSION_STORAGE_ERROR"}
  BY <1>k, <1>6 DEF CommitNotConfirmed, Abort
<1>7. ASSUME \/ \E v \in Requesters : LockDelegation(v)
             \/ \E o \in Sessions : Mutate(o)
             \/ \E d \in Delegations : Lapse(d)
             \/ UNCHANGED vars
      PROVE  reply' = reply
  BY <1>7 DEF LockDelegation, Mutate, OwnerBegin, UpdateDelegation, WithdrawApproval, Lapse,
     vars, fenceVars
<1> QED
  BY <1>2, <1>3, <1>4, <1>5, <1>6, <1>7 DEF Next, Admit

(* Who holds a key holds it for ever, and alone: what is durable for a key  *)
(* never changes again.                                                     *)
LEMMA HeldStays ==
  ASSUME IInv, [Next]_vars, NEW s \in Specs, ByKey(s) # {}
  PROVE  ByKey(s)' = ByKey(s)
<1>1. CASE admitted' = admitted
  BY <1>1 DEF ByKey
<1>2. ASSUME NEW v \in Requesters, tx[v].pc = "commit",
             admitted' = admitted \cup {Admission(v)}
      PROVE  ByKey(s)' = ByKey(s)
  <2>1. KeyOf[Admission(v).spec] # KeyOf[s]
    BY <1>2 DEF IInv, KeyInv, ByKey, Admission
  <2> QED
    BY <1>2, <2>1 DEF ByKey
<1> QED
  BY <1>1, <1>2, AdmittedSteps DEF IInv

(* Each answer about a key is true of the durable admission and stays so    *)
(* (_replay_or_conflict).                                                   *)
LEMMA AnswersStep ==
  ASSUME IInv, IInv', AnswersAreTrue, [Next]_vars
  PROVE  AnswersAreTrue'
<1> DEFINE Taken == {"IDEMPOTENCY_KEY_CONFLICT", "IDEMPOTENCY_KEY_BELONGS_TO_ANOTHER_SCOPE"}
           Own(r) == [spec |-> r.spec, scope |-> r.scope]
           Mine(a, w) == [spec |-> a.spec, scope |-> ScopeOf[w]]
           Kept(s) == {[spec |-> r.spec, scope |-> r.scope] : r \in ByKey(s)}
           Answer(a, w) ==
             /\ a.kind \in {"FENCED_ONCE", "EXACT_REPLAY"} => Kept(a.spec) = {Mine(a, w)}
             /\ a.kind \in Taken => Kept(a.spec) # {} /\ Mine(a, w) \notin Kept(a.spec)
<1> SUFFICES ASSUME NEW w \in Requesters PROVE Answer(reply[w], w)'
  BY DEF AnswersAreTrue
<1>a. reply[w].spec \in Specs /\ tx[w].spec \in Specs
  BY TxTyped DEF IInv, TypeOK
<1>b. Answer(reply[w], w)
  BY DEF AnswersAreTrue
<1>1. CASE reply'[w] = reply[w]
  <2>1. CASE ByKey(reply[w].spec) = {}
    <3>1. Kept(reply[w].spec) = {}
      BY <2>1
    <3>2. reply[w].kind \notin Taken \cup {"FENCED_ONCE", "EXACT_REPLAY"}
      BY <1>b, <3>1
    <3> QED
      BY <1>1, <3>2
  <2>2. CASE ByKey(reply[w].spec) # {}
    <3>1. ByKey(reply[w].spec)' = ByKey(reply[w].spec)
      BY <1>1, <1>a, <2>2, HeldStays
    <3> QED
      BY <1>1, <1>b, <3>1
  <2> QED
    BY <2>1, <2>2
<1>2. CASE reply'[w].kind \in {"DELEGATION_NOT_CURRENT", "APPROVAL_NOT_ACTIVE",
             "ADMISSION_COMMIT_NOT_CONFIRMED", "ADMISSION_STORAGE_ERROR"}
  BY <1>2
<1>3. CASE /\ reply'[w] = [kind |-> "FENCED_ONCE", spec |-> tx[w].spec]
           /\ Admission(w) \in admitted'
  <2>s. PICK s \in Specs : s = tx[w].spec
    BY <1>a
  <2>r. PICK r \in admitted' : r = Admission(w)
    BY <1>3
  <2>1. r.spec = s /\ Own(r) = Mine(reply'[w], w)
    BY <1>3, <2>s, <2>r DEF Admission
  <2>2. ByKey(s)' = {r}
    BY <2>1, <2>r DEF IInv, OneAdmissionPerKey, ByKey
  <2>3. Kept(s)' = {Own(r)}
    BY <2>2
  <2>4. reply'[w].kind = "FENCED_ONCE" /\ reply'[w].spec = s
    BY <1>3, <2>s
  <2> QED
    BY <2>1, <2>3, <2>4
<1>4. ASSUME NEW s \in Specs, NEW r \in ByKey(s),
             reply'[w] = [kind |-> ReplayOrConflict(r, s, ScopeOf[w]), spec |-> s],
             admitted' = admitted
      PROVE  Answer(reply[w], w)'
  <2>1. ByKey(s)' = {r}
    BY <1>4 DEF IInv, OneAdmissionPerKey, ByKey
  <2>2. Kept(s)' = {Own(r)}
    BY <2>1
  <2>3. reply'[w].kind = "EXACT_REPLAY" <=> (r.spec = s /\ r.scope = ScopeOf[w])
    BY <1>4 DEF ReplayOrConflict
  <2>4. Own(r) = Mine(reply'[w], w) <=> (r.spec = s /\ r.scope = ScopeOf[w])
    BY <1>4
  <2>5. reply'[w].kind \in Taken \cup {"EXACT_REPLAY"} /\ reply'[w].spec = s
    BY <1>4 DEF ReplayOrConflict
  <2> QED
    BY <2>2, <2>3, <2>4, <2>5
<1> QED
  BY <1>1, <1>2, <1>3, <1>4, ReplySteps DEF IInv

(* A caller told FENCED_ONCE or EXACT_REPLAY has its own batch in its own   *)
(* scope; one told that the key is taken never meets its own commit, even   *)
(* one it was not told of (_replay_or_conflict).                            *)
THEOREM AnswersTrue == Spec => []AnswersAreTrue
<1>1. ASSUME Init PROVE AnswersAreTrue
  <2>1. \A w \in Requesters : reply[w].kind = "none"
    BY <1>1 DEF Init
  <2> QED
    BY <2>1 DEF AnswersAreTrue
<1>2. IInv /\ [Next]_vars /\ IInv' /\ AnswersAreTrue => AnswersAreTrue'
  BY AnswersStep
<1> QED
  BY <1>1, <1>2, InvariantHolds, PTL DEF Spec
=============================================================================
