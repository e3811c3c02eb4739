------------------------- MODULE RecoverySweepProofs -------------------------
(***************************************************************************)
(* The recovery sweep is complete and bounded, for every set of admissions *)
(* and every page size.                                                    *)
(***************************************************************************)
EXTENDS RecoverySweep, TLAPS

LEMMA InitInvariant ==
  ASSUME Init
  PROVE  IInv
<1>0. restarts \in 0..MaxRestarts
  BY SweepAssumption DEF Init
<1>1. TypeOK
  BY <1>0 DEF Init, TypeOK
<1>2. Unresolved = {}
  BY DEF Init, Unresolved
<1>3. SeqInv
  BY DEF Init, SeqInv
<1>4. CursorInv
  BY <1>2 DEF Init, CursorInv, Sweeping
<1> QED
  BY <1>1, <1>3, <1>4 DEF IInv

(* What a page takes out of the pending rows. *)
LEMMA PageSteps ==
  ASSUME IInv, NextPage
  PROVE  /\ page' \subseteq Pending
         /\ TailPage => page' = Pending
         /\ FullPage => \E c \in Nat :
              /\ cursor' = c /\ through' = through /\ cursor < c /\ c <= through
              /\ \A a \in page' : seq[a] <= c
              /\ \A b \in Pending \ page' : c < seq[b]
<1>1. Listing(page')
  BY DEF NextPage
<1>2. page' \subseteq Pending
  BY <1>1 DEF Listing
<1>3. ASSUME TailPage PROVE page' = Pending
  BY <1>1, <1>3 DEF Listing, TailPage
<1>4. ASSUME FullPage
      PROVE  \E c \in Nat :
              /\ cursor' = c /\ through' = through /\ cursor < c /\ c <= through
              /\ \A a \in page' : seq[a] <= c
              /\ \A b \in Pending \ page' : c < seq[b]
  <2>1. PICK a \in page' : (\A b \in page' : seq[b] <= seq[a]) /\ cursor' = seq[a]
    BY <1>4 DEF FullPage
  <2>2. a \in Pending
    BY <1>2, <2>1
  <2>3. a \in Admissions /\ cursor < seq[a] /\ seq[a] <= through
    BY <2>2 DEF Pending, Unresolved
  <2>4. seq[a] \in Nat
    BY <2>3 DEF IInv, TypeOK
  <2>5. \A b \in Pending \ page' : seq[a] < seq[b]
    BY <1>1, <2>1 DEF Listing
  <2> QED
    BY <1>4, <2>1, <2>3, <2>4, <2>5 DEF FullPage
<1> QED
  BY <1>2, <1>3, <1>4

LEMMA TypeStep ==
  ASSUME TypeOK, IInv, [Next]_vars
  PROVE  TypeOK'
<1> USE DEF TypeOK, admissionVars, sweepVars, ghostVars
<1>1. ASSUME NEW a \in Admissions, Insert(a) \/ EndInsert(a) \/ Resolve(a) PROVE TypeOK'
  BY <1>1 DEF Insert, EndInsert, Resolve
<1>2. CASE StartSweep
  BY <1>2 DEF StartSweep, Unresolved
<1>3. CASE NextPage
  <2>1. cursor' \in Nat /\ through' \in Nat
    <3>1. CASE FullPage
      BY <1>3, <3>1, PageSteps
    <3>2. CASE TailPage
      BY <3>2 DEF TailPage
    <3> QED
      BY <1>3, <3>1, <3>2 DEF NextPage
  <2>2. page' \subseteq Admissions
    BY <1>3 DEF NextPage
  <2> QED
    BY <1>3, <2>1, <2>2 DEF NextPage
<1>4. CASE Restart
  <2>1. restarts' \in 0..MaxRestarts
    BY <1>4, SweepAssumption DEF Restart
  <2> QED
    BY <1>4, <2>1 DEF Restart
<1>5. CASE UNCHANGED vars
  BY <1>5 DEF vars
<1> QED
  BY <1>1, <1>2, <1>3, <1>4, <1>5 DEF Next, Sweep

LEMMA SeqStep ==
  ASSUME IInv, [Next]_vars
  PROVE  SeqInv'
<1> USE DEF IInv, TypeOK, SeqInv, Unresolved
<1>1. ASSUME NEW a \in Admissions, Insert(a) PROVE SeqInv'
  BY <1>1 DEF Insert
<1>2. ASSUME NEW a \in Admissions, EndInsert(a) \/ Resolve(a) PROVE SeqInv'
  BY <1>2 DEF EndInsert, Resolve
<1>3. CASE StartSweep \/ NextPage \/ Restart \/ UNCHANGED vars
  BY <1>3 DEF StartSweep, NextPage, Restart, vars, admissionVars
<1> QED
  BY <1>1, <1>2, <1>3 DEF Next, Sweep

LEMMA CursorStep ==
  ASSUME IInv, [Next]_vars
  PROVE  CursorInv'
<1> USE DEF IInv, TypeOK, SeqInv, CursorInv, Sweeping
<1>1. ASSUME NEW a \in Admissions, Insert(a) PROVE CursorInv'
  BY <1>1 DEF Insert, Unresolved, sweepVars, ghostVars
<1>2. ASSUME NEW a \in Admissions, EndInsert(a) PROVE CursorInv'
  BY <1>2 DEF EndInsert, Unresolved, sweepVars, ghostVars
<1>3. ASSUME NEW a \in Admissions, Resolve(a) PROVE CursorInv'
  BY <1>3 DEF Resolve, Unresolved, sweepVars
<1>4. CASE StartSweep
  <2>1. due' = Unresolved /\ Unresolved' = Unresolved
    BY <1>4 DEF StartSweep, Unresolved, admissionVars
  <2>2. cursor' = 0 /\ listed' = {} /\ seq' = seq
    BY <1>4 DEF StartSweep, admissionVars
  <2>3. through' \in Nat /\ \A a \in Unresolved : seq[a] <= through'
    BY <1>4 DEF StartSweep, HighWater
  <2>4. \A a \in Unresolved : ~(seq[a] <= 0)
    BY DEF Unresolved
  <2> QED
    BY <2>1, <2>2, <2>3, <2>4
<1>5. CASE NextPage
  <2>1. due' = due /\ Unresolved' = Unresolved /\ seq' = seq /\ marking' = FALSE
    BY <1>5 DEF NextPage, Unresolved, admissionVars
  <2>n. phase' = phase /\ \A a \in listed' : phase[a] # "new"
    BY <1>5, PageSteps DEF NextPage, admissionVars, Pending, Unresolved
  <2>2. CASE TailPage
    BY <2>1, <2>2, <2>n DEF TailPage
  <2>3. CASE FullPage
    <3>1. PICK c \in Nat :
            /\ cursor' = c /\ through' = through /\ cursor < c /\ c <= through
            /\ \A a \in page' : seq[a] <= c
            /\ \A b \in Pending \ page' : c < seq[b]
      BY <1>5, <2>3, PageSteps
    <3>2. Sweeping /\ listed' = listed \cup page'
      BY <1>5 DEF NextPage
    <3>3. \A a \in listed' : seq[a] <= c
      BY <3>1, <3>2
    <3>4. ASSUME NEW a \in due, seq[a] <= c PROVE a \in listed'
      <4>1. CASE seq[a] <= cursor
        BY <3>2, <4>1
      <4>2. CASE ~(seq[a] <= cursor)
        <5>1. a \in Pending
          BY <3>2, <4>2 DEF Pending, Unresolved
        <5> QED
          BY <3>1, <3>2, <3>4, <5>1
      <4> QED
        BY <4>1, <4>2
    <3>5. ~Sweeping' => FALSE
      BY <3>1
    <3> QED
      BY <2>1, <2>n, <3>1, <3>2, <3>3, <3>4, <3>5
  <2> QED
    BY <1>5, <2>2, <2>3 DEF NextPage
<1>6. CASE Restart
  BY <1>6 DEF Restart, Unresolved, admissionVars
<1>7. CASE UNCHANGED vars
  BY <1>7 DEF vars, admissionVars, sweepVars, ghostVars, Unresolved
<1> QED
  BY <1>1, <1>2, <1>3, <1>4, <1>5, <1>6, <1>7 DEF Next, Sweep

(* While a sweep is under way its cursor separates what it has listed from  *)
(* what it has still to list.                                               *)
THEOREM InvariantHolds == Spec => []IInv
<1>1. IInv /\ [Next]_vars => IInv'
  BY TypeStep, SeqStep, CursorStep DEF IInv
<1> QED
  BY InitInvariant, <1>1, PTL DEF Spec

(* A completed sweep has listed every admission that was unresolved when it *)
(* began and still is (BoundedRecoverySweep).                               *)
THEOREM CompleteSweep == Spec => SweepIsComplete
<1>1. ASSUME IInv, [NextPage /\ TailPage]_vars, NextPage /\ TailPage
      PROVE  due \subseteq listed'
  <2>1. Sweeping /\ listed' = listed \cup Pending
    BY <1>1, PageSteps DEF NextPage, Sweeping
  <2>2. ASSUME NEW a \in due, ~(seq[a] <= cursor) PROVE a \in Pending
    BY <1>1, <2>1, <2>2 DEF Pending, IInv, TypeOK, CursorInv, Unresolved
  <2> QED
    BY <1>1, <2>1, <2>2 DEF IInv, CursorInv
<1>2. IInv /\ [Next]_vars => [NextPage /\ TailPage => due \subseteq listed']_vars
  BY <1>1
<1> QED
  BY InvariantHolds, <1>2, PTL DEF Spec, SweepIsComplete

(* A sweep lists an admission once at most, in admit_seq order, and nothing *)
(* beyond its mark (list_unresolved).                                       *)
THEOREM BoundedSweep == Spec => SweepIsBounded
<1>1. ASSUME IInv, NextPage, NEW a \in page'
      PROVE  /\ a \notin listed
             /\ \A b \in listed : seq[b] < seq[a]
             /\ seq[a] <= through
  <2>1. Sweeping /\ a \in Pending
    BY <1>1, PageSteps DEF NextPage, Sweeping
  <2>2. cursor < seq[a] /\ seq[a] <= through /\ seq[a] \in Nat
    BY <1>1, <2>1 DEF Pending, Unresolved, IInv, TypeOK
  <2>3. \A b \in listed : seq[b] <= cursor /\ seq[b] \in Nat
    BY <1>1, <2>1 DEF IInv, TypeOK, CursorInv
  <2> QED
    BY <1>1, <2>2, <2>3 DEF IInv, TypeOK
<1>2. IInv /\ [Next]_vars =>
        [NextPage => \A a \in page' :
           /\ a \notin listed
           /\ \A b \in listed : seq[b] < seq[a]
           /\ seq[a] <= through]_vars
  BY <1>1
<1> QED
  BY InvariantHolds, <1>2, PTL DEF Spec, SweepIsBounded
=============================================================================
