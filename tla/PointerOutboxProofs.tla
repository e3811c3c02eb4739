------------------------- MODULE PointerOutboxProofs -------------------------
(***************************************************************************)
(* The outbox never publishes a pointer twice, whatever the duplicate      *)
(* window of the broker, the number of publishers, pointers, retries and   *)
(* crashes, as long as the stalls the code does not measure are short.     *)
(***************************************************************************)
EXTENDS PointerOutbox, FiniteSetTheorems, TLAPS

\* A final stream state answered by the broker is acted upon before an attempt
\* that could still land after it has become stale.
StallsAreShort == WriteStall + PublishTimeout + ReplyStall < ClaimStale

LEMMA IdleIsSound == Sound(Idle) /\ Sound(Idle)'
BY DEF Sound, SoundSnapshot, SoundClaim, SoundAttempt, SoundLookup, Idle, LookingUp

LEMMA IdleIsTyped == Idle \in Workers
BY ConfigAssumption DEF Idle, Workers, RowStates, Recoverable, Settled, Never, StreamStates, NoState

LEMMA InitInvariant ==
  ASSUME Init
  PROVE  IInv
<1>1. TypeOK
  BY IdleIsTyped, ConfigAssumption
     DEF Init, TypeOK, Rows, NoRow, RowStates, Recoverable, Settled, Never
<1>2. \A m \in Messages : NeverSent(m)
  BY DEF Init, NeverSent, Exposed, InFlight, At, Idle
<1>3. RowInv
  BY <1>2 DEF Init, RowInv, NoRow
<1>4. CopyInv /\ AttemptInv
  BY DEF Init, CopyInv, AttemptInv, At, Idle
<1>5. WorkerInv
  BY IdleIsSound DEF Init, WorkerInv
<1> QED
  BY <1>1, <1>3, <1>4, <1>5 DEF IInv

-----------------------------------------------------------------------------
(* A step of one process that only changes what it knows. *)

\* No attempt becomes exposed when no process enters "claimed".
LEMMA NoNewExposure ==
  ASSUME UNCHANGED <<wire, copies>>,
         \A p \in Publishers : At(p, "claimed")' => At(p, "claimed") /\ worker'[p].m = worker[p].m
  PROVE  \A m \in Messages : /\ Exposed(m)' => Exposed(m)
                             /\ NeverSent(m) => NeverSent(m)'
                             /\ InFlight(m)' <=> InFlight(m)
BY DEF Exposed, NeverSent, InFlight, At

\* What a process knows stays true while others claim, send, store and wait.
LEMMA SoundStays ==
  ASSUME NEW w \in Workers, Sound(w), TypeOK, TypeOK',
         \/ now' = now
         \/ /\ now <= now'
            /\ w.pc = "stamped" => now' <= w.at + WriteStall
            /\ w.pc = "absent" => now' <= w.at + ReplyStall,
         last <= last',
         \A m \in Messages :
           /\ copies[m] \subseteq copies'[m]
           /\ \A q \in copies'[m] \ copies[m] : q > last
           /\ \/ /\ row'[m].token = row[m].token
                 /\ row'[m].claimedAt = row[m].claimedAt
                 /\ NeverSent(m) => NeverSent(m)'
              \/ row[m].token < row'[m].token
  PROVE  Sound(w)'
<1>0. w.m \in Messages /\ w.snap \in Nat /\ w.tok \in Nat /\ w.at \in Nat
  BY DEF Workers
<1>1. row[w.m].token \in Nat /\ row'[w.m].token \in Nat /\ now \in Nat /\ now' \in Nat
  BY <1>0 DEF TypeOK, Rows
<1>2. SoundSnapshot(w)'
  BY <1>0, <1>1 DEF Sound, SoundSnapshot
<1>3. SoundClaim(w)'
  BY <1>0, <1>1, ConfigAssumption DEF Sound, SoundSnapshot, SoundClaim
<1>4. SoundAttempt(w)'
  BY <1>0, <1>1 DEF Sound, SoundAttempt
<1>5. SoundLookup(w)'
  <2>1. w.pc = "found" => w.seq \in copies'[w.m]
    BY <1>0 DEF Sound, SoundLookup
  <2>2. w.pc = "scan" => /\ w.st.last <= last' /\ w.st.seqs \subseteq 1..w.st.last
                         /\ \A q \in w.st.seqs \ w.left : q \notin copies'[w.m]
    <3> SUFFICES ASSUME w.pc = "scan"
                 PROVE  /\ w.st.last <= last' /\ w.st.seqs \subseteq 1..w.st.last
                        /\ \A q \in w.st.seqs \ w.left : q \notin copies'[w.m]
      OBVIOUS
    <3>1. /\ w.st.last <= last /\ w.st.seqs \subseteq 1..w.st.last
          /\ \A q \in w.st.seqs \ w.left : q \notin copies[w.m]
      BY DEF Sound, SoundLookup
    <3>2. w.st.last \in Nat /\ last \in Nat /\ last' \in Nat
      BY DEF TypeOK, Workers, StreamStates
    <3>3. \A q \in w.st.seqs : q \in 1..w.st.last
      BY <3>1
    <3> QED
      BY <1>0, <3>1, <3>2, <3>3
  <2>3. w.pc = "absent" =>
         /\ w.at <= now' /\ now' <= w.at + ReplyStall
         /\ /\ NoRemovals(w.st)
            /\ w.snap = row'[w.m].token
            /\ w.snapAt + WriteStall + PublishTimeout < w.at
            => NeverSent(w.m)'
    BY <1>0, <1>1, <1>2, ConfigAssumption DEF Sound, SoundLookup, SoundSnapshot, LookingUp
  <2> QED
    BY <2>1, <2>2, <2>3 DEF SoundLookup
<1> QED
  BY <1>2, <1>3, <1>4, <1>5 DEF Sound

\* Sound speaks of the record only, not of the process that holds it.
LEMMA SoundOfEqual ==
  ASSUME NEW q \in Publishers, NEW v \in Workers, v = worker'[q], Sound(v)'
  PROVE  Sound(worker[q])'
<1> USE DEF Sound
<1>1. SoundSnapshot(worker[q])'
  BY DEF SoundSnapshot
<1>2. SoundClaim(worker[q])'
  BY DEF SoundClaim
<1>3. SoundAttempt(worker[q])'
  BY DEF SoundAttempt
<1>4. SoundLookup(worker[q])'
  BY DEF SoundLookup
<1> QED
  BY <1>1, <1>2, <1>3, <1>4

LEMMA AttemptStays ==
  ASSUME TypeOK, AttemptInv,
         UNCHANGED <<now, wire>>,
         \A m \in Messages : /\ row'[m].token = row[m].token
                             /\ row'[m].claimedAt = row[m].claimedAt,
         \A p \in Publishers : At(p, "claimed")' => At(p, "claimed") /\ worker'[p] = worker[p]
  PROVE  AttemptInv'
<1>1. \A r \in wire : r.m \in Messages
  BY DEF TypeOK, Requests
<1>2. \A p \in Publishers : worker[p].m \in Messages
  BY DEF TypeOK, Workers
<1> QED
  BY <1>1, <1>2 DEF AttemptInv, At, InFlight

\* The process goes on knowing w, which the state it reads makes sound.
LEMMA KnowledgeStep ==
  ASSUME IInv, NEW p \in Publishers, NEW w \in Workers,
         Step(p, w), w.pc # "claimed", Sound(w),
         UNCHANGED <<now, row, wire, brokerVars>>, crashes' \in Nat
  PROVE  IInv'
<1> USE DEF IInv, brokerVars, Step
<1>1. TypeOK'
  BY DEF TypeOK
<1>2. \A q \in Publishers : worker'[q] = IF q = p THEN w ELSE worker[q]
  BY DEF TypeOK
<1>3. \A q \in Publishers : At(q, "claimed")' => At(q, "claimed") /\ worker'[q] = worker[q]
  BY <1>2 DEF At
<1>4. \A m \in Messages : /\ Exposed(m)' => Exposed(m)
                          /\ NeverSent(m) => NeverSent(m)'
                          /\ InFlight(m)' <=> InFlight(m)
  BY <1>3, NoNewExposure
<1>5. RowInv'
  BY <1>4 DEF RowInv
<1>6. CopyInv'
  BY <1>4 DEF CopyInv
<1>7. AttemptInv'
  BY <1>3, AttemptStays
<1>8. WorkerInv'
  <2> SUFFICES ASSUME NEW q \in Publishers PROVE Sound(worker[q])'
    BY DEF WorkerInv
  <2>1. PICK v \in Workers : v = worker'[q] /\ Sound(v)
    BY <1>2 DEF TypeOK, WorkerInv
  <2>2. Sound(v)'
    BY <1>1, <1>4, <2>1, SoundStays DEF TypeOK
  <2> QED
    BY <2>1, <2>2, SoundOfEqual
<1> QED
  BY <1>1, <1>5, <1>6, <1>7, <1>8

LEMMA BeginStep ==
  ASSUME IInv, NEW p \in Publishers, NEW m \in Messages, Begin(p, m)
  PROVE  IInv'
<1> DEFINE w == [Idle EXCEPT !.pc = IF row[m].state = "INTENDED" THEN "intended" ELSE "lookup",
                             !.m = m, !.snapState = row[m].state, !.snap = row[m].token,
                             !.snapAt = row[m].claimedAt]
<1>1. row[m] \in Rows
  BY DEF IInv, TypeOK
<1>2. w \in Workers
  BY <1>1, IdleIsTyped DEF Workers, Rows
<1>3. /\ w.pc = IF row[m].state = "INTENDED" THEN "intended" ELSE "lookup"
      /\ w.m = m /\ w.snapState = row[m].state /\ w.snap = row[m].token
      /\ w.snapAt = row[m].claimedAt
  BY DEF Idle
<1>4. /\ row[m].token = 0 <=> row[m].state \in {"none", "INTENDED"}
      /\ row[m].token # 0 => row[m].claimedAt \in Nat
  BY DEF IInv, RowInv, TypeOK
<1>5. SoundSnapshot(w)
  BY <1>1, <1>3, <1>4 DEF SoundSnapshot, LookingUp, Rows, Begin, Recoverable
<1>6. SoundClaim(w) /\ SoundAttempt(w) /\ SoundLookup(w)
  BY <1>3 DEF SoundClaim, SoundAttempt, SoundLookup
<1>7. Step(p, w) /\ UNCHANGED <<now, row, wire, brokerVars, crashes>>
  BY DEF Begin
<1> HIDE DEF w
<1> QED
  BY <1>2, <1>3, <1>5, <1>6, <1>7, KnowledgeStep DEF Sound, IInv, TypeOK

LEMMA StampStep ==
  ASSUME IInv, NEW p \in Publishers, Stamp(p)
  PROVE  IInv'
<1> DEFINE w == [worker[p] EXCEPT !.pc = "stamped", !.at = now]
<1>1. worker[p] \in Workers /\ Sound(worker[p]) /\ worker[p].pc = "intended" /\ now \in Nat
  BY DEF IInv, TypeOK, WorkerInv, Stamp, At
<1>2. w \in Workers
  BY <1>1 DEF Workers
<1>3. w.pc = "stamped" /\ w.at = now /\ w.m = worker[p].m /\ w.snap = worker[p].snap
      /\ w.snapState = worker[p].snapState /\ w.snapAt = worker[p].snapAt
  BY <1>1 DEF Workers
<1>4. worker[p].snap = 0
  BY <1>1 DEF Sound, SoundSnapshot
<1>5. SoundSnapshot(w)
  BY <1>1, <1>3 DEF Sound, SoundSnapshot, LookingUp
<1>6. SoundClaim(w)
  <2>1. row[w.m].token = 0 => NeverSent(w.m)
    BY <1>2 DEF IInv, RowInv, Workers
  <2> QED
    BY <1>1, <1>3, <1>4, <2>1, ConfigAssumption DEF SoundClaim
<1>7. SoundAttempt(w) /\ SoundLookup(w)
  BY <1>3 DEF SoundAttempt, SoundLookup
<1>8. Step(p, w) /\ UNCHANGED <<now, row, wire, brokerVars, crashes>>
  BY DEF Stamp
<1> HIDE DEF w
<1> QED
  BY <1>2, <1>3, <1>5, <1>6, <1>7, <1>8, KnowledgeStep DEF Sound, IInv, TypeOK

LEMMA ReturnStep ==
  ASSUME IInv, NEW p \in Publishers,
         Return(p), UNCHANGED <<now, row, wire, brokerVars>>, crashes' \in Nat
  PROVE  IInv'
<1>1. Idle.pc # "claimed"
  BY DEF Idle
<1> QED
  BY <1>1, IdleIsTyped, IdleIsSound, KnowledgeStep DEF Return

LEMMA ReadStateStep ==
  ASSUME IInv, NEW p \in Publishers, ReadState(p)
  PROVE  IInv'
<1> DEFINE w == [worker[p] EXCEPT !.pc = "scan", !.st = StreamState, !.left = SeqsHeld]
<1>1. worker[p] \in Workers /\ Sound(worker[p]) /\ worker[p].pc = "lookup"
  BY DEF IInv, TypeOK, WorkerInv, ReadState, At
<1>2. SeqsHeld \in SUBSET Nat /\ StreamState \in StreamStates /\ last \in Nat
  BY DEF IInv, TypeOK, SeqsHeld, StreamState, StreamStates, Stored
<1>3. w \in Workers
  BY <1>1, <1>2 DEF Workers
<1>4. /\ w.pc = "scan" /\ w.st.last = last /\ w.left = w.st.seqs
      /\ w.m = worker[p].m /\ w.snap = worker[p].snap
      /\ w.snapState = worker[p].snapState /\ w.snapAt = worker[p].snapAt
  BY <1>1 DEF Workers, StreamState
<1>5. SoundSnapshot(w)
  BY <1>1, <1>4 DEF Sound, SoundSnapshot, LookingUp
<1>6. SoundClaim(w) /\ SoundAttempt(w)
  BY <1>4 DEF SoundClaim, SoundAttempt
<1>7. SoundLookup(w)
  <2>1. SeqsHeld \subseteq 1..last
    BY DEF SeqsHeld, IInv, CopyInv
  <2>2. w.st.seqs = SeqsHeld
    BY <1>1 DEF Workers, StreamState
  <2> QED
    BY <1>2, <1>4, <2>1, <2>2 DEF SoundLookup
<1>8. Step(p, w) /\ UNCHANGED <<now, row, wire, brokerVars, crashes>>
  BY DEF ReadState
<1> HIDE DEF w
<1> QED
  BY <1>3, <1>4, <1>5, <1>6, <1>7, <1>8, KnowledgeStep DEF Sound, IInv, TypeOK

LEMMA ScanStep ==
  ASSUME IInv, NEW p \in Publishers, Scan(p)
  PROVE  IInv'
<1>1. worker[p] \in Workers /\ Sound(worker[p]) /\ worker[p].pc = "scan"
  BY DEF IInv, TypeOK, WorkerInv, Scan, At
<1>2. PICK s \in stream :
        Step(p, CASE s.m # worker[p].m -> [worker[p] EXCEPT !.left = @ \ {s.seq}]
                  [] s.m = worker[p].m /\ s.own -> [worker[p] EXCEPT !.pc = "found", !.seq = s.seq]
                  [] s.m = worker[p].m /\ ~s.own -> [worker[p] EXCEPT !.pc = "conflict"])
  BY DEF Scan
<1>3. /\ s \in Stored
      /\ s.own => s.seq \in copies[s.m]
      /\ \A m \in Messages : s.seq \in copies[m] => s.m = m
  BY DEF IInv, TypeOK, CopyInv
<1>4. UNCHANGED <<now, row, wire, brokerVars, crashes>> /\ crashes \in Nat /\ worker[p].m \in Messages
  BY <1>1 DEF Scan, IInv, TypeOK, Workers
<1>5. CASE s.m # worker[p].m
  <2> DEFINE w == [worker[p] EXCEPT !.left = @ \ {s.seq}]
  <2>1. w \in Workers
    BY <1>1 DEF Workers
  <2>2. /\ w.pc = "scan" /\ w.st = worker[p].st /\ w.left = worker[p].left \ {s.seq}
        /\ w.m = worker[p].m /\ w.snap = worker[p].snap
        /\ w.snapState = worker[p].snapState /\ w.snapAt = worker[p].snapAt
    BY <1>1 DEF Workers
  <2>3. SoundSnapshot(w) /\ SoundClaim(w) /\ SoundAttempt(w)
    BY <1>1, <2>2 DEF Sound, SoundSnapshot, SoundClaim, SoundAttempt
  <2>4. SoundLookup(w)
    BY <1>1, <1>3, <1>4, <1>5, <2>2 DEF Sound, SoundLookup
  <2>5. Step(p, w)
    BY <1>2, <1>5
  <2> HIDE DEF w
  <2> QED
    BY <1>4, <2>1, <2>2, <2>3, <2>4, <2>5, KnowledgeStep DEF Sound
<1>6. CASE s.m = worker[p].m /\ s.own
  <2> DEFINE w == [worker[p] EXCEPT !.pc = "found", !.seq = s.seq]
  <2>1. w \in Workers
    BY <1>1, <1>3 DEF Workers, Stored
  <2>2. /\ w.pc = "found" /\ w.seq = s.seq
        /\ w.m = worker[p].m /\ w.snap = worker[p].snap
        /\ w.snapState = worker[p].snapState /\ w.snapAt = worker[p].snapAt
    BY <1>1 DEF Workers
  <2>3. SoundSnapshot(w) /\ SoundClaim(w) /\ SoundAttempt(w)
    BY <1>1, <2>2 DEF Sound, SoundSnapshot, SoundClaim, SoundAttempt, LookingUp
  <2>4. SoundLookup(w)
    BY <1>3, <1>6, <2>2 DEF SoundLookup
  <2>5. Step(p, w)
    BY <1>2, <1>6
  <2> HIDE DEF w
  <2> QED
    BY <1>4, <2>1, <2>2, <2>3, <2>4, <2>5, KnowledgeStep DEF Sound
<1>7. CASE s.m = worker[p].m /\ ~s.own
  <2> DEFINE w == [worker[p] EXCEPT !.pc = "conflict"]
  <2>1. w \in Workers
    BY <1>1 DEF Workers
  <2>2. /\ w.pc = "conflict"
        /\ w.m = worker[p].m /\ w.snap = worker[p].snap
        /\ w.snapState = worker[p].snapState /\ w.snapAt = worker[p].snapAt
    BY <1>1 DEF Workers
  <2>3. SoundSnapshot(w) /\ SoundClaim(w) /\ SoundAttempt(w) /\ SoundLookup(w)
    BY <1>1, <2>2 DEF Sound, SoundSnapshot, SoundClaim, SoundAttempt, SoundLookup, LookingUp
  <2>4. Step(p, w)
    BY <1>2, <1>7
  <2> HIDE DEF w
  <2> QED
    BY <1>4, <2>1, <2>2, <2>3, <2>4, KnowledgeStep DEF Sound
<1> QED
  BY <1>5, <1>6, <1>7

\* A complete scan of a stream without removals, made after the row's attempt
\* had its time, proves that nothing was sent.
LEMMA FinalStateStep ==
  ASSUME IInv, NEW p \in Publishers, FinalState(p)
  PROVE  IInv'
<1> DEFINE w == [worker[p] EXCEPT !.pc = "absent", !.at = now]
<1>1. /\ worker[p] \in Workers /\ Sound(worker[p]) /\ worker[p].pc = "scan"
      /\ now \in Nat /\ worker[p].left = {} /\ worker[p].st = StreamState
  BY DEF IInv, TypeOK, WorkerInv, FinalState, At
<1>2. w \in Workers
  BY <1>1 DEF Workers
<1>3. /\ w.pc = "absent" /\ w.at = now /\ w.st = StreamState
      /\ w.m = worker[p].m /\ w.snap = worker[p].snap
      /\ w.snapState = worker[p].snapState /\ w.snapAt = worker[p].snapAt
  BY <1>1 DEF Workers
<1>4. SoundSnapshot(w) /\ SoundClaim(w) /\ SoundAttempt(w)
  BY <1>1, <1>3 DEF Sound, SoundSnapshot, SoundClaim, SoundAttempt, LookingUp
<1>5. w.m \in Messages
  BY <1>2 DEF Workers
<1>6. ASSUME NoRemovals(w.st), w.snap = row[w.m].token,
             w.snapAt + WriteStall + PublishTimeout < w.at
      PROVE  NeverSent(w.m)
  <2>1. copies[w.m] = {}
    <3>1. \A q \in 1..last : q \notin copies[w.m]
      <4>1. worker[p].st.last = last /\ worker[p].st.seqs = 1..last
        BY <1>1, <1>3, <1>6 DEF NoRemovals, StreamState
      <4>2. \A q \in worker[p].st.seqs \ worker[p].left : q \notin copies[w.m]
        BY <1>1, <1>3 DEF Sound, SoundLookup
      <4> QED
        BY <1>1, <4>1, <4>2
    <3> QED
      BY <1>5, <3>1 DEF IInv, CopyInv
  <2>2. w.snapAt = row[w.m].claimedAt /\ w.snapAt \in Nat
    BY <1>1, <1>3, <1>4, <1>6 DEF SoundSnapshot, LookingUp
  <2>3. ~InFlight(w.m)
    <3> SUFFICES ASSUME NEW r \in wire, r.m = w.m PROVE FALSE
      BY DEF InFlight
    <3>1. r.until \in now..(row[w.m].claimedAt + WriteStall + PublishTimeout)
      BY DEF IInv, AttemptInv
    <3> QED
      BY <1>1, <1>3, <1>6, <2>2, <3>1, ConfigAssumption
  <2>4. ASSUME NEW q \in Publishers, At(q, "claimed"), worker[q].m = w.m PROVE FALSE
    <3>1. worker[q].at = row[w.m].claimedAt /\ now <= worker[q].at + WriteStall
      BY <2>4 DEF IInv, AttemptInv
    <3> QED
      BY <1>1, <1>3, <1>6, <2>2, <3>1, ConfigAssumption
  <2> QED
    BY <2>1, <2>3, <2>4 DEF NeverSent, Exposed
<1>7. SoundLookup(w)
  BY <1>1, <1>3, <1>6, ConfigAssumption DEF SoundLookup
<1>8. Step(p, w) /\ UNCHANGED <<now, row, wire, brokerVars, crashes>>
  BY DEF FinalState
<1> HIDE DEF w
<1> QED
  BY <1>2, <1>3, <1>4, <1>7, <1>8, KnowledgeStep DEF Sound, IInv, TypeOK

\* The claim was already stale when the final state was taken.
LEMMA RetryStep ==
  ASSUME StallsAreShort, IInv, NEW p \in Publishers, Retry(p)
  PROVE  IInv'
<1> DEFINE w == [worker[p] EXCEPT !.pc = "stamped", !.at = now, !.retry = TRUE]
<1>1. /\ worker[p] \in Workers /\ Sound(worker[p]) /\ worker[p].pc = "absent"
      /\ now \in Nat /\ NoRemovals(worker[p].st) /\ ~MayBeInFlight(worker[p].snapAt)
  BY DEF IInv, TypeOK, WorkerInv, Retry, ProvenAbsent, At
<1>2. w \in Workers
  BY <1>1 DEF Workers
<1>3. /\ w.pc = "stamped" /\ w.at = now
      /\ w.m = worker[p].m /\ w.snap = worker[p].snap
      /\ w.snapState = worker[p].snapState /\ w.snapAt = worker[p].snapAt
  BY <1>1 DEF Workers
<1>4. SoundSnapshot(w) /\ SoundAttempt(w) /\ SoundLookup(w)
  BY <1>1, <1>3 DEF Sound, SoundSnapshot, SoundLookup, SoundAttempt, LookingUp
<1>5. worker[p].at \in Nat /\ worker[p].at <= now /\ now <= worker[p].at + ReplyStall
  BY <1>1 DEF Sound, SoundLookup, Workers
<1>6. worker[p].snapAt \in Nat
  BY <1>1 DEF Sound, SoundSnapshot, LookingUp
<1>7. worker[p].snapAt + WriteStall + PublishTimeout < worker[p].at
  BY <1>1, <1>5, <1>6, ConfigAssumption DEF MayBeInFlight, Never, StallsAreShort
<1>8. SoundClaim(w)
  BY <1>1, <1>3, <1>7, ConfigAssumption DEF Sound, SoundLookup, SoundClaim
<1>9. Step(p, w) /\ UNCHANGED <<now, row, wire, brokerVars, crashes>>
  BY DEF Retry
<1> HIDE DEF w
<1> QED
  BY <1>2, <1>3, <1>4, <1>8, <1>9, KnowledgeStep DEF Sound, IInv, TypeOK

-----------------------------------------------------------------------------
(* A step that settles, holds or commits a row. *)

LEMMA SettleStep ==
  ASSUME IInv, NEW m \in Messages,
         row' \in [Messages -> Rows],
         \A m2 \in Messages : /\ row'[m2].token = row[m2].token
                              /\ row'[m2].claimedAt = row[m2].claimedAt
                              /\ m2 # m => row'[m2] = row[m2],
         row[m].token = 0 <=> row'[m].state \in {"none", "INTENDED"},
         row'[m].state = "PUBLISHED" => row'[m].seq \in copies[m],
         row'[m].state = "REJECTED_CAPACITY" => NeverSent(m),
         \A p \in Publishers : worker'[p] = worker[p] \/ worker'[p] = Idle,
         worker' \in [Publishers -> Workers],
         UNCHANGED <<now, wire, brokerVars, crashes>>
  PROVE  IInv'
<1> USE DEF IInv, brokerVars
<1>1. TypeOK'
  BY DEF TypeOK
<1>2. \A p \in Publishers : At(p, "claimed")' => At(p, "claimed") /\ worker'[p] = worker[p]
  BY DEF At, Idle
<1>3. \A m2 \in Messages : /\ Exposed(m2)' => Exposed(m2)
                           /\ NeverSent(m2) => NeverSent(m2)'
                           /\ InFlight(m2)' <=> InFlight(m2)
  BY <1>2, NoNewExposure
<1>4. RowInv'
  BY <1>3 DEF RowInv
<1>5. CopyInv'
  BY <1>3 DEF CopyInv
<1>6. AttemptInv'
  BY <1>2, AttemptStays
<1>7. WorkerInv'
  <2> SUFFICES ASSUME NEW q \in Publishers PROVE Sound(worker[q])'
    BY DEF WorkerInv
  <2>1. PICK v \in Workers : v = worker'[q] /\ (v = worker[q] \/ v = Idle)
    OBVIOUS
  <2>2. CASE v = worker[q]
    <3>1. Sound(v)
      BY <2>2 DEF WorkerInv
    <3>2. Sound(v)'
      BY <1>1, <1>3, <3>1, SoundStays DEF TypeOK
    <3> QED
      BY <2>1, <3>2, SoundOfEqual
  <2>3. CASE v = Idle
    <3>1. Sound(v)'
      BY <2>3, IdleIsSound
    <3> QED
      BY <2>1, <3>1, SoundOfEqual
  <2> QED
    BY <2>1, <2>2, <2>3
<1> QED
  BY <1>1, <1>4, <1>5, <1>6, <1>7

LEMMA CommitStep ==
  ASSUME IInv, NEW m \in Messages, Commit(m)
  PROVE  IInv'
<1>0. row[m] \in Rows /\ now + PointerTTL \in Nat
  BY ConfigAssumption DEF IInv, TypeOK
<1>1. row' \in [Messages -> Rows]
  BY <1>0 DEF IInv, TypeOK, Commit, Rows, RowStates
<1>2. row'[m].state = "INTENDED" /\ row[m].token = 0
  BY DEF Commit, IInv, TypeOK, RowInv
<1>3. \A m2 \in Messages : /\ row'[m2].token = row[m2].token
                           /\ row'[m2].claimedAt = row[m2].claimedAt
                           /\ m2 # m => row'[m2] = row[m2]
  BY DEF Commit, IInv, TypeOK, Rows
<1> QED
  BY <1>1, <1>2, <1>3, SettleStep DEF Commit, IInv, TypeOK, brokerVars

\* The row was claimed, and the process moves it and returns.
LEMMA MoveStep ==
  ASSUME IInv, NEW p \in Publishers, NEW m \in Messages, NEW s \in Recoverable \cup Settled,
         NEW q \in Nat,
         row' = [row EXCEPT ![m].state = s, ![m].seq = q],
         row[m].state \in Recoverable,
         s = "PUBLISHED" => q \in copies[m],
         s = "REJECTED_CAPACITY" => NeverSent(m),
         Return(p), UNCHANGED <<now, wire, brokerVars, crashes>>
  PROVE  IInv'
<1>1. row[m] \in Rows
  BY DEF IInv, TypeOK
<1>2. row' \in [Messages -> Rows]
  BY <1>1 DEF IInv, TypeOK, Rows, RowStates
<1>3. row[m].token # 0
  BY DEF IInv, RowInv, Recoverable
<1>4. row'[m].state = s /\ row'[m].seq = q
  BY <1>1 DEF IInv, TypeOK, Rows
<1>5. \A m2 \in Messages : /\ row'[m2].token = row[m2].token
                           /\ row'[m2].claimedAt = row[m2].claimedAt
                           /\ m2 # m => row'[m2] = row[m2]
  BY DEF IInv, TypeOK, Rows
<1>6. worker' \in [Publishers -> Workers] /\ \A p2 \in Publishers : worker'[p2] = worker[p2] \/ worker'[p2] = Idle
  BY IdleIsTyped DEF IInv, TypeOK, Return, Step
<1>7. s \notin {"none", "INTENDED"}
  BY DEF Recoverable, Settled
<1> QED
  BY <1>2, <1>3, <1>4, <1>5, <1>6, <1>7, SettleStep

LEMMA SetRowIsMove ==
  ASSUME TypeOK, NEW m \in Messages, NEW s \in RowStates, SetRow(m, s)
  PROVE  row' = [row EXCEPT ![m].state = s, ![m].seq = row[m].seq] /\ row[m].seq \in Nat
<1>1. row[m] \in Rows
  BY DEF TypeOK
<1> QED
  BY <1>1 DEF TypeOK, SetRow, Rows

LEMMA FinishStep ==
  ASSUME IInv, NEW p \in Publishers, NEW s \in {"RECONCILE_HOLD", "UNKNOWN_PENDING"},
         Finish(p, s), UNCHANGED <<now, wire, brokerVars, crashes>>
  PROVE  IInv'
<1> DEFINE m == worker[p].m
<1>0. m \in Messages /\ crashes' \in Nat
  BY DEF IInv, TypeOK, Workers
<1>1. CASE Matches(m, "SEND_CLAIMED", worker[p].tok)
  <2>1. SetRow(m, s) /\ Return(p) /\ row[m].state \in Recoverable
    BY <1>1 DEF Finish, Matches, Recoverable
  <2>2. s \in Recoverable /\ s \in RowStates /\ s # "PUBLISHED" /\ s # "REJECTED_CAPACITY"
    BY DEF Recoverable, RowStates
  <2> HIDE DEF m
  <2>3. row' = [row EXCEPT ![m].state = s, ![m].seq = row[m].seq] /\ row[m].seq \in Nat
    BY <1>0, <2>1, <2>2, SetRowIsMove DEF IInv
  <2> QED
    BY <1>0, <2>1, <2>2, <2>3, MoveStep
<1>2. CASE ~Matches(m, "SEND_CLAIMED", worker[p].tok)
  BY <1>0, <1>2, ReturnStep DEF Finish
<1> QED
  BY <1>1, <1>2

LEMMA MoveSnapshotStep ==
  ASSUME IInv, NEW p \in Publishers, worker[p].pc \in LookingUp,
         NEW s \in {"RECONCILE_HOLD", "CONFLICT_HOLD"},
         MoveSnapshot(p, s), UNCHANGED <<now, wire, brokerVars, crashes>>
  PROVE  IInv'
<1> DEFINE m == worker[p].m
           w == worker[p]
<1>0. m \in Messages /\ crashes' \in Nat
  BY DEF IInv, TypeOK, Workers
<1>1. CASE Matches(m, w.snapState, w.snap)
  <2>1. SetRow(m, s) /\ Return(p)
    BY <1>1 DEF MoveSnapshot
  <2>2. row[m].state \in Recoverable
    BY <1>1 DEF IInv, WorkerInv, Sound, SoundSnapshot, Matches
  <2>3. s \in Recoverable \cup Settled /\ s \in RowStates /\ s # "PUBLISHED" /\ s # "REJECTED_CAPACITY"
    BY DEF Recoverable, Settled, RowStates
  <2> HIDE DEF m
  <2>4. row' = [row EXCEPT ![m].state = s, ![m].seq = row[m].seq] /\ row[m].seq \in Nat
    BY <1>0, <2>1, <2>3, SetRowIsMove DEF IInv
  <2> QED
    BY <1>0, <2>1, <2>2, <2>3, <2>4, MoveStep
<1>2. CASE ~Matches(m, w.snapState, w.snap)
  BY <1>0, <1>2, ReturnStep DEF MoveSnapshot
<1> QED
  BY <1>1, <1>2

LEMMA AdoptFoundStep ==
  ASSUME IInv, NEW p \in Publishers, AdoptFound(p)
  PROVE  IInv'
<1> DEFINE m == worker[p].m
           w == worker[p]
<1>0. m \in Messages /\ crashes' \in Nat /\ w.seq \in Nat /\ UNCHANGED <<now, wire, brokerVars, crashes>>
  BY DEF IInv, TypeOK, Workers, AdoptFound
<1>1. CASE Matches(m, w.snapState, w.snap)
  <2>1. row' = [row EXCEPT ![m].state = "PUBLISHED", ![m].seq = w.seq] /\ Return(p)
    BY <1>1 DEF AdoptFound
  <2>2. row[m].state \in Recoverable /\ w.seq \in copies[m]
    BY <1>1 DEF IInv, WorkerInv, Sound, SoundSnapshot, SoundLookup, LookingUp, Matches, AdoptFound, At
  <2>3. "PUBLISHED" \in Recoverable \cup Settled
    BY DEF Settled
  <2> QED
    BY <1>0, <2>1, <2>2, <2>3, MoveStep
<1>2. CASE ~Matches(m, w.snapState, w.snap)
  BY <1>0, <1>2, ReturnStep DEF AdoptFound
<1> QED
  BY <1>1, <1>2

LEMMA FinishAckedStep ==
  ASSUME IInv, NEW p \in Publishers, FinishAcked(p)
  PROVE  IInv'
<1> DEFINE w == worker[p]
           m == w.m
           s == CASE w.reply = "capacity" -> "REJECTED_CAPACITY"
                  [] w.reply = "stored" -> "PUBLISHED"
                  [] w.reply = "duplicate" -> IF ReadableOwn(m, w.seq) THEN "PUBLISHED"
                                              ELSE "CONFLICT_HOLD"
           q == IF w.reply = "capacity" THEN row[m].seq ELSE w.seq
<1>0. /\ w \in Workers /\ m \in Messages /\ w.pc = "acked" /\ Sound(w)
      /\ row[m] \in Rows /\ UNCHANGED <<now, wire, brokerVars, crashes>> /\ Return(p)
  BY DEF IInv, TypeOK, Workers, WorkerInv, FinishAcked, At
<1>1. /\ w.reply \in {"stored", "duplicate", "capacity"}
      /\ w.reply = "stored" => w.seq \in copies[m]
      /\ w.reply = "capacity" /\ w.tok = row[m].token => NeverSent(m)
  BY <1>0 DEF Sound, SoundAttempt, Workers
<1>2. row[m].state = "SEND_CLAIMED" /\ row[m].token = w.tok
  BY DEF FinishAcked, Matches
<1>3. ReadableOwn(m, w.seq) => w.seq \in copies[m]
  BY <1>0 DEF ReadableOwn, IInv, CopyInv
<1>4. s \in Recoverable \cup Settled /\ q \in Nat
  BY <1>0, <1>1 DEF Settled, Workers, Rows
<1>5. s = "PUBLISHED" => q \in copies[m]
  BY <1>1, <1>3
<1>6. s = "REJECTED_CAPACITY" => NeverSent(m)
  BY <1>1, <1>2
<1>7. row' = [row EXCEPT ![m].state = s, ![m].seq = q]
  BY <1>0, <1>1 DEF FinishAcked
<1>8. row[m].state \in Recoverable
  BY <1>2 DEF Recoverable
<1> HIDE DEF s, q, m, w
<1> QED
  BY <1>0, <1>4, <1>5, <1>6, <1>7, <1>8, MoveStep

-----------------------------------------------------------------------------
(* The life of an attempt: claimed, sent, landed or lost. *)

LEMMA ClaimStep ==
  ASSUME IInv, NEW p \in Publishers, Claim(p)
  PROVE  IInv'
<1> DEFINE w == worker[p]
           m == w.m
           v == [w EXCEPT !.pc = "claimed", !.tok = row[m].token + 1]
<1> USE DEF IInv, brokerVars
<1>1. /\ w \in Workers /\ Sound(w) /\ w.pc = "stamped" /\ m \in Messages
      /\ row[m] \in Rows /\ w.snap = row[m].token /\ UNCHANGED <<now, wire, brokerVars, crashes>>
  BY DEF TypeOK, Workers, WorkerInv, Claim, At, Matches
<1>2. NeverSent(m) /\ w.at \in 0..now /\ now <= w.at + WriteStall
  BY <1>1 DEF Sound, SoundClaim, Workers, TypeOK
<1>3. /\ v \in Workers /\ v.pc = "claimed" /\ v.tok = row[m].token + 1 /\ v.m = m /\ v.at = w.at
  <2>1. row[m].token + 1 \in Nat
    BY <1>1 DEF Rows
  <2> QED
    BY <1>1, <2>1 DEF Workers
<1>4. /\ row'[m].token = row[m].token + 1 /\ row'[m].claimedAt = w.at /\ row'[m].state = "SEND_CLAIMED"
      /\ \A m2 \in Messages \ {m} : row'[m2] = row[m2]
      /\ row' \in [Messages -> Rows]
  <2> DEFINE n == [row[m] EXCEPT !.state = "SEND_CLAIMED", !.token = row[m].token + 1,
                                 !.claimedAt = w.at]
  <2>1. n \in Rows /\ n.token = row[m].token + 1 /\ n.claimedAt = w.at /\ n.state = "SEND_CLAIMED"
    <3>1. w.at \in Int /\ row[m].token + 1 \in Nat
      BY <1>1, <1>2 DEF Rows, TypeOK
    <3>2. "SEND_CLAIMED" \in RowStates
      BY DEF RowStates, Recoverable
    <3> HIDE DEF w
    <3> QED
      BY <1>1, <3>1, <3>2 DEF Rows
  <2>2. row' = [row EXCEPT ![m] = n] /\ row \in [Messages -> Rows]
    BY <1>1 DEF Claim, TypeOK
  <2> HIDE DEF n
  <2> QED
    BY <1>1, <2>1, <2>2
<1>5. /\ worker'[p] = v
      /\ \A q \in Publishers \ {p} : worker'[q] = worker[q]
      /\ worker' \in [Publishers -> Workers]
  BY <1>3 DEF Claim, Step, TypeOK
<1>6. row[m].token \in Nat /\ now \in Nat
  BY <1>1 DEF Rows, TypeOK
<1> HIDE DEF v, m, w
<1>7. \A m2 \in Messages \ {m} : /\ Exposed(m2)' <=> Exposed(m2)
                                 /\ NeverSent(m2) <=> NeverSent(m2)'
  BY <1>1, <1>3, <1>5 DEF Exposed, NeverSent, InFlight, At, w, m
<1>8. TypeOK'
  BY <1>1, <1>4, <1>5 DEF TypeOK
<1>9. RowInv'
  BY <1>1, <1>2, <1>4, <1>6, <1>7 DEF RowInv
<1>10. CopyInv'
  BY <1>1, <1>2, <1>7 DEF CopyInv, NeverSent
<1>11. AttemptInv'
  <2>1. \A r \in wire : r.m \in Messages \ {m}
    BY <1>2 DEF NeverSent, Exposed, InFlight, TypeOK, Requests
  <2>2. \A q \in Publishers : At(q, "claimed") => worker[q].m \in Messages \ {m}
    BY <1>2 DEF NeverSent, Exposed, TypeOK, Workers
  <2>3. \A q \in Publishers : At(q, "claimed")' <=> (q = p \/ At(q, "claimed"))
    BY <1>1, <1>3, <1>5 DEF At
  <2>4. \A r \in wire' : /\ r.tok = row'[r.m].token
                         /\ r.until \in now'..(row'[r.m].claimedAt + WriteStall + PublishTimeout)
                         /\ \A r2 \in wire' : r2.m = r.m => r2 = r
    BY <1>1, <1>4, <2>1 DEF AttemptInv
  <2>5. ASSUME NEW q \in Publishers, At(q, "claimed")'
        PROVE  /\ worker'[q].tok = row'[worker'[q].m].token
               /\ worker'[q].at = row'[worker'[q].m].claimedAt
               /\ now' <= worker'[q].at + WriteStall
               /\ ~InFlight(worker[q].m)'
               /\ \A p2 \in Publishers : At(p2, "claimed")' /\ worker'[p2].m = worker'[q].m => p2 = q
    <3>1. CASE q = p
      BY <1>1, <1>2, <1>3, <1>4, <1>5, <2>1, <2>2, <2>3, <3>1 DEF InFlight
    <3>2. CASE q # p
      <4>1. At(q, "claimed") /\ worker'[q] = worker[q] /\ worker[q].m \in Messages \ {m}
        BY <1>5, <2>2, <2>3, <2>5, <3>2
      <4>2. ~InFlight(worker[q].m)'
        BY <1>1, <4>1 DEF AttemptInv, InFlight
      <4> QED
        BY <1>1, <1>3, <1>4, <1>5, <2>3, <4>1, <4>2 DEF AttemptInv
    <3> QED
      BY <3>1, <3>2
  <2> QED
    BY <2>4, <2>5 DEF AttemptInv
<1>12. WorkerInv'
  <2> SUFFICES ASSUME NEW q \in Publishers PROVE Sound(worker[q])'
    BY DEF WorkerInv
  <2>1. CASE q = p
    <3>1. PICK u \in Workers : /\ u = v /\ u.pc = "claimed" /\ u.m = m
                              /\ u.tok = row[m].token + 1
      BY <1>3
    <3>2. SoundSnapshot(u)' /\ SoundClaim(u)' /\ SoundLookup(u)'
      BY <3>1 DEF SoundSnapshot, SoundClaim, SoundLookup, LookingUp
    <3>3. SoundAttempt(u)'
      BY <1>4, <1>6, <3>1 DEF SoundAttempt
    <3>4. Sound(u)'
      BY <3>2, <3>3 DEF Sound
    <3> QED
      BY <1>5, <2>1, <3>1, <3>4, SoundOfEqual
  <2>2. CASE q # p
    <3>1. PICK u \in Workers : u = worker[q] /\ u = worker'[q] /\ Sound(u)
      BY <1>5, <2>2 DEF WorkerInv, TypeOK
    <3>2. \A m2 \in Messages :
            \/ /\ row'[m2].token = row[m2].token
               /\ row'[m2].claimedAt = row[m2].claimedAt
               /\ NeverSent(m2) => NeverSent(m2)'
            \/ row[m2].token < row'[m2].token
      BY <1>4, <1>6, <1>7
    <3>3. last \in Nat
      BY DEF TypeOK
    <3>4. Sound(u)'
      BY <1>1, <1>8, <3>1, <3>2, <3>3, SoundStays
    <3> QED
      BY <3>1, <3>4, SoundOfEqual
  <2> QED
    BY <2>1, <2>2
<1> QED
  BY <1>8, <1>9, <1>10, <1>11, <1>12

LEMMA SendStep ==
  ASSUME IInv, NEW p \in Publishers, Send(p)
  PROVE  IInv'
<1> DEFINE w == worker[p]
           m == w.m
           r == [m |-> m, tok |-> w.tok, until |-> now + PublishTimeout]
           v == [w EXCEPT !.pc = "sending"]
<1> USE DEF IInv, brokerVars
<1>1. /\ w \in Workers /\ Sound(w) /\ w.pc = "claimed" /\ m \in Messages /\ now \in Nat
      /\ UNCHANGED <<now, row, brokerVars, crashes>> /\ wire' = wire \cup {r}
  BY DEF TypeOK, Workers, WorkerInv, Send, At
<1>2. /\ w.tok = row[m].token /\ w.at = row[m].claimedAt /\ now <= w.at + WriteStall /\ ~InFlight(m)
      /\ \A q \in Publishers : At(q, "claimed") /\ worker[q].m = m => q = p
  BY <1>1 DEF AttemptInv, At
<1>3. v \in Workers /\ v.pc = "sending" /\ v.m = m /\ v.tok = w.tok
  BY <1>1 DEF Workers
<1>4. r \in Requests /\ r.m = m /\ r.tok = w.tok /\ r.until = now + PublishTimeout
  BY <1>1, ConfigAssumption DEF Requests, Workers
<1>5. /\ worker'[p] = v
      /\ \A q \in Publishers \ {p} : worker'[q] = worker[q]
      /\ worker' \in [Publishers -> Workers]
  BY <1>3 DEF Send, Step, TypeOK
<1>6. w.at \in Nat
  BY <1>1 DEF Workers
<1>7. TypeOK'
  BY <1>1, <1>4, <1>5 DEF TypeOK
<1> HIDE DEF r, v, m, w
<1>8. \A q \in Publishers : At(q, "claimed")' <=> (q # p /\ At(q, "claimed"))
  BY <1>3, <1>5 DEF At
<1>9. \A m2 \in Messages : /\ InFlight(m2)' <=> (m2 = m \/ InFlight(m2))
                           /\ Exposed(m2)' <=> Exposed(m2)
                           /\ NeverSent(m2) <=> NeverSent(m2)'
  <2>1. \A m2 \in Messages : InFlight(m2)' <=> (m2 = m \/ InFlight(m2))
    BY <1>1, <1>4 DEF InFlight
  <2>2. \A m2 \in Messages : Exposed(m2)' <=> Exposed(m2)
    BY <1>1, <1>2, <1>5, <1>8, <2>1 DEF Exposed, m, w, At
  <2> QED
    BY <1>1, <2>1, <2>2 DEF NeverSent
<1>10. RowInv'
  BY <1>1, <1>9 DEF RowInv
<1>11. CopyInv'
  BY <1>1, <1>9 DEF CopyInv
<1>12. AttemptInv'
  <2>1. \A r1 \in wire : r1.m # m
    BY <1>2 DEF InFlight
  <2>2. r.until \in now..(row[m].claimedAt + WriteStall + PublishTimeout)
    BY <1>1, <1>2, <1>4, <1>6, ConfigAssumption
  <2>3. \A r1 \in wire' : /\ r1.tok = row'[r1.m].token
                          /\ r1.until \in now'..(row'[r1.m].claimedAt + WriteStall + PublishTimeout)
                          /\ \A r2 \in wire' : r2.m = r1.m => r2 = r1
    BY <1>1, <1>2, <1>4, <2>1, <2>2 DEF AttemptInv
  <2>4. ASSUME NEW q \in Publishers, At(q, "claimed")'
        PROVE  /\ worker'[q].tok = row'[worker'[q].m].token
               /\ worker'[q].at = row'[worker'[q].m].claimedAt
               /\ now' <= worker'[q].at + WriteStall
               /\ ~InFlight(worker[q].m)'
               /\ \A p2 \in Publishers : At(p2, "claimed")' /\ worker'[p2].m = worker'[q].m => p2 = q
    <3>1. q # p /\ At(q, "claimed") /\ worker'[q] = worker[q]
      BY <1>5, <1>8, <2>4
    <3>2. worker[q].m # m
      BY <1>2, <3>1
    <3>3. ~InFlight(worker[q].m)'
      BY <1>1, <1>4, <3>1, <3>2 DEF AttemptInv, InFlight
    <3> QED
      BY <1>1, <1>5, <1>8, <3>1, <3>3 DEF AttemptInv
  <2> QED
    BY <2>3, <2>4 DEF AttemptInv
<1>13. WorkerInv'
  <2> SUFFICES ASSUME NEW q \in Publishers PROVE Sound(worker[q])'
    BY DEF WorkerInv
  <2>1. CASE q = p
    <3>1. PICK u \in Workers : u = v /\ u.pc = "sending" /\ u.m = m /\ u.tok = w.tok
      BY <1>3
    <3>2. SoundSnapshot(u)' /\ SoundClaim(u)' /\ SoundLookup(u)'
      BY <3>1 DEF SoundSnapshot, SoundClaim, SoundLookup, LookingUp
    <3>3. w.tok # 0 /\ w.tok <= row[m].token
      BY <1>1 DEF Sound, SoundAttempt, m
    <3>4. SoundAttempt(u)'
      BY <1>1, <3>1, <3>3 DEF SoundAttempt
    <3>5. Sound(u)'
      BY <3>2, <3>4 DEF Sound
    <3> QED
      BY <1>5, <2>1, <3>1, <3>5, SoundOfEqual
  <2>2. CASE q # p
    <3>1. PICK u \in Workers : u = worker[q] /\ u = worker'[q] /\ Sound(u)
      BY <1>5, <2>2 DEF WorkerInv, TypeOK
    <3>2. last \in Nat
      BY DEF TypeOK
    <3>3. Sound(u)'
      BY <1>1, <1>7, <1>9, <3>1, <3>2, SoundStays
    <3> QED
      BY <3>1, <3>3, SoundOfEqual
  <2> QED
    BY <2>1, <2>2
<1> QED
  BY <1>7, <1>10, <1>11, <1>12, <1>13

\* What the removal of a request from the wire leaves behind.
LEMMA RequestGone ==
  ASSUME IInv, NEW r \in wire, wire' = wire \ {r},
         UNCHANGED <<now, row>>,
         \A p \in Publishers : /\ At(p, "claimed")' <=> At(p, "claimed")
                               /\ At(p, "claimed") => worker'[p] = worker[p]
  PROVE  /\ AttemptInv'
         /\ r.m \in Messages /\ copies[r.m] = {} /\ ~Exposed(r.m)' /\ ~NeverSent(r.m)
         /\ row[r.m].token = r.tok
         /\ \A m \in Messages \ {r.m} : Exposed(m)' <=> Exposed(m)
<1> USE DEF IInv
<1>1. r \in Requests /\ r.m \in Messages
  BY DEF TypeOK, Requests
<1>2. Exposed(r.m)
  BY DEF Exposed, InFlight
<1>3. copies[r.m] = {} /\ ~NeverSent(r.m) /\ row[r.m].token = r.tok
  BY <1>1, <1>2 DEF CopyInv, NeverSent, AttemptInv
<1>4. ~InFlight(r.m)'
  BY DEF InFlight, AttemptInv
<1>5. \A p \in Publishers : ~(At(p, "claimed") /\ worker[p].m = r.m)
  BY DEF AttemptInv, InFlight
<1>6. \A p \in Publishers : ~(At(p, "claimed")' /\ worker'[p].m = r.m)
  BY <1>5 DEF At
<1>7. ~Exposed(r.m)'
  BY <1>4, <1>6 DEF Exposed
<1>8. \A m \in Messages \ {r.m} : Exposed(m)' <=> Exposed(m)
  BY DEF Exposed, InFlight, At
<1>9. AttemptInv'
  BY DEF AttemptInv, InFlight, At
<1> QED
  BY <1>1, <1>3, <1>7, <1>8, <1>9

LEMMA DropStep ==
  ASSUME IInv, NEW r \in wire, Drop(r)
  PROVE  IInv'
<1> USE DEF IInv, brokerVars, Drop
<1>1. TypeOK'
  BY DEF TypeOK
<1>2. /\ AttemptInv'
      /\ r.m \in Messages /\ copies[r.m] = {} /\ ~Exposed(r.m)'
      /\ \A m \in Messages \ {r.m} : Exposed(m)' <=> Exposed(m)
  BY RequestGone DEF At
<1>3. \A m \in Messages : (Exposed(m)' => Exposed(m)) /\ (NeverSent(m) => NeverSent(m)')
  BY <1>2 DEF NeverSent
<1>4. RowInv'
  BY <1>3 DEF RowInv
<1>5. CopyInv'
  BY <1>3 DEF CopyInv
<1>6. WorkerInv'
  <2> SUFFICES ASSUME NEW q \in Publishers PROVE Sound(worker[q])'
    BY DEF WorkerInv
  <2>1. PICK u \in Workers : u = worker[q] /\ u = worker'[q] /\ Sound(u)
    BY DEF WorkerInv, TypeOK
  <2>2. Sound(u)'
    BY <1>1, <1>3, <2>1, SoundStays DEF TypeOK
  <2> QED
    BY <2>1, <2>2, SoundOfEqual
<1> QED
  BY <1>1, <1>2, <1>4, <1>5, <1>6

\* What storing a message does to the stream's invariant.
LEMMA StoreKeepsCopies ==
  ASSUME IInv, NEW m \in Messages, NEW own \in BOOLEAN, Store(m, own),
         own => copies[m] = {} /\ ~Exposed(m)',
         \A m2 \in Messages : Exposed(m2)' => Exposed(m2)
  PROVE  /\ CopyInv' /\ last' = last + 1 /\ last \in Nat
         /\ stream' \subseteq Stored
         /\ dupe' \in [Messages -> [seq : Nat, at : Nat]]
         /\ copies' \in [Messages -> SUBSET (Nat \ {0})]
         /\ copies'[m] = IF own THEN copies[m] \cup {last + 1} ELSE copies[m]
         /\ \A m2 \in Messages \ {m} : copies'[m2] = copies[m2]
<1> USE DEF IInv
<1>0. last \in Nat /\ now \in Nat /\ copies \in [Messages -> SUBSET (Nat \ {0})]
  BY DEF TypeOK
<1>1. /\ last' = last + 1
      /\ stream' = stream \cup {[seq |-> last + 1, m |-> m, own |-> own, at |-> now]}
      /\ dupe' = [dupe EXCEPT ![m] = [seq |-> last + 1, at |-> now]]
  BY DEF Store
<1>2. /\ copies'[m] = IF own THEN copies[m] \cup {last + 1} ELSE copies[m]
      /\ \A m2 \in Messages \ {m} : copies'[m2] = copies[m2]
      /\ copies' \in [Messages -> SUBSET (Nat \ {0})]
  BY <1>0 DEF Store
<1>3. stream' \subseteq Stored
  BY <1>0, <1>1 DEF TypeOK, Stored
<1>4. dupe' \in [Messages -> [seq : Nat, at : Nat]]
  BY <1>0, <1>1 DEF TypeOK
<1>5. \A m2 \in Messages : last + 1 \notin copies[m2]
  BY <1>0 DEF CopyInv
<1>6. \A m2 \in Messages : /\ copies'[m2] \subseteq 1..last'
                           /\ \A q1, q2 \in copies'[m2] : q1 = q2
                           /\ copies'[m2] # {} => ~Exposed(m2)'
  <2> TAKE m2 \in Messages
  <2>1. copies[m2] \subseteq 1..last /\ (\A q1, q2 \in copies[m2] : q1 = q2)
        /\ (copies[m2] # {} => ~Exposed(m2))
    BY DEF CopyInv
  <2>2. CASE m2 = m /\ own
    BY <1>0, <1>1, <1>2, <2>1, <2>2
  <2>3. CASE ~(m2 = m /\ own)
    <3>1. copies'[m2] = copies[m2]
      BY <1>2, <2>3
    <3> QED
      BY <1>0, <1>1, <2>1, <3>1
  <2> QED
    BY <2>2, <2>3
<1>7. \A s \in stream' : s.seq \in 1..last' /\ (s.own <=> s.seq \in copies'[s.m])
  <2> TAKE s \in stream'
  <2>1. CASE s \in stream
    <3>1. s.seq \in 1..last /\ (s.own <=> s.seq \in copies[s.m]) /\ s.m \in Messages
      BY <2>1 DEF CopyInv, TypeOK, Stored
    <3>2. s.seq # last + 1
      BY <1>0, <3>1
    <3> QED
      BY <1>0, <1>1, <1>2, <3>1, <3>2
  <2>2. CASE s = [seq |-> last + 1, m |-> m, own |-> own, at |-> now]
    <3>1. s.seq = last + 1 /\ s.m = m /\ s.own = own
      BY <2>2
    <3> QED
      BY <1>0, <1>1, <1>2, <1>5, <3>1
  <2> QED
    BY <1>1, <2>1, <2>2
<1>8. \A s \in stream', m2 \in Messages : s.seq \in copies'[m2] => s.m = m2
  <2> TAKE s \in stream', m2 \in Messages
  <2>1. CASE s \in stream
    <3>1. s.seq \in 1..last /\ (s.seq \in copies[m2] => s.m = m2)
      BY <2>1 DEF CopyInv
    <3>2. s.seq # last + 1
      BY <1>0, <3>1
    <3> QED
      BY <1>2, <3>1, <3>2
  <2>2. CASE s = [seq |-> last + 1, m |-> m, own |-> own, at |-> now]
    <3>1. s.seq = last + 1 /\ s.m = m
      BY <2>2
    <3> QED
      BY <1>2, <1>5, <3>1
  <2> QED
    BY <1>1, <2>1, <2>2
<1> QED
  BY <1>0, <1>1, <1>2, <1>3, <1>4, <1>6, <1>7, <1>8 DEF CopyInv

LEMMA AnswerFacts ==
  ASSUME IInv, NEW r \in wire, NEW reply \in {"stored", "duplicate", "capacity"}, NEW q \in Nat,
         Answer(r, reply, q)
  PROVE  /\ worker' \in [Publishers -> Workers]
         /\ \A p \in Publishers : /\ At(p, "claimed")' <=> At(p, "claimed")
                                  /\ At(p, "claimed") => worker'[p] = worker[p]
         /\ \A p \in Publishers :
              \/ worker'[p] = worker[p]
              \/ /\ worker[p].pc = "sending" /\ worker[p].m = r.m /\ worker[p].tok = r.tok
                 /\ worker'[p].pc = "acked" /\ worker'[p].m = r.m /\ worker'[p].tok = r.tok
                 /\ worker'[p].reply = reply /\ worker'[p].seq = q
<1>1. \A p \in Publishers : worker[p] \in Workers
  BY DEF IInv, TypeOK
<1>2. \A p \in Publishers :
        worker'[p] = IF At(p, "sending") /\ worker[p].m = r.m /\ worker[p].tok = r.tok
                     THEN [worker[p] EXCEPT !.pc = "acked", !.reply = reply, !.seq = q]
                     ELSE worker[p]
  BY DEF Answer
<1>3. \A p \in Publishers : worker'[p] \in Workers
  <2> TAKE p \in Publishers
  <2>1. [worker[p] EXCEPT !.pc = "acked", !.reply = reply, !.seq = q] \in Workers
    BY ZenonT(40), <1>1 DEF Workers
  <2> QED
    BY <1>1, <1>2, <2>1
<1>4. worker' \in [Publishers -> Workers]
  BY <1>3 DEF Answer
<1>5. \A p \in Publishers :
        \/ worker'[p] = worker[p]
        \/ /\ worker[p].pc = "sending" /\ worker[p].m = r.m /\ worker[p].tok = r.tok
           /\ worker'[p].pc = "acked" /\ worker'[p].m = r.m /\ worker'[p].tok = r.tok
           /\ worker'[p].reply = reply /\ worker'[p].seq = q
  <2> TAKE p \in Publishers
  <2>1. /\ [worker[p] EXCEPT !.pc = "acked", !.reply = reply, !.seq = q].pc = "acked"
        /\ [worker[p] EXCEPT !.pc = "acked", !.reply = reply, !.seq = q].m = worker[p].m
        /\ [worker[p] EXCEPT !.pc = "acked", !.reply = reply, !.seq = q].tok = worker[p].tok
        /\ [worker[p] EXCEPT !.pc = "acked", !.reply = reply, !.seq = q].reply = reply
        /\ [worker[p] EXCEPT !.pc = "acked", !.reply = reply, !.seq = q].seq = q
    BY <1>1 DEF Workers
  <2> QED
    BY <1>2, <2>1 DEF At
<1> QED
  BY <1>4, <1>5 DEF At

LEMMA LandStep ==
  ASSUME IInv, NEW r \in wire, Land(r)
  PROVE  IInv'
<1> USE DEF IInv
<1>0. /\ wire' = wire \ {r} /\ UNCHANGED <<now, row, crashes>>
      /\ last \in Nat /\ r.m \in Messages /\ dupe[r.m].seq \in Nat
      /\ \A p \in Publishers : worker[p] \in Workers
  BY DEF Land, TypeOK, Requests
<1>1. PICK reply \in {"stored", "duplicate", "capacity"}, q \in Nat :
        /\ Answer(r, reply, q)
        /\ \/ reply # "stored" /\ UNCHANGED brokerVars
           \/ reply = "stored" /\ q = last + 1 /\ Store(r.m, TRUE)
  <2>1. CASE Answer(r, "duplicate", dupe[r.m].seq) /\ UNCHANGED brokerVars
    BY <1>0, <2>1
  <2>2. CASE Answer(r, "capacity", 0) /\ UNCHANGED brokerVars
    BY <2>2
  <2>3. CASE Store(r.m, TRUE) /\ Answer(r, "stored", last + 1)
    <3>1. last + 1 \in Nat
      BY <1>0
    <3> QED
      BY <2>3, <3>1
  <2> QED
    BY <2>1, <2>2, <2>3 DEF Land
<1>2. /\ worker' \in [Publishers -> Workers]
      /\ \A p \in Publishers : /\ At(p, "claimed")' <=> At(p, "claimed")
                               /\ At(p, "claimed") => worker'[p] = worker[p]
  BY <1>1, AnswerFacts
<1>3. \A p \in Publishers :
        \/ worker'[p] = worker[p]
        \/ /\ worker[p].pc = "sending" /\ worker[p].m = r.m /\ worker[p].tok = r.tok
           /\ worker'[p].pc = "acked" /\ worker'[p].m = r.m /\ worker'[p].tok = r.tok
           /\ worker'[p].reply = reply /\ worker'[p].seq = q
  BY <1>1, AnswerFacts
<1>4. /\ AttemptInv'
      /\ copies[r.m] = {} /\ ~Exposed(r.m)' /\ ~NeverSent(r.m)
      /\ \A m \in Messages \ {r.m} : Exposed(m)' <=> Exposed(m)
  BY <1>0, <1>2, RequestGone
<1>5. \A m \in Messages : Exposed(m)' => Exposed(m)
  BY <1>4
<1>6. /\ CopyInv' /\ last <= last' /\ last' \in Nat
      /\ stream' \subseteq Stored
      /\ dupe' \in [Messages -> [seq : Nat, at : Nat]]
      /\ copies' \in [Messages -> SUBSET (Nat \ {0})]
      /\ reply = "stored" => q \in copies'[r.m]
      /\ reply # "stored" => copies'[r.m] = {}
      /\ \A m \in Messages \ {r.m} : copies'[m] = copies[m]
      /\ \A m \in Messages : /\ copies[m] \subseteq copies'[m]
                             /\ \A q2 \in copies'[m] \ copies[m] : q2 > last
  <2>1. CASE reply # "stored" /\ UNCHANGED brokerVars
    BY <1>0, <1>4, <1>5, <2>1 DEF CopyInv, TypeOK, brokerVars
  <2>2. CASE reply = "stored" /\ q = last + 1 /\ Store(r.m, TRUE)
    <3>1. /\ CopyInv' /\ last' = last + 1
          /\ stream' \subseteq Stored
          /\ dupe' \in [Messages -> [seq : Nat, at : Nat]]
          /\ copies' \in [Messages -> SUBSET (Nat \ {0})]
          /\ copies'[r.m] = copies[r.m] \cup {last + 1}
          /\ \A m \in Messages \ {r.m} : copies'[m] = copies[m]
      BY <1>0, <1>4, <1>5, <2>2, StoreKeepsCopies
    <3> QED
      BY <1>0, <1>4, <2>2, <3>1
  <2> QED
    BY <1>1, <2>1, <2>2
<1>7. \A m \in Messages : NeverSent(m) => NeverSent(m)'
  BY <1>4, <1>6 DEF NeverSent
<1>8. TypeOK'
  BY <1>0, <1>2, <1>6 DEF TypeOK
<1>9. RowInv'
  BY <1>0, <1>6, <1>7 DEF RowInv
<1>10. WorkerInv'
  <2> SUFFICES ASSUME NEW p \in Publishers PROVE Sound(worker[p])'
    BY DEF WorkerInv
  <2>1. CASE worker'[p] = worker[p]
    <3>1. PICK u \in Workers : u = worker[p] /\ u = worker'[p] /\ Sound(u)
      BY <1>0, <2>1 DEF WorkerInv
    <3>2. Sound(u)'
      BY <1>0, <1>6, <1>7, <1>8, <3>1, SoundStays
    <3> QED
      BY <3>1, <3>2, SoundOfEqual
  <2>2. CASE /\ worker[p].pc = "sending" /\ worker[p].m = r.m /\ worker[p].tok = r.tok
             /\ worker'[p].pc = "acked" /\ worker'[p].m = r.m /\ worker'[p].tok = r.tok
             /\ worker'[p].reply = reply /\ worker'[p].seq = q
    <3>1. PICK u \in Workers : u = worker'[p]
      BY <1>2
    <3>2. SoundSnapshot(u)' /\ SoundClaim(u)' /\ SoundLookup(u)'
      BY <2>2, <3>1 DEF SoundSnapshot, SoundClaim, SoundLookup, LookingUp
    <3>3. r.tok # 0 /\ r.tok <= row[r.m].token
      BY <2>2 DEF WorkerInv, Sound, SoundAttempt
    <3>4. reply # "stored" => NeverSent(r.m)'
      BY <1>4, <1>6 DEF NeverSent
    <3>5. SoundAttempt(u)'
      BY <1>0, <1>6, <2>2, <3>1, <3>3, <3>4 DEF SoundAttempt
    <3>6. Sound(u)'
      BY <3>2, <3>5 DEF Sound
    <3> QED
      BY <3>1, <3>6, SoundOfEqual
  <2> QED
    BY <1>3, <2>1, <2>2
<1> QED
  BY <1>4, <1>6, <1>8, <1>9, <1>10

\* Only the broker or the clock moves: no attempt becomes exposed.
LEMMA ForgeStep ==
  ASSUME IInv, NEW m \in Messages, Forge(m)
  PROVE  IInv'
<1> USE DEF IInv
<1>1. /\ UNCHANGED <<now, row, wire, worker, crashes>> /\ Store(m, FALSE)
      /\ \A p \in Publishers : worker[p] \in Workers
  BY DEF Forge, TypeOK
<1>2. \A m2 \in Messages : Exposed(m2)' <=> Exposed(m2)
  BY <1>1 DEF Exposed, InFlight, At
<1>3. /\ CopyInv' /\ last' = last + 1 /\ last \in Nat
      /\ stream' \subseteq Stored
      /\ dupe' \in [Messages -> [seq : Nat, at : Nat]]
      /\ copies' \in [Messages -> SUBSET (Nat \ {0})]
      /\ \A m2 \in Messages : copies'[m2] = copies[m2]
  BY <1>1, <1>2, StoreKeepsCopies
<1>4. TypeOK'
  BY <1>1, <1>3 DEF TypeOK
<1>5. \A m2 \in Messages : NeverSent(m2) <=> NeverSent(m2)'
  BY <1>2, <1>3 DEF NeverSent
<1>6. RowInv'
  BY <1>1, <1>3, <1>5 DEF RowInv
<1>7. AttemptInv'
  BY <1>1, AttemptStays DEF At
<1>8. WorkerInv'
  <2> SUFFICES ASSUME NEW q \in Publishers PROVE Sound(worker[q])'
    BY DEF WorkerInv
  <2>1. PICK u \in Workers : u = worker[q] /\ u = worker'[q] /\ Sound(u)
    BY <1>1 DEF WorkerInv
  <2>2. Sound(u)'
    BY <1>1, <1>3, <1>4, <1>5, <2>1, SoundStays
  <2> QED
    BY <2>1, <2>2, SoundOfEqual
<1> QED
  BY <1>3, <1>4, <1>6, <1>7, <1>8

LEMMA ExpireStep ==
  ASSUME IInv, Expire
  PROVE  IInv'
<1> USE DEF IInv
<1>1. /\ UNCHANGED <<now, row, wire, last, dupe, copies, worker, crashes>>
      /\ stream' \subseteq stream
      /\ \A p \in Publishers : worker[p] \in Workers
  BY DEF Expire, TypeOK
<1>2. \A m \in Messages : (Exposed(m)' <=> Exposed(m)) /\ (NeverSent(m)' <=> NeverSent(m))
  BY <1>1 DEF Exposed, NeverSent, InFlight, At
<1>3. TypeOK'
  BY <1>1 DEF TypeOK
<1>4. RowInv'
  BY <1>1, <1>2 DEF RowInv
<1>5. CopyInv'
  BY <1>1, <1>2 DEF CopyInv
<1>6. AttemptInv'
  BY <1>1, AttemptStays DEF At
<1>7. WorkerInv'
  <2> SUFFICES ASSUME NEW q \in Publishers PROVE Sound(worker[q])'
    BY DEF WorkerInv
  <2>1. PICK u \in Workers : u = worker[q] /\ u = worker'[q] /\ Sound(u)
    BY <1>1 DEF WorkerInv
  <2>2. Sound(u)'
    BY <1>1, <1>2, <1>3, <2>1, SoundStays DEF TypeOK
  <2> QED
    BY <2>1, <2>2, SoundOfEqual
<1> QED
  BY <1>3, <1>4, <1>5, <1>6, <1>7

LEMMA TickStep ==
  ASSUME IInv, Tick
  PROVE  IInv'
<1> USE DEF IInv, brokerVars
<1>1. /\ now' = now + 1 /\ now \in Nat /\ UNCHANGED <<row, wire, stream, last, dupe, copies, worker, crashes>>
      /\ \A p \in Publishers : worker[p] \in Workers
      /\ \A r \in wire : r \in Requests /\ row[r.m] \in Rows
  BY DEF Tick, TypeOK, Requests
<1>2. /\ \A r \in wire : now < r.until
      /\ \A p \in Publishers :
           /\ worker[p].pc \in {"stamped", "claimed"} => now < worker[p].at + WriteStall
           /\ At(p, "absent") => now < worker[p].at + ReplyStall
  BY DEF Tick
<1>3. \A m \in Messages : (Exposed(m)' <=> Exposed(m)) /\ (NeverSent(m)' <=> NeverSent(m))
  BY <1>1 DEF Exposed, NeverSent, InFlight, At
<1>4. TypeOK'
  BY <1>1 DEF TypeOK
<1>5. RowInv'
  BY <1>1, <1>3 DEF RowInv
<1>6. CopyInv'
  BY <1>1, <1>3 DEF CopyInv
<1>7. AttemptInv'
  <2>1. \A r \in wire : r.until \in (now + 1)..(row[r.m].claimedAt + WriteStall + PublishTimeout)
    BY <1>1, <1>2 DEF AttemptInv, Requests
  <2>2. \A p \in Publishers : At(p, "claimed") => now + 1 <= worker[p].at + WriteStall
    BY <1>1, <1>2, ConfigAssumption DEF At, Workers
  <2> QED
    BY <1>1, <2>1, <2>2 DEF AttemptInv, At, InFlight
<1>8. WorkerInv'
  <2> SUFFICES ASSUME NEW q \in Publishers PROVE Sound(worker[q])'
    BY DEF WorkerInv
  <2>1. PICK u \in Workers : /\ u = worker[q] /\ u = worker'[q] /\ Sound(u)
                             /\ u.pc = "stamped" => now < u.at + WriteStall
                             /\ u.pc = "absent" => now < u.at + ReplyStall
    BY <1>1, <1>2 DEF WorkerInv, At
  <2>2. u.at \in Nat
    BY DEF Workers
  <2>3. /\ now <= now'
        /\ u.pc = "stamped" => now' <= u.at + WriteStall
        /\ u.pc = "absent" => now' <= u.at + ReplyStall
    BY <1>1, <2>1, <2>2, ConfigAssumption
  <2>4. Sound(u)'
    BY <1>1, <1>3, <1>4, <2>1, <2>3, SoundStays DEF TypeOK
  <2> QED
    BY <2>1, <2>4, SoundOfEqual
<1> QED
  BY <1>4, <1>5, <1>6, <1>7, <1>8

-----------------------------------------------------------------------------
LEMMA PublisherSteps ==
  ASSUME StallsAreShort, IInv, NEW p \in Publishers, Publisher(p)
  PROVE  IInv'
<1>0. crashes \in Nat
  BY DEF IInv, TypeOK
<1>1. CASE Stamp(p)
  BY <1>1, StampStep
<1>2. CASE Claim(p)
  BY <1>2, ClaimStep
<1>3. CASE ClaimFails(p) \/ Superseded(p) \/ LeaveYoung(p)
  BY <1>0, <1>3, ReturnStep DEF ClaimFails, Superseded, LeaveYoung
<1>4. CASE Send(p)
  BY <1>4, SendStep
<1>5. CASE LateRetry(p)
  BY <1>5, FinishStep DEF LateRetry
<1>6. CASE GiveUp(p)
  BY <1>6, FinishStep DEF GiveUp
<1>7. CASE FinishAcked(p)
  BY <1>7, FinishAckedStep
<1>8. CASE ReadState(p)
  BY <1>8, ReadStateStep
<1>9. CASE Scan(p)
  BY <1>9, ScanStep
<1>10. CASE FinalState(p)
  BY <1>10, FinalStateStep
<1>11. CASE Hold(p)
  BY <1>11, MoveSnapshotStep DEF Hold, LookingUp
<1>12. CASE AdoptFound(p)
  BY <1>12, AdoptFoundStep
<1>13. CASE RefuseForged(p)
  BY <1>13, MoveSnapshotStep DEF RefuseForged, LookingUp, At
<1>14. CASE Retry(p)
  BY <1>14, RetryStep
<1> QED
  BY <1>1, <1>2, <1>3, <1>4, <1>5, <1>6, <1>7, <1>8, <1>9, <1>10, <1>11, <1>12, <1>13, <1>14
     DEF Publisher

LEMMA StepInvariant ==
  ASSUME StallsAreShort, IInv, [Next]_vars
  PROVE  IInv'
<1>1. ASSUME NEW m \in Messages, Commit(m) PROVE IInv'
  BY <1>1, CommitStep
<1>2. ASSUME NEW p \in Publishers, NEW m \in Messages, Begin(p, m) PROVE IInv'
  BY <1>2, BeginStep
<1>3. ASSUME NEW p \in Publishers, Publisher(p) PROVE IInv'
  BY <1>3, PublisherSteps
<1>4. ASSUME NEW p \in Publishers, Crash(p) PROVE IInv'
  BY <1>4, ReturnStep DEF Crash, IInv, TypeOK
<1>5. CASE Broker
  BY <1>5, LandStep, DropStep, ForgeStep, ExpireStep DEF Broker
<1>6. CASE Tick
  BY <1>6, TickStep
<1>7. CASE UNCHANGED vars
  <2> USE <1>7 DEF IInv, vars, brokerVars
  <2>1. TypeOK' /\ RowInv' /\ CopyInv' /\ AttemptInv'
    BY DEF TypeOK, RowInv, CopyInv, AttemptInv, NeverSent, Exposed, InFlight, At
  <2>2. WorkerInv'
    BY DEF WorkerInv, Sound, SoundSnapshot, SoundClaim, SoundAttempt, SoundLookup,
           NeverSent, Exposed, InFlight, At
  <2> QED
    BY <2>1, <2>2
<1> QED
  BY <1>1, <1>2, <1>3, <1>4, <1>5, <1>6, <1>7 DEF Next

(* With stalls shorter than the margin claim_stale_s leaves, the invariant *)
(* of rows, attempts, lookups and stream holds in every reachable state.   *)
THEOREM OutboxInvariant ==
  ASSUME StallsAreShort
  PROVE  Spec => []IInv
<1>1. Init => IInv
  BY InitInvariant
<1>2. IInv /\ [Next]_vars => IInv'
  BY StepInvariant
<1> QED
  BY <1>1, <1>2, PTL DEF Spec

(* No pointer is ever stored twice, whatever the duplicate window.         *)
THEOREM NoSecondCopy ==
  ASSUME StallsAreShort
  PROVE  Spec => []AtMostOneCopy
<1>1. IInv => AtMostOneCopy
  <2> SUFFICES ASSUME IInv, NEW m \in Messages PROVE Cardinality(copies[m]) <= 1
    BY DEF AtMostOneCopy
  <2>1. CASE copies[m] = {}
    <3>1. Cardinality(copies[m]) = 0
      BY <2>1, FS_EmptySet
    <3> QED
      BY <3>1
  <2>2. CASE copies[m] # {}
    <3>1. PICK q \in copies[m] : TRUE
      BY <2>2
    <3>2. copies[m] = {q}
      BY <3>1 DEF IInv, CopyInv
    <3>3. Cardinality(copies[m]) = 1
      BY <3>2, FS_Singleton
    <3> QED
      BY <3>3
  <2> QED
    BY <2>1, <2>2
<1> QED
  BY <1>1, OutboxInvariant, PTL

(* PUBLISHED is never recorded of a pointer that was not stored.           *)
THEOREM PublishedWasStored ==
  ASSUME StallsAreShort
  PROVE  Spec => []PublishedIsStored
<1>1. IInv => PublishedIsStored
  BY DEF IInv, RowInv, PublishedIsStored
<1> QED
  BY <1>1, OutboxInvariant, PTL

(* A capacity refusal is never recorded of a pointer that was or may yet   *)
(* be stored.                                                              *)
THEOREM RefusedIsNotStored ==
  ASSUME StallsAreShort
  PROVE  Spec => []RefusedIsAbsent
<1>1. IInv => RefusedIsAbsent
  BY DEF IInv, RowInv, RefusedIsAbsent, NeverSent, Exposed
<1> QED
  BY <1>1, OutboxInvariant, PTL

\* A row moves from a claim of one's own or from the snapshot, never from an outcome.
LEMMA OutcomeStep ==
  ASSUME IInv, [Next]_vars, NEW m \in Messages
  PROVE  KeepsOutcome(m)
<1> USE DEF KeepsOutcome
<1>0. row[m] \in Rows /\ row \in [Messages -> Rows] /\ \A p \in Publishers : worker[p] \in Workers
  BY DEF IInv, TypeOK
<1>1. CASE row' = row
  BY <1>1
<1>2. ASSUME NEW m2 \in Messages, Commit(m2) PROVE KeepsOutcome(m)
  <2>1. row[m2].state = "none" /\ (m2 # m => row'[m] = row[m])
    BY <1>0, <1>2 DEF Commit
  <2> QED
    BY <2>1 DEF Settled, Recoverable
<1>3. ASSUME NEW p \in Publishers, NEW s \in {"RECONCILE_HOLD", "UNKNOWN_PENDING"}, Finish(p, s)
      PROVE  KeepsOutcome(m)
  BY <1>0, <1>3 DEF Finish, Matches, SetRow, Settled, Recoverable, Rows
<1>4. ASSUME NEW p \in Publishers, NEW s \in {"RECONCILE_HOLD", "CONFLICT_HOLD"}, MoveSnapshot(p, s),
             worker[p].pc \in LookingUp
      PROVE  KeepsOutcome(m)
  <2>1. worker[p].snapState \in Recoverable
    BY <1>4 DEF IInv, WorkerInv, Sound, SoundSnapshot
  <2> QED
    BY <1>0, <1>4, <2>1 DEF MoveSnapshot, Matches, SetRow, Settled, Recoverable, Rows
<1>5. ASSUME NEW p \in Publishers, Claim(p) PROVE KeepsOutcome(m)
  <2>1. worker[p].snapState \in Recoverable \cup {"INTENDED"} /\ row[worker[p].m].state = worker[p].snapState
    BY <1>5 DEF Claim, IInv, WorkerInv, Sound, SoundSnapshot, Matches, At
  <2> QED
    BY <1>0, <1>5, <2>1 DEF Claim, Settled, Recoverable, Rows
<1>6. ASSUME NEW p \in Publishers, FinishAcked(p) PROVE KeepsOutcome(m)
  <2>1. row[worker[p].m].state = "SEND_CLAIMED" /\ worker[p].reply \in {"stored", "duplicate", "capacity"}
    BY <1>0, <1>6 DEF FinishAcked, Matches, IInv, WorkerInv, Sound, SoundAttempt, Workers, At
  <2> QED
    BY <1>0, <1>6, <2>1 DEF FinishAcked, Settled, Recoverable, Rows
<1>7. ASSUME NEW p \in Publishers, AdoptFound(p) PROVE KeepsOutcome(m)
  <2>1. worker[p].snapState \in Recoverable
    BY <1>7 DEF AdoptFound, At, LookingUp, IInv, WorkerInv, Sound, SoundSnapshot
  <2> QED
    BY <1>0, <1>7, <2>1 DEF AdoptFound, Matches, Settled, Recoverable, Rows
<1>8. ASSUME NEW p \in Publishers, Publisher(p) PROVE KeepsOutcome(m)
  <2>1. CASE Stamp(p) \/ ClaimFails(p) \/ Send(p) \/ Superseded(p) \/ ReadState(p) \/ Scan(p)
             \/ FinalState(p) \/ LeaveYoung(p) \/ Retry(p)
    BY <1>1, <2>1 DEF Stamp, ClaimFails, Send, Superseded, ReadState, Scan, FinalState, LeaveYoung, Retry
  <2>2. CASE LateRetry(p) \/ GiveUp(p)
    BY <1>3, <2>2 DEF LateRetry, GiveUp
  <2>3. CASE Hold(p) \/ RefuseForged(p)
    BY <1>4, <2>3 DEF Hold, RefuseForged, LookingUp, At
  <2> QED
    BY <1>5, <1>6, <1>7, <1>8, <2>1, <2>2, <2>3 DEF Publisher
<1> QED
  BY <1>1, <1>2, <1>8 DEF Next, Begin, Crash, Broker, Land, Drop, Forge, Expire, Tick, vars

(* An outcome once recorded is never changed, by whoever comes late.       *)
THEOREM OutcomesStay ==
  ASSUME StallsAreShort
  PROVE  Spec => OutcomesAreFinal
<1>1. IInv /\ [Next]_vars => [\A m \in Messages : KeepsOutcome(m)]_vars
  BY OutcomeStep
<1> QED
  BY <1>1, OutboxInvariant, PTL DEF Spec, OutcomesAreFinal

-----------------------------------------------------------------------------
(* The outbox keeps its promise. *)

Outcomes == [m \in Messages |-> OutcomeOf(m)]

Silent == UNCHANGED Promise!promiseVars

\* A row that is not settled may move once, to an outcome that is so.
LEMMA MoveIsPromised ==
  ASSUME TypeOK, NEW m \in Messages,
         row' \in [Messages -> Rows],
         \A n \in Messages : n # m => row'[n] = row[n],
         copies' = copies,
         row[m].state \in {"INTENDED"} \cup Recoverable,
         row'[m].state \in Recoverable \cup Settled,
         row'[m].state = "PUBLISHED" => row'[m].seq \in copies[m],
         row'[m].state = "REJECTED_CAPACITY" => copies[m] = {}
  PROVE  Promise!Publish(m) \/ Promise!Refuse(m) \/ Promise!Conflict(m) \/ Silent
<1>1. OutcomeOf(m) = [says |-> "pending", seq |-> 0]
  BY DEF OutcomeOf, Recoverable
<1>2. \A n \in Messages : n # m => OutcomeOf(n)' = OutcomeOf(n)
  BY DEF OutcomeOf
<1>3. Outcomes' = [Outcomes EXCEPT ![m] = OutcomeOf(m)']
  BY <1>2 DEF Outcomes
<1>4. Outcomes[m] = [says |-> "pending", seq |-> 0]
  BY <1>1 DEF Outcomes
<1>5. CASE row'[m].state = "PUBLISHED"
  <2>1. OutcomeOf(m)' = [says |-> "published", seq |-> row'[m].seq]
    BY <1>5 DEF OutcomeOf
  <2> QED
    BY <1>3, <1>4, <1>5, <2>1 DEF Promise!Publish, Promise!Says, Promise!Published, Outcomes
<1>6. CASE row'[m].state = "REJECTED_CAPACITY"
  <2>1. OutcomeOf(m)' = [says |-> "refused", seq |-> 0]
    BY <1>6 DEF OutcomeOf
  <2> QED
    BY <1>3, <1>4, <1>6, <2>1 DEF Promise!Refuse, Promise!Says, Outcomes
<1>7. CASE row'[m].state = "CONFLICT_HOLD"
  <2>1. OutcomeOf(m)' = [says |-> "conflict", seq |-> 0]
    BY <1>7 DEF OutcomeOf
  <2> QED
    BY <1>3, <1>4, <2>1 DEF Promise!Conflict, Promise!Says, Outcomes
<1>8. CASE row'[m].state \in Recoverable
  <2>1. OutcomeOf(m)' = OutcomeOf(m)
    BY <1>1, <1>8 DEF OutcomeOf, Recoverable
  <2>2. Outcomes' = Outcomes
    BY <1>3, <2>1 DEF Outcomes
  <2> QED
    BY <2>2 DEF Silent, Promise!promiseVars, Outcomes
<1> QED
  BY <1>5, <1>6, <1>7, <1>8 DEF Settled

\* A step that leaves the rows and our copies alone is silent.
LEMMA UnmovedIsSilent ==
  ASSUME row' = row, copies' = copies
  PROVE  Silent
BY DEF Silent, Promise!promiseVars, OutcomeOf

LEMMA CommitIsPromised ==
  ASSUME IInv, NEW m \in Messages, Commit(m)
  PROVE  Promise!Commit(m)
<1>1. row \in [Messages -> Rows] /\ row[m] \in Rows
  BY DEF IInv, TypeOK
<1>2. /\ row[m].state = "none" /\ row'[m].state = "INTENDED" /\ copies' = copies
      /\ \A n \in Messages : n # m => row'[n] = row[n]
  BY <1>1 DEF Commit, Rows, brokerVars
<1>3. /\ OutcomeOf(m) = [says |-> "nothing", seq |-> 0]
      /\ OutcomeOf(m)' = [says |-> "pending", seq |-> 0]
      /\ \A n \in Messages : n # m => OutcomeOf(n)' = OutcomeOf(n)
  BY <1>2 DEF OutcomeOf
<1>4. Outcomes' = [Outcomes EXCEPT ![m] = [says |-> "pending", seq |-> 0]]
  BY <1>3 DEF Outcomes
<1> QED
  BY <1>2, <1>3, <1>4 DEF Promise!Commit, Promise!Says, Outcomes

\* A request that is stored is the first of its pointer, which nobody has refused.
LEMMA LandIsPromised ==
  ASSUME IInv, NEW r \in wire, Land(r)
  PROVE  Promise!Enter(r.m) \/ Silent
<1>1. CASE UNCHANGED brokerVars
  BY <1>1, UnmovedIsSilent DEF Land, brokerVars
<1>2. CASE Store(r.m, TRUE)
  <2> DEFINE m == r.m
  <2>1. /\ m \in Messages /\ row[m] \in Rows /\ last \in Nat
        /\ copies \in [Messages -> SUBSET (Nat \ {0})]
    BY DEF IInv, TypeOK, Requests
  <2>2. Exposed(m)
    BY DEF Exposed, InFlight
  <2>3. copies[m] = {}
    BY <2>1, <2>2 DEF IInv, CopyInv
  <2>4. row[m].state \notin {"none", "INTENDED", "PUBLISHED", "REJECTED_CAPACITY"}
    BY <2>1, <2>2, <2>3 DEF IInv, RowInv, NeverSent
  <2>5. OutcomeOf(m) \in {[says |-> "pending", seq |-> 0], [says |-> "conflict", seq |-> 0]}
    BY <2>4 DEF OutcomeOf
  <2>6. copies' = [copies EXCEPT ![m] = {last + 1}] /\ copies'[m] = {last + 1}
    BY <1>2, <2>1, <2>3 DEF Store
  <2>7. \A n \in Messages : \A q \in copies[n] : q < last + 1
    <3> SUFFICES ASSUME NEW n \in Messages, NEW q \in copies[n] PROVE q < last + 1
      OBVIOUS
    <3>1. q \in 1..last
      BY DEF IInv, CopyInv
    <3> QED
      BY <2>1, <3>1
  <2>8. Outcomes' = Outcomes
    BY DEF Land, Outcomes, OutcomeOf
  <2>9. \E seq \in copies'[m] :
          /\ \A n \in Messages : \A q \in copies[n] : q < seq
          /\ copies' = [copies EXCEPT ![m] = {seq}]
    BY <2>6, <2>7
  <2> QED
    BY <2>1, <2>3, <2>5, <2>8, <2>9 DEF Promise!Enter, Promise!Says, Outcomes
<1> QED
  BY <1>1, <1>2 DEF Land

\* The steps of a publisher that move a row.
LEMMA PublisherIsPromised ==
  ASSUME IInv, row' \in [Messages -> Rows], NEW p \in Publishers, Publisher(p)
  PROVE  \/ Promise!Publish(worker[p].m) \/ Promise!Refuse(worker[p].m)
         \/ Promise!Conflict(worker[p].m) \/ Silent
<1> DEFINE w == worker[p]
           m == w.m
           Kept == \/ Promise!Publish(m) \/ Promise!Refuse(m) \/ Promise!Conflict(m) \/ Silent
<1>0. /\ w \in Workers /\ m \in Messages /\ w.seq \in Nat /\ Sound(w)
      /\ row[m] \in Rows /\ row \in [Messages -> Rows] /\ TypeOK
  BY DEF IInv, TypeOK, Workers, WorkerInv
<1>1. CASE row' = row /\ copies' = copies
  BY <1>1, UnmovedIsSilent
<1>2. ASSUME NEW s \in {"RECONCILE_HOLD", "UNKNOWN_PENDING"}, Finish(p, s), UNCHANGED copies
      PROVE  Kept
  <2>1. CASE row[m].state = "SEND_CLAIMED" /\ row' = [row EXCEPT ![m].state = s]
    BY <1>0, <1>2, <2>1, MoveIsPromised DEF Recoverable, Rows
  <2> QED
    BY <1>1, <1>2, <2>1 DEF Finish, Matches, SetRow
<1>3. ASSUME NEW s \in {"RECONCILE_HOLD", "CONFLICT_HOLD"}, MoveSnapshot(p, s),
             w.pc \in LookingUp, UNCHANGED copies
      PROVE  Kept
  <2>1. w.snapState \in Recoverable
    BY <1>0, <1>3 DEF Sound, SoundSnapshot
  <2>2. CASE row[m].state \in Recoverable /\ row' = [row EXCEPT ![m].state = s]
    BY <1>0, <1>3, <2>2, MoveIsPromised DEF Recoverable, Settled, Rows
  <2> QED
    BY <1>1, <1>3, <2>1, <2>2 DEF MoveSnapshot, Matches, SetRow
<1>4. CASE Claim(p)
  <2>1. /\ row[m].state \in {"INTENDED"} \cup Recoverable
        /\ row' = [row EXCEPT ![m].state = "SEND_CLAIMED", ![m].token = row[m].token + 1,
                              ![m].claimedAt = w.at]
        /\ copies' = copies
    BY <1>0, <1>4 DEF Claim, Sound, SoundSnapshot, Matches, At, brokerVars
  <2> QED
    BY <1>0, <2>1, MoveIsPromised DEF Recoverable, Rows
<1>5. CASE AdoptFound(p)
  <2>1. w.snapState \in Recoverable /\ w.seq \in copies[m] /\ copies' = copies
    BY <1>0, <1>5 DEF AdoptFound, At, LookingUp, Sound, SoundSnapshot, SoundLookup, brokerVars
  <2>2. CASE /\ row[m].state \in Recoverable
             /\ row' = [row EXCEPT ![m].state = "PUBLISHED", ![m].seq = w.seq]
    BY <1>0, <2>1, <2>2, MoveIsPromised DEF Settled, Rows
  <2> QED
    BY <1>1, <1>5, <2>1, <2>2 DEF AdoptFound, Matches
<1>6. CASE FinishAcked(p)
  <2> DEFINE s == CASE w.reply = "capacity" -> "REJECTED_CAPACITY"
                    [] w.reply = "stored" -> "PUBLISHED"
                    [] w.reply = "duplicate" ->
                         IF ReadableOwn(m, w.seq) THEN "PUBLISHED" ELSE "CONFLICT_HOLD"
             q == IF w.reply = "capacity" THEN row[m].seq ELSE w.seq
  <2>1. /\ w.pc = "acked" /\ row[m].state = "SEND_CLAIMED" /\ w.tok = row[m].token
        /\ row' = [row EXCEPT ![m].state = s, ![m].seq = q] /\ copies' = copies
    BY <1>6 DEF FinishAcked, Matches, At, brokerVars
  <2>2. w.reply \in {"stored", "duplicate", "capacity"}
    BY <1>0, <2>1 DEF Sound, SoundAttempt, Workers
  <2>3. ReadableOwn(m, w.seq) => w.seq \in copies[m]
    BY DEF ReadableOwn, IInv, CopyInv
  <2>4. row'[m].state = s /\ row'[m].seq = q /\ \A n \in Messages : n # m => row'[n] = row[n]
    BY <1>0, <2>1 DEF Rows
  <2>5. CASE w.reply = "capacity"
    <3>1. s = "REJECTED_CAPACITY" /\ copies[m] = {}
      BY <1>0, <2>1, <2>5 DEF Sound, SoundAttempt, NeverSent
    <3> QED
      BY <1>0, <2>1, <2>4, <3>1, MoveIsPromised DEF Recoverable, Settled
  <2>6. CASE w.reply = "stored"
    <3>1. s = "PUBLISHED" /\ q = w.seq /\ w.seq \in copies[m]
      BY <1>0, <2>1, <2>6 DEF Sound, SoundAttempt
    <3> QED
      BY <1>0, <2>1, <2>4, <3>1, MoveIsPromised DEF Recoverable, Settled
  <2>7. CASE w.reply = "duplicate"
    <3>1. \/ s = "PUBLISHED" /\ q = w.seq /\ w.seq \in copies[m]
          \/ s = "CONFLICT_HOLD"
      BY <2>3, <2>7
    <3> QED
      BY <1>0, <2>1, <2>4, <3>1, MoveIsPromised DEF Recoverable, Settled
  <2> QED
    BY <2>2, <2>5, <2>6, <2>7
<1>7. CASE Stamp(p) \/ ClaimFails(p) \/ Send(p) \/ Superseded(p) \/ ReadState(p) \/ Scan(p)
           \/ FinalState(p) \/ LeaveYoung(p) \/ Retry(p)
  BY <1>1, <1>7 DEF Stamp, ClaimFails, Send, Superseded, ReadState, Scan, FinalState,
     LeaveYoung, Retry, brokerVars
<1>8. CASE LateRetry(p) \/ GiveUp(p)
  BY <1>2, <1>8 DEF LateRetry, GiveUp, brokerVars
<1>9. CASE Hold(p) \/ RefuseForged(p)
  BY <1>3, <1>9 DEF Hold, RefuseForged, LookingUp, At, brokerVars
<1> QED
  BY <1>4, <1>5, <1>6, <1>7, <1>8, <1>9 DEF Publisher

LEMMA StepIsPromised ==
  ASSUME IInv, row' \in [Messages -> Rows], [Next]_vars
  PROVE  [Promise!Next]_(Promise!promiseVars)
<1>1. ASSUME NEW m \in Messages, Commit(m) PROVE Promise!Next
  BY <1>1, CommitIsPromised DEF Promise!Next
<1>2. ASSUME NEW p \in Publishers, Publisher(p) PROVE Promise!Next \/ Silent
  <2>1. worker[p].m \in Messages
    BY DEF IInv, TypeOK, Workers
  <2> QED
    BY <1>2, <2>1, PublisherIsPromised DEF Promise!Next
<1>3. ASSUME NEW r \in wire, Land(r) PROVE Promise!Next \/ Silent
  <2>1. r.m \in Messages
    BY DEF IInv, TypeOK, Requests
  <2> QED
    BY <1>3, <2>1, LandIsPromised DEF Promise!Next
<1>4. ASSUME \/ \E p \in Publishers, m \in Messages : Begin(p, m)
             \/ \E p \in Publishers : Crash(p)
             \/ \E r \in wire : Drop(r)
             \/ \E m \in Messages : Forge(m)
             \/ Expire \/ Tick \/ UNCHANGED vars
      PROVE  Silent
  <2>1. row' = row
    BY <1>4 DEF Begin, Crash, Drop, Forge, Expire, Tick, vars
  <2>2. copies' = copies
    BY <1>4 DEF Begin, Crash, Drop, Forge, Store, Expire, Tick, vars, brokerVars
  <2> QED
    BY <2>1, <2>2, UnmovedIsSilent
<1> QED
  BY <1>1, <1>2, <1>3, <1>4 DEF Next, Broker, Silent

(* With short stalls, what the owner sees of its pointers is what the       *)
(* promise allows: one entry at most, after its commit, and outcomes that   *)
(* are so and stay so (publish, reconcile_publication).                     *)
THEOREM OutboxKeepsPromise ==
  ASSUME StallsAreShort
  PROVE  Spec => KeepsPromise
<1>1. Init => Promise!Init
  BY DEF Init, Promise!Init, Promise!Says, NoRow, OutcomeOf
<1>2. IInv /\ IInv' /\ [Next]_vars => [Promise!Next]_(Promise!promiseVars)
  <2>1. IInv' => row' \in [Messages -> Rows]
    BY DEF IInv, TypeOK
  <2> QED
    BY <2>1, StepIsPromised
<1> QED
  BY <1>1, <1>2, OutboxInvariant, PTL DEF Spec, KeepsPromise, Promise!Spec
=============================================================================
