---------------------------- MODULE PointerOutbox ----------------------------
(***************************************************************************)
(* Owner-side publication of the D1 JetStream adapter: the durable outbox  *)
(* row of each pointer, the processes that claim and send it, the requests *)
(* in flight to the broker, the stream with its duplicate window and       *)
(* MaxAge, and the bounded lookup that must prove absence before a retry.  *)
(* Requests may be lost, may land until their timeout, and may land after  *)
(* the sender died or gave up; time passes between any two steps, except   *)
(* that the two stalls below are bounded (WriteStall, ReplyStall).         *)
(***************************************************************************)
EXTENDS Integers, FiniteSets

CONSTANTS
  Publishers,       \* processes calling publish or reconcile_publication
  Messages,         \* message ids (Nats-Msg-Id)
  PublishTimeout,   \* publish_timeout_s plus the 2 s transport margin
  ClaimStale,       \* claim_stale_s
  DuplicateWindow,  \* duplicate_window_s
  MaxAge,           \* max_age_s of the stream
  PointerTTL,       \* pointer_ttl_s
  MaxMsgs,          \* max_msgs of the stream (DiscardNew)
  WriteStall,       \* bound: from reading the clock for claimed_at to the send
  ReplyStall,       \* bound: from the broker's final stream state to the decision
  MaxTime,          \* bound: the clock stops here; a commit expires no later
  MaxCrashes,       \* bound on crashes
  ForgedUpTo        \* bound: other writers store at sequences up to this one

\* config.validate: publish_timeout_s + 2 < claim_stale_s.
ASSUME ConfigAssumption ==
  /\ Messages # {}
  /\ PublishTimeout \in Nat \ {0} /\ ClaimStale \in Nat /\ PublishTimeout < ClaimStale
  /\ DuplicateWindow \in Nat \ {0} /\ MaxAge \in Nat /\ DuplicateWindow <= MaxAge
  /\ PointerTTL \in Nat /\ PointerTTL <= MaxAge /\ MaxMsgs \in Nat \ {0}
  /\ WriteStall \in Nat /\ ReplyStall \in Nat
  /\ MaxTime \in Nat /\ MaxCrashes \in Nat /\ ForgedUpTo \in Nat

VARIABLES
  now,      \* the clock of owner, publishers and broker
  row,      \* [Messages -> outbox row]; state "none" before the owner commit
  wire,     \* publish requests that the broker may still receive
  stream,   \* the messages the stream holds
  last,     \* last_seq
  dupe,     \* [Messages -> the broker's duplicate-window entry]
  worker,   \* [Publishers -> what the process is doing]
  crashes,  \* crashes so far
  copies    \* history: [Messages -> sequences at which our bytes were stored]

brokerVars == <<stream, last, dupe, copies>>
vars == <<now, row, wire, brokerVars, worker, crashes>>

Recoverable == {"SEND_CLAIMED", "UNKNOWN_PENDING", "RECONCILE_HOLD"}
Settled == {"PUBLISHED", "REJECTED_CAPACITY", "CONFLICT_HOLD"}
RowStates == {"none", "INTENDED"} \cup Recoverable \cup Settled

\* claimed_at is NULL before the first claim.
Never == -1

\* token: the uuid4 of the last won claim, here the number of the claim; 0 is NULL.
Rows == [state : RowStates, token : Nat, claimedAt : Int, seq : Nat, expires : Nat]
NoRow == [state |-> "none", token |-> 0, claimedAt |-> Never, seq |-> 0, expires |-> 0]

Requests == [m : Messages, tok : Nat, until : Nat]
Stored == [seq : Nat, m : Messages, own : BOOLEAN, at : Nat]
StreamStates == [seqs : SUBSET Nat, last : Nat]
NoState == [seqs |-> {}, last |-> 0]

\* snapState, snap and snapAt are the row said when it was read; tok is our own claim.
Idle == [pc |-> "idle", m |-> CHOOSE m \in Messages : TRUE, snapState |-> "none", snap |-> 0,
         snapAt |-> Never,
         tok |-> 0, retry |-> FALSE, at |-> 0, st |-> NoState, left |-> {}, seq |-> 0, reply |-> "none"]
Workers == [pc : {"idle", "intended", "lookup", "scan", "found", "conflict", "absent",
                  "stamped", "claimed", "sending", "acked"},
            m : Messages, snapState : RowStates, snap : Nat, snapAt : Int, tok : Nat, retry : BOOLEAN,
            at : Nat, st : StreamStates, left : SUBSET Nat, seq : Nat,
            reply : {"none", "stored", "duplicate", "capacity"}]

TypeOK ==
  /\ now \in Nat
  /\ row \in [Messages -> Rows]
  /\ wire \subseteq Requests
  /\ stream \subseteq Stored
  /\ last \in Nat
  /\ dupe \in [Messages -> [seq : Nat, at : Nat]]
  /\ worker \in [Publishers -> Workers]
  /\ crashes \in Nat
  /\ copies \in [Messages -> SUBSET (Nat \ {0})]

Init ==
  /\ now = 0
  /\ row = [m \in Messages |-> NoRow]
  /\ wire = {} /\ stream = {} /\ last = 0
  /\ dupe = [m \in Messages |-> [seq |-> 0, at |-> 0]]
  /\ worker = [p \in Publishers |-> Idle]
  /\ crashes = 0
  /\ copies = [m \in Messages |-> {}]

-----------------------------------------------------------------------------
(* The owner and its outbox. *)

\* outbox_transition: compare-and-set on (state, claim_token).
Matches(m, state, token) == row[m].state = state /\ row[m].token = token

SetRow(m, state) == row' = [row EXCEPT ![m].state = state]

Commit(m) ==
  /\ row[m].state = "none"
  /\ now + PointerTTL <= MaxTime
  /\ row' = [row EXCEPT ![m].state = "INTENDED", ![m].expires = now + PointerTTL]
  /\ UNCHANGED <<now, wire, brokerVars, worker, crashes>>

Step(p, w) == worker' = [worker EXCEPT ![p] = w]
Return(p) == Step(p, Idle)
At(p, pc) == worker[p].pc = pc

\* A compare-and-set from the snapshot, whatever its outcome the call returns.
MoveSnapshot(p, state) ==
  LET w == worker[p] IN
  /\ IF Matches(w.m, w.snapState, w.snap) THEN SetRow(w.m, state) ELSE UNCHANGED row
  /\ Return(p)

MutantFinishAnyClaim(p, state) ==
  /\ SetRow(worker[p].m, state)
  /\ Return(p)

\* _finish: settle our own claim only.
Finish(p, state) ==
  LET w == worker[p] IN
  /\ IF Matches(w.m, "SEND_CLAIMED", w.tok) THEN SetRow(w.m, state) ELSE UNCHANGED row
  /\ Return(p)

MutantBeginUnknownOnly(p, m) ==
  /\ At(p, "idle")
  /\ row[m].state \in {"INTENDED", "UNKNOWN_PENDING", "RECONCILE_HOLD"}
  /\ Step(p, [Idle EXCEPT !.pc = IF row[m].state = "INTENDED" THEN "intended" ELSE "lookup",
                          !.m = m, !.snapState = row[m].state, !.snap = row[m].token,
                          !.snapAt = row[m].claimedAt])
  /\ UNCHANGED <<now, row, wire, brokerVars, crashes>>

\* publish and reconcile_publication read the row and branch on its state.
Begin(p, m) ==
  /\ At(p, "idle")
  /\ row[m].state \in {"INTENDED"} \cup Recoverable
  /\ Step(p, [Idle EXCEPT !.pc = IF row[m].state = "INTENDED" THEN "intended" ELSE "lookup",
                          !.m = m, !.snapState = row[m].state, !.snap = row[m].token,
                          !.snapAt = row[m].claimedAt])
  /\ UNCHANGED <<now, row, wire, brokerVars, crashes>>

-----------------------------------------------------------------------------
(* _claim_and_send *)

\* claimed_at is read before the compare-and-set waits for the owner's lock.
Stamp(p) ==
  /\ At(p, "intended")
  /\ Step(p, [worker[p] EXCEPT !.pc = "stamped", !.at = now])
  /\ UNCHANGED <<now, row, wire, brokerVars, crashes>>

Claim(p) ==
  LET w == worker[p] IN
  /\ At(p, "stamped")
  /\ Matches(w.m, w.snapState, w.snap)
  /\ row' = [row EXCEPT ![w.m].state = "SEND_CLAIMED", ![w.m].token = row[w.m].token + 1,
                        ![w.m].claimedAt = w.at]
  /\ Step(p, [w EXCEPT !.pc = "claimed", !.tok = row[w.m].token + 1])
  /\ UNCHANGED <<now, wire, brokerVars, crashes>>

\* The row moved (claim lost), or the durable write raised (CLAIM_NOT_DURABLE).
ClaimFails(p) ==
  /\ At(p, "stamped")
  /\ Return(p)
  /\ UNCHANGED <<now, row, wire, brokerVars, crashes>>

Send(p) ==
  LET w == worker[p] IN
  /\ At(p, "claimed")
  /\ wire' = wire \cup {[m |-> w.m, tok |-> w.tok, until |-> now + PublishTimeout]}
  /\ Step(p, [w EXCEPT !.pc = "sending"])
  /\ UNCHANGED <<now, row, brokerVars, crashes>>

\* A retry whose lookup budget ran out before the send holds and sends nothing.
LateRetry(p) ==
  /\ At(p, "claimed") /\ worker[p].retry
  /\ Finish(p, "RECONCILE_HOLD")
  /\ UNCHANGED <<now, wire, brokerVars, crashes>>

\* Timeout, lost PubAck, or an error of the transport: the outcome is unknown.
GiveUp(p) ==
  /\ worker[p].pc \in {"sending", "acked"}
  /\ Finish(p, "UNKNOWN_PENDING")
  /\ UNCHANGED <<now, wire, brokerVars, crashes>>

MutantReadableOwn(m, seq) == \E s \in stream : s.seq = seq /\ s.m = m

\* _safe_get on the sequence of a duplicate PubAck: our bytes, still readable.
ReadableOwn(m, seq) == \E s \in stream : s.seq = seq /\ s.m = m /\ s.own

FinishAcked(p) ==
  LET w == worker[p] IN
  /\ At(p, "acked")
  /\ Matches(w.m, "SEND_CLAIMED", w.tok)
  /\ row' = [row EXCEPT ![w.m].state = CASE w.reply = "capacity" -> "REJECTED_CAPACITY"
                                         [] w.reply = "stored" -> "PUBLISHED"
                                         [] w.reply = "duplicate" ->
                                              IF ReadableOwn(w.m, w.seq) THEN "PUBLISHED"
                                              ELSE "CONFLICT_HOLD",
                        ![w.m].seq = IF w.reply = "capacity" THEN @ ELSE w.seq]
  /\ Return(p)
  /\ UNCHANGED <<now, wire, brokerVars, crashes>>

Superseded(p) ==
  /\ At(p, "acked")
  /\ ~Matches(worker[p].m, "SEND_CLAIMED", worker[p].tok)
  /\ Return(p)
  /\ UNCHANGED <<now, row, wire, brokerVars, crashes>>

-----------------------------------------------------------------------------
(* reconcile_publication: stream state, scan, final state, decision. *)

SeqsHeld == {s.seq : s \in stream}
StreamState == [seqs |-> SeqsHeld, last |-> last]

ReadState(p) ==
  /\ At(p, "lookup")
  /\ Step(p, [worker[p] EXCEPT !.pc = "scan", !.st = StreamState, !.left = SeqsHeld])
  /\ UNCHANGED <<now, row, wire, brokerVars, crashes>>

\* get_msg of the next sequence; a missing one makes the lookup fail (Hold).
Scan(p) ==
  LET w == worker[p] IN
  /\ At(p, "scan")
  /\ \E s \in stream :
       /\ s.seq \in w.left
       /\ \A q \in w.left : s.seq <= q
       /\ Step(p, CASE s.m # w.m -> [w EXCEPT !.left = @ \ {s.seq}]
                    [] s.m = w.m /\ s.own -> [w EXCEPT !.pc = "found", !.seq = s.seq]
                    [] s.m = w.m /\ ~s.own -> [w EXCEPT !.pc = "conflict"])
  /\ UNCHANGED <<now, row, wire, brokerVars, crashes>>

MutantNoFinalState(p) ==
  LET w == worker[p] IN
  /\ At(p, "scan") /\ w.left = {}
  /\ Step(p, [w EXCEPT !.pc = "absent", !.at = now])
  /\ UNCHANGED <<now, row, wire, brokerVars, crashes>>

\* The state after the scan must equal the state before it.
FinalState(p) ==
  LET w == worker[p] IN
  /\ At(p, "scan") /\ w.left = {}
  /\ StreamState = w.st
  /\ Step(p, [w EXCEPT !.pc = "absent", !.at = now])
  /\ UNCHANGED <<now, row, wire, brokerVars, crashes>>

\* first_seq <= 1 and messages = last_seq - first_seq + 1: nothing was removed.
NoRemovals(st) == st.seqs = 1..st.last

\* Budget exhausted, broker unavailable, a sequence missing or the stream changed;
\* or proven absent but with removals, or expired.
Hold(p) ==
  /\ worker[p].pc \in {"lookup", "scan", "found", "absent"}
  /\ MoveSnapshot(p, "RECONCILE_HOLD")
  /\ UNCHANGED <<now, wire, brokerVars, crashes>>

AdoptFound(p) ==
  LET w == worker[p] IN
  /\ At(p, "found")
  /\ IF Matches(w.m, w.snapState, w.snap)
     THEN row' = [row EXCEPT ![w.m].state = "PUBLISHED", ![w.m].seq = w.seq]
     ELSE UNCHANGED row
  /\ Return(p)
  /\ UNCHANGED <<now, wire, brokerVars, crashes>>

RefuseForged(p) ==
  /\ At(p, "conflict")
  /\ MoveSnapshot(p, "CONFLICT_HOLD")
  /\ UNCHANGED <<now, wire, brokerVars, crashes>>

\* Tests of an absent lookup, in their order: removals, expiry, the claim's age.
ProvenAbsent(p) ==
  /\ At(p, "absent")
  /\ NoRemovals(worker[p].st)
  /\ now < row[worker[p].m].expires

MutantMayBeInFlight(claimedAt) == claimedAt # Never /\ now - claimedAt < PublishTimeout

MayBeInFlight(claimedAt) == claimedAt # Never /\ now - claimedAt < ClaimStale

\* Absent now, but the last claimed attempt may still land: nothing changes.
LeaveYoung(p) ==
  /\ ProvenAbsent(p)
  /\ MayBeInFlight(worker[p].snapAt)
  /\ Return(p)
  /\ UNCHANGED <<now, row, wire, brokerVars, crashes>>

Retry(p) ==
  /\ ProvenAbsent(p)
  /\ ~MayBeInFlight(worker[p].snapAt)
  /\ Step(p, [worker[p] EXCEPT !.pc = "stamped", !.at = now, !.retry = TRUE])
  /\ UNCHANGED <<now, row, wire, brokerVars, crashes>>

-----------------------------------------------------------------------------
(* The broker: InMemoryStreamTransport.publish, at the time the request lands. *)

IsDuplicate(m) == dupe[m].seq # 0 /\ now - dupe[m].at < DuplicateWindow
IsFull == Cardinality(stream) >= MaxMsgs

Store(m, own) ==
  /\ last' = last + 1
  /\ stream' = stream \cup {[seq |-> last + 1, m |-> m, own |-> own, at |-> now]}
  /\ dupe' = [dupe EXCEPT ![m] = [seq |-> last + 1, at |-> now]]
  /\ copies' = IF own THEN [copies EXCEPT ![m] = @ \cup {last + 1}] ELSE copies

\* The PubAck reaches the publisher only if it still waits for this attempt.
Answer(r, reply, seq) ==
  worker' = [p \in Publishers |->
               IF At(p, "sending") /\ worker[p].m = r.m /\ worker[p].tok = r.tok
               THEN [worker[p] EXCEPT !.pc = "acked", !.reply = reply, !.seq = seq]
               ELSE worker[p]]

Land(r) ==
  /\ wire' = wire \ {r}
  /\ \/ /\ IsDuplicate(r.m)
        /\ Answer(r, "duplicate", dupe[r.m].seq)
        /\ UNCHANGED brokerVars
     \/ /\ ~IsDuplicate(r.m) /\ IsFull
        /\ Answer(r, "capacity", 0)
        /\ UNCHANGED brokerVars
     \/ /\ ~IsDuplicate(r.m) /\ ~IsFull
        /\ Store(r.m, TRUE)
        /\ Answer(r, "stored", last + 1)
  /\ UNCHANGED <<now, row, crashes>>

Drop(r) ==
  /\ wire' = wire \ {r}
  /\ UNCHANGED <<now, row, brokerVars, worker, crashes>>

\* Another writer of the subject uses the id with bytes of its own.
Forge(m) ==
  /\ last < ForgedUpTo
  /\ ~IsDuplicate(m) /\ ~IsFull
  /\ Store(m, FALSE)
  /\ UNCHANGED <<now, row, wire, worker, crashes>>

Expire ==
  /\ \E s \in stream : now - s.at >= MaxAge
  /\ stream' = {s \in stream : now - s.at < MaxAge}
  /\ UNCHANGED <<now, row, wire, last, dupe, copies, worker, crashes>>

-----------------------------------------------------------------------------
Crash(p) ==
  /\ crashes < MaxCrashes
  /\ ~At(p, "idle")
  /\ crashes' = crashes + 1
  /\ Return(p)
  /\ UNCHANGED <<now, row, wire, brokerVars>>

\* Time cannot pass what is bounded: a request's timeout and the two stalls.
Tick ==
  /\ now < MaxTime
  /\ \A r \in wire : now < r.until
  /\ \A p \in Publishers :
       /\ worker[p].pc \in {"stamped", "claimed"} => now < worker[p].at + WriteStall
       /\ At(p, "absent") => now < worker[p].at + ReplyStall
  /\ now' = now + 1
  /\ UNCHANGED <<row, wire, brokerVars, worker, crashes>>

Publisher(p) ==
  \/ Stamp(p) \/ Claim(p) \/ ClaimFails(p) \/ Send(p) \/ LateRetry(p)
  \/ GiveUp(p) \/ FinishAcked(p) \/ Superseded(p)
  \/ ReadState(p) \/ Scan(p) \/ FinalState(p) \/ Hold(p)
  \/ AdoptFound(p) \/ RefuseForged(p) \/ LeaveYoung(p) \/ Retry(p)

Broker ==
  \/ \E r \in wire : Land(r) \/ Drop(r)
  \/ Expire
  \/ \E m \in Messages : Forge(m)

Next ==
  \/ \E m \in Messages : Commit(m)
  \/ \E p \in Publishers, m \in Messages : Begin(p, m)
  \/ \E p \in Publishers : Publisher(p) \/ Crash(p)
  \/ Broker
  \/ Tick

Spec == Init /\ [][Next]_vars

(* reconcile_once takes every row in turn and the owner keeps calling it; a *)
(* call that has begun goes on; a request lands or is lost; time does not   *)
(* stand still.                                                             *)
Fairness ==
  /\ \A m \in Messages : SF_vars(\E p \in Publishers : Begin(p, m))
  /\ \A p \in Publishers : WF_vars(Publisher(p))
  /\ WF_vars(\E r \in wire : Land(r) \/ Drop(r))
  /\ <>(now = MaxTime)

FairSpec == Spec /\ Fairness

-----------------------------------------------------------------------------
(* The inductive invariant. An attempt is exposed from the claim until its  *)
(* request landed or was lost.                                              *)
InFlight(m) == \E r \in wire : r.m = m
Exposed(m) == InFlight(m) \/ \E p \in Publishers : At(p, "claimed") /\ worker[p].m = m
NeverSent(m) == copies[m] = {} /\ ~Exposed(m)

RowInv ==
  \A m \in Messages :
    /\ row[m].token = 0 <=> row[m].state \in {"none", "INTENDED"}
    /\ row[m].token = 0 => NeverSent(m)
    /\ row[m].token # 0 => row[m].claimedAt \in 0..now
    /\ row[m].state = "PUBLISHED" => row[m].seq \in copies[m]
    /\ row[m].state = "REJECTED_CAPACITY" => NeverSent(m)

CopyInv ==
  /\ \A m \in Messages :
       /\ copies[m] \subseteq 1..last
       /\ \A q1, q2 \in copies[m] : q1 = q2
       /\ copies[m] # {} => ~Exposed(m)
  /\ \A s \in stream : s.seq \in 1..last /\ (s.own <=> s.seq \in copies[s.m])
  /\ \A s \in stream, m \in Messages : s.seq \in copies[m] => s.m = m

\* One attempt at most is exposed, it is the row's current one, and it ends in time.
AttemptInv ==
  /\ \A r \in wire :
       /\ r.tok = row[r.m].token
       /\ r.until \in now..(row[r.m].claimedAt + WriteStall + PublishTimeout)
       /\ \A r2 \in wire : r2.m = r.m => r2 = r
  /\ \A p \in Publishers : At(p, "claimed") =>
       /\ worker[p].tok = row[worker[p].m].token
       /\ worker[p].at = row[worker[p].m].claimedAt
       /\ now <= worker[p].at + WriteStall
       /\ ~InFlight(worker[p].m)
       /\ \A p2 \in Publishers : At(p2, "claimed") /\ worker[p2].m = worker[p].m => p2 = p

\* What a process knows of the row it read, of its attempt and of its lookup.
LookingUp == {"lookup", "scan", "found", "conflict", "absent"}

SoundSnapshot(w) ==
  w.pc \in {"intended", "stamped"} \cup LookingUp =>
    /\ w.snap <= row[w.m].token
    /\ w.snap = row[w.m].token => w.snapAt = row[w.m].claimedAt
    /\ w.snap = 0 <=> w.snapState = "INTENDED"
    /\ w.snap # 0 => w.snapAt \in Nat /\ w.snapState \in Recoverable
    /\ w.pc \in LookingUp => w.snap # 0
    /\ w.pc = "intended" => w.snap = 0

SoundClaim(w) ==
  w.pc = "stamped" =>
    /\ w.at <= now /\ now <= w.at + WriteStall
    /\ w.snap = row[w.m].token => NeverSent(w.m)

SoundAttempt(w) ==
  /\ w.pc \in {"claimed", "sending", "acked"} => w.tok # 0 /\ w.tok <= row[w.m].token
  /\ w.pc = "acked" =>
       /\ w.reply # "none"
       /\ w.reply = "stored" => w.seq \in copies[w.m]
       /\ w.reply = "capacity" /\ w.tok = row[w.m].token => NeverSent(w.m)

SoundLookup(w) ==
  /\ w.pc = "found" => w.seq \in copies[w.m]
  /\ w.pc = "scan" =>
       /\ w.st.last <= last /\ w.st.seqs \subseteq 1..w.st.last
       /\ \A q \in w.st.seqs \ w.left : q \notin copies[w.m]
  /\ w.pc = "absent" =>
       /\ w.at <= now /\ now <= w.at + ReplyStall
       /\ /\ NoRemovals(w.st)
          /\ w.snap = row[w.m].token
          /\ w.snapAt + WriteStall + PublishTimeout < w.at
          => NeverSent(w.m)

Sound(w) == SoundSnapshot(w) /\ SoundClaim(w) /\ SoundAttempt(w) /\ SoundLookup(w)

WorkerInv == \A p \in Publishers : Sound(worker[p])

IInv == TypeOK /\ RowInv /\ CopyInv /\ AttemptInv /\ WorkerInv

(* The stream never holds, and never held, two copies of one pointer,      *)
(* whatever the broker's duplicate window: a retry is sent only when no    *)
(* earlier attempt was stored and none can still land (module docstring).  *)
AtMostOneCopy == \A m \in Messages : Cardinality(copies[m]) <= 1

(* PUBLISHED names a sequence at which this pointer's own bytes were       *)
(* stored, whether a PubAck, a duplicate PubAck or a lookup said so.       *)
PublishedIsStored ==
  \A m \in Messages : row[m].state = "PUBLISHED" => row[m].seq \in copies[m]

(* A refused pointer really is not in the stream and never will be: no     *)
(* earlier attempt stored it and none is still in flight.                  *)
RefusedIsAbsent ==
  \A m \in Messages : row[m].state = "REJECTED_CAPACITY" => copies[m] = {} /\ ~InFlight(m)

(* An outcome is final, and an intent is never reopened: a late publisher, *)
(* a superseded claim or a slow lookup writes nothing.                     *)
KeepsOutcome(m) ==
  /\ row[m].state \in Settled => row'[m] = row[m]
  /\ row[m].state \in Recoverable => row'[m].state \in Recoverable \cup Settled

OutcomesAreFinal == [][\A m \in Messages : KeepsOutcome(m)]_vars

(* An attempt whose outcome is unknown, or whose sender died, is settled   *)
(* or visibly held in the end, as long as the owner keeps reconciling.     *)
AmbiguousIsAnswered ==
  \A m \in Messages :
    row[m].state \in {"SEND_CLAIMED", "UNKNOWN_PENDING"}
      ~> row[m].state \in Settled \cup {"RECONCILE_HOLD"}

-----------------------------------------------------------------------------
(* The promise: what entered the stream is its history of our own copies,   *)
(* and the settled states of the row are the outcomes.                      *)
OutcomeOf(m) ==
  [says |-> CASE row[m].state = "none"              -> "nothing"
              [] row[m].state = "PUBLISHED"         -> "published"
              [] row[m].state = "REJECTED_CAPACITY" -> "refused"
              [] row[m].state = "CONFLICT_HOLD"     -> "conflict"
              [] OTHER                              -> "pending",
   seq  |-> IF row[m].state = "PUBLISHED" THEN row[m].seq ELSE 0]

Promise == INSTANCE OutboxPromise WITH
  stored  <- copies,
  outcome <- [m \in Messages |-> OutcomeOf(m)]

(* Every step of owner, publishers, broker and failures is a step of the    *)
(* promise or one the owner of the pointer cannot tell (publisher.py).      *)
KeepsPromise == Promise!Spec
=============================================================================
