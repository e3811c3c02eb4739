--------------------------- MODULE SensingReceiver ---------------------------
(***************************************************************************)
(* SensingReceiver and its DedupeCursor.  Frames arrive on the threads of  *)
(* one process; the lock covers admission (check and claim) and closing,   *)
(* never the one read at the owner between them.  The frames of the model  *)
(* are those that decode, validation, applicability and TTL let through:   *)
(* the others leave no state.                                              *)
(***************************************************************************)
EXTENDS SensingWorld

CONSTANT Workers   \* threads of the transport that call on_frame

VARIABLES
  cursor,    \* the store of the dedupe cursor
  worker,    \* [Workers -> what the thread is doing]
  read,      \* history: [Frames -> owner reads made for the frame]
  told,      \* history: [Events -> closures delivered about its outcome]
  unsaved    \* history: events a cursor write failed for

receiverVars == <<cursor, worker, read, told, unsaved>>

\* stale: claimed and found behind the highwater, the lock still held.
Listening == [pc |-> "idle", frame |-> NoFrame, verdict |-> "NONE", confirmed |-> FALSE]
WorkerStates == [pc : {"idle", "resolving", "answered", "stale"}, frame : Frames \cup {NoFrame},
                 verdict : Outcomes \cup {"NONE"}, confirmed : BOOLEAN]

ReceiverTypeOK ==
  /\ cursor \in Stores(Cursors)
  /\ worker \in [Workers -> WorkerStates]
  /\ read \in [Frames -> Nat]
  /\ told \in [Events -> Nat]
  /\ unsaved \subseteq Events

ReceiverInit ==
  /\ cursor = Opened(EmptyCursor)
  /\ worker = [w \in Workers |-> Listening]
  /\ read = [f \in Frames |-> 0]
  /\ told = [e \in Events |-> 0]
  /\ unsaved = {}

LockFree == \A w \in Workers : worker[w].pc # "stale"

\* A cursor write: strict or not, the line is in the buffer when it fails.
Write(mem, log) == NoFault /\ cursor' = Saved(mem, log) /\ UNCHANGED unsaved
WriteFails(mem, log, e) ==
  Fault /\ cursor' = Unsaved(cursor, mem, log) /\ unsaved' = unsaved \cup {e}
BestEffort(mem, log, e) == Write(mem, log) \/ WriteFails(mem, log, e)

\* The sink may raise; the closure is then not delivered and never retried.
Tell(e) == told' \in {told, [told EXCEPT ![e] = @ + 1]}

-----------------------------------------------------------------------------
Seen(f) == cursor.mem.claim[f.event]
Holder(f) == cursor.mem.idem[f.scope]
High(f) == cursor.mem.high[f.ref]

ScopeIsTaken(f) == Holder(f) # NoEvent
Collides(f) == High(f) # NoFrame /\ f.seq = High(f).seq /\ f.print # High(f).print
IsBehind(f) == High(f) # NoFrame /\ f.seq < High(f).seq

\* The frame contradicts what was admitted or confirmed.
Conflicts(f) ==
  IF Seen(f) # NoFrame THEN Seen(f) # f
  ELSE IF ScopeIsTaken(f) THEN cursor.mem.claim[Holder(f)].print # f.print
  ELSE Collides(f)

IsNew(f) == Seen(f) = NoFrame /\ ~ScopeIsTaken(f) /\ ~Collides(f)

Receives(w, f) == worker[w].pc = "idle" /\ Deliverable(f) /\ LockFree

\* CONFLICT_HOLD, noted once per frame and a bounded number of times per event.
\* The notice given with the first note is not an outcome of the event.
NoteConflict(w, f) ==
  /\ Receives(w, f) /\ Conflicts(f)
  /\ <<f.event, f>> \notin cursor.mem.conflicts
  /\ Cardinality({c \in cursor.mem.conflicts : c[1] = f.event}) < MaxConflicts
  /\ BestEffort(Conflicted(cursor.mem, f), Conflicted(cursor.log, f), f.event)
  /\ UNCHANGED <<world, current, wire, crashes, worker, read, told>>

MutantSurface(w, f) ==
  /\ Receives(w, f) /\ Seen(f) = f
  /\ cursor.mem.verdict[f.event] = "RECOVERED" /\ f.event \notin cursor.mem.surfaced
  /\ NoFault /\ UNCHANGED <<cursor, unsaved>>
  /\ Tell(f.event)
  /\ UNCHANGED <<world, current, wire, crashes, worker, read>>

\* A hold recovered after a crash is told once, on the first redelivery.
Surface(w, f) ==
  /\ Receives(w, f) /\ Seen(f) = f
  /\ cursor.mem.verdict[f.event] = "RECOVERED" /\ f.event \notin cursor.mem.surfaced
  /\ BestEffort(Surfaced(cursor.mem, f.event), Surfaced(cursor.log, f.event), f.event)
  /\ Tell(f.event)
  /\ UNCHANGED <<world, current, wire, crashes, worker, read>>

MutantAdmit(w, f) ==
  /\ Receives(w, f) /\ IsNew(f)
  /\ BestEffort(Claimed(cursor.mem, f), Claimed(cursor.log, f), f.event)
  /\ worker' = [worker EXCEPT ![w] =
       IF IsBehind(f)
       THEN [pc |-> "stale", frame |-> f, verdict |-> "STALE_SUPERSEDED", confirmed |-> FALSE]
       ELSE [pc |-> "resolving", frame |-> f, verdict |-> "NONE", confirmed |-> FALSE]]
  /\ UNCHANGED <<world, current, wire, crashes, read, told>>

\* Check and claim in one section; without a durable claim no work is done.
Admit(w, f) ==
  /\ Receives(w, f) /\ IsNew(f)
  /\ \/ /\ Write(Claimed(cursor.mem, f), Claimed(cursor.log, f))
        /\ worker' = [worker EXCEPT ![w] =
             IF IsBehind(f)
             THEN [pc |-> "stale", frame |-> f, verdict |-> "STALE_SUPERSEDED", confirmed |-> FALSE]
             ELSE [pc |-> "resolving", frame |-> f, verdict |-> "NONE", confirmed |-> FALSE]]
        /\ UNCHANGED told
     \/ /\ WriteFails(cursor.mem, Claimed(cursor.log, f), f.event)
        /\ Tell(f.event)
        /\ UNCHANGED worker
  /\ UNCHANGED <<world, current, wire, crashes, read>>

-----------------------------------------------------------------------------
\* What the owner says of a frame: how its revision relates to the current one, and
\* its own sequence if it reports one (0: it does not).
Relation(f) ==
  IF f.rev = current[f.ref] THEN "SAME"
  ELSE IF f.rev < current[f.ref] THEN "SUPERSEDED" ELSE "UNKNOWN"

OwnerSays(f) == {[relation |-> Relation(f), seq |-> s] : s \in {0, current[f.ref]}}

\* _judge of an answer that names the referent and the declared owner
Judged(f, says) ==
  IF says.relation = "SUPERSEDED" THEN "STALE_SUPERSEDED"
  ELSE IF says.relation # "SAME" THEN "HOLD_UNREADABLE"
  ELSE IF says.seq \notin {0, f.seq} \/ ~f.sound THEN "CONFLICT_HOLD"
  ELSE "ACK_READ"

Confirms(f, says) == Judged(f, says) = "ACK_READ" /\ says.seq = f.seq

Answered(w, verdict, confirmed) ==
  worker' = [worker EXCEPT ![w].pc = "answered", ![w].verdict = verdict, ![w].confirmed = confirmed]

MutantResolve(w) ==
  LET f == worker[w].frame IN
  /\ worker[w].pc = "resolving"
  /\ read' = [read EXCEPT ![f] = @ + 1]
  /\ \/ worker' = [worker EXCEPT ![w] = Listening]
     \/ \E says \in OwnerSays(f) : Answered(w, Judged(f, says), Confirms(f, says))
  /\ UNCHANGED <<worldVars, cursor, told, unsaved>>

\* The one owner read: it fails or cannot be used, somebody else answers, or the owner does.
Resolve(w) ==
  LET f == worker[w].frame IN
  /\ worker[w].pc = "resolving"
  /\ read' = [read EXCEPT ![f] = @ + 1]
  /\ \/ \E verdict \in {"HOLD_UNREADABLE", "HOLD_IDENTITY"} : Answered(w, verdict, FALSE)
     \/ \E says \in OwnerSays(f) : Answered(w, Judged(f, says), Confirms(f, says))
  /\ UNCHANGED <<worldVars, cursor, told, unsaved>>

\* _terminal of a claimed event: verdict to the cursor, closure to the sink.
Close(w) ==
  LET me == worker[w]  e == me.frame.event IN
  /\ me.pc = "stale" \/ (me.pc = "answered" /\ LockFree)
  /\ BestEffort(Finalized(cursor.mem, e, me.verdict, me.confirmed),
                Finalized(cursor.log, e, me.verdict, me.confirmed), e)
  /\ Tell(e)
  /\ worker' = [worker EXCEPT ![w] = Listening]
  /\ UNCHANGED <<world, current, wire, crashes, read>>

\* The process dies at any point and DedupeCursor is built again on what is left: every
\* open claim gets the typed hold.  A hold that cannot be written changes nothing, the
\* next construction gives it again.
ReceiverRestarts ==
  /\ crashes < MaxCrashes /\ crashes' = crashes + 1
  /\ \E left \in cursor.disk : cursor' = Opened(Recovered(left))
  /\ worker' = [w \in Workers |-> Listening]
  /\ UNCHANGED <<world, current, wire, faults, read, told, unsaved>>

Receive(w, f) == NoteConflict(w, f) \/ Surface(w, f) \/ Admit(w, f)

ReceiverNext ==
  \/ \E w \in Workers : (\E f \in Frames : Receive(w, f)) \/ Resolve(w) \/ Close(w)
  \/ ReceiverRestarts

-----------------------------------------------------------------------------
\* One owner read per event over every redelivery, thread, failed write and restart
\* (receiver.py:117-122 claims under the lock before the read, which it does not hold).
ReadOnce ==
  \A f, g \in Frames :
    f.event = g.event /\ read[f] > 0 /\ read[g] > 0 => f = g /\ read[f] = 1

\* One owner read per idempotency scope, unless the owner refuted the claim that
\* held it (cursor.py:62-63): a re-announced change is not read again.
ScopeReadOnce ==
  \A f, g \in Frames :
    f.scope = g.scope /\ read[f] > 0 /\ read[g] > 0 /\ f # g =>
      \E h \in {f, g} : cursor.mem.verdict[h.event] \in Refuted

\* No frame of another writer makes the receiver drop the owner's own announcement:
\* it is judged stale only when the owner has moved on (receiver.py:142-145, cursor.py:67).
GenuineIsNotStale ==
  \A e \in Events :
    LET f == cursor.mem.claim[e] IN
    cursor.mem.verdict[e] = "STALE_SUPERSEDED" /\ Genuine(f) => f.seq < current[f.ref]

\* A verdict is never changed or forgotten, by a later frame or by a restart, unless a
\* cursor write for the event had failed (cursor.py:39-42, 76-86).
VerdictIsRemembered ==
  [][\A e \in Events \ unsaved :
       cursor.mem.verdict[e] \in Outcomes \cup {"RECOVERED"} =>
         cursor'.mem.verdict[e] = cursor.mem.verdict[e]]_<<worldVars, receiverVars>>

\* The sink hears of one outcome of an event, once: never a verdict and later the
\* recovered hold, nor the hold twice, unless a cursor write for it had failed
\* (receiver.py:132-135, 231-244).
ToldOnce == \A e \in Events \ unsaved : told[e] <= 1

\* No claim stays open: the owner read ends, every way out of it closes the claim, and a
\* claim cut off by a crash is closed when the cursor is built again (receiver.py:157-176).
ClaimsAreClosed ==
  \A e \in Events : cursor.mem.verdict[e] = "PENDING" ~> cursor.mem.verdict[e] # "PENDING"
-----------------------------------------------------------------------------
(* The inductive invariant behind the safety properties. *)

CursorStates == {cursor.mem, cursor.log} \cup cursor.disk

Active(w) == worker[w].pc # "idle"
Busy(f) == read[f] > 0 \/ \E w \in Workers : Active(w) /\ worker[w].frame = f

\* A state of the cursor knows every claim of the memory, and agrees with it on the
\* events that no write failed for.
Knows(c) ==
  /\ \A e \in Events : cursor.mem.claim[e] # NoFrame => c.claim[e] = cursor.mem.claim[e]
  /\ \A e \in Events \ unsaved :
       /\ c.claim[e] = cursor.mem.claim[e] /\ c.verdict[e] = cursor.mem.verdict[e]
       /\ e \in c.surfaced <=> e \in cursor.mem.surfaced

\* Work done or under way holds its scope until it is refuted.
HoldsScopes(c) ==
  \A f \in Frames : Busy(f) => c.idem[f.scope] = f.event \/ c.verdict[f.event] \in Refuted

\* Only the owner's own sequence decides what is stale.
IsCurrent(c) ==
  /\ \A r \in Refs : c.high[r] # NoFrame => c.high[r].seq <= current[r]
  /\ \A e \in Events : c.verdict[e] = "STALE_SUPERSEDED" /\ Genuine(c.claim[e]) =>
       c.claim[e].seq < current[c.claim[e].ref]

Plain(c) == \A e \in Events : c.claim[e] = NoFrame => c.verdict[e] = "NONE"

Good(c) == Plain(c) /\ Knows(c) /\ HoldsScopes(c) /\ IsCurrent(c)

CursorInv ==
  /\ \A c \in CursorStates : Good(c)
  /\ \A e \in Events :
       cursor.mem.claim[e] # NoFrame => cursor.log.verdict[e] = cursor.mem.verdict[e]

ReadInv ==
  \A f \in Frames : read[f] <= 1 /\ (read[f] > 0 => cursor.mem.claim[f.event] = f)

WorkerInv ==
  /\ \A w \in Workers : Active(w) =>
       LET me == worker[w]  f == me.frame IN
       /\ f \in Frames
       /\ cursor.mem.claim[f.event] = f /\ cursor.mem.verdict[f.event] = "PENDING"
       /\ me.pc = "resolving" => read[f] = 0
       /\ me.pc # "resolving" => me.verdict \in Outcomes
       /\ me.verdict = "STALE_SUPERSEDED" /\ Genuine(f) => f.seq < current[f.ref]
       /\ me.confirmed => f.seq <= current[f.ref]
  /\ \A v, w \in Workers :
       Active(v) /\ Active(w) /\ v # w => worker[v].frame.event # worker[w].frame.event

TellInv ==
  \A e \in Events \ unsaved :
    /\ told[e] <= 1
    /\ told[e] = 1 =>
         \/ cursor.mem.verdict[e] \in Outcomes
         \/ cursor.mem.verdict[e] = "RECOVERED" /\ e \in cursor.mem.surfaced

ReceiverInv == CursorInv /\ ReadInv /\ WorkerInv /\ TellInv
=============================================================================
