--------------------------- MODULE SensingEvidence ---------------------------
(***************************************************************************)
(* The frames of the SignalVev sensing runtime and what its two append-    *)
(* only stores mean: the receiver's cursor (store "receiver-cursor") and   *)
(* the sender's ledger (store "sender-ledger"), each a function of the     *)
(* records replayed so far.  A record is applied to the state in memory    *)
(* and to the state a reader of the whole file would rebuild.              *)
(***************************************************************************)
EXTENDS Integers, FiniteSets

CONSTANTS
  Frames,        \* D0 frames that pass decode, validation, applicability and TTL
  Events,        \* event_id of each frame
  Refs,          \* referent_key of each frame
  Scopes,        \* idempotency_hash of each frame
  Prints,        \* content_fingerprint of each frame
  NoFrame, NoEvent,
  MaxConflicts   \* MAX_CONFLICTS_PER_EVENT

\* rev is the owner revision the frame is about, seq the owner_seq it claims, and
\* sound says that expected_sha256 is what the owner holds at rev.
\* The fingerprint covers the referent, the sequence, the revision and the delta.
ASSUME FramesAssumption ==
  /\ Frames \subseteq [event : Events, ref : Refs, scope : Scopes, print : Prints,
                       rev : Nat \ {0}, seq : Nat \ {0}, sound : BOOLEAN]
  /\ NoFrame \notin Frames /\ NoEvent \notin Events /\ MaxConflicts \in Nat
  /\ \A f, g \in Frames : f.print = g.print =>
       /\ f.ref = g.ref /\ f.scope = g.scope
       /\ f.rev = g.rev /\ f.seq = g.seq /\ f.sound = g.sound

\* The owner's own announcement of a revision carries the owner's sequence and content.
Genuine(f) == f.rev = f.seq /\ f.sound

-----------------------------------------------------------------------------
(* JsonlStore.  mem: the state applied in memory.  log: the state of every  *)
(* line handed to the file, flushed or still in its buffer.  disk: the      *)
(* states a crash may leave.  A failed write keeps its line in the buffer   *)
(* and the next successful one takes it along.                              *)

Opened(s) == [mem |-> s, log |-> s, disk |-> {s}]
Saved(mem, log) == [mem |-> mem, log |-> log, disk |-> {log}]
Unsaved(store, mem, log) == [mem |-> mem, log |-> log, disk |-> store.disk \cup {log}]

Stores(S) == [mem : S, log : S, disk : SUBSET S]

-----------------------------------------------------------------------------
(* The cursor.  The d0_hash of an event is the frame it was claimed with.   *)

Refuted == {"CONFLICT_HOLD", "HOLD_IDENTITY"}
Outcomes == Refuted \cup {"ACK_READ", "STALE_SUPERSEDED", "HOLD_UNREADABLE"}
\* RECOVERED: HOLD_UNREADABLE with the reason RECOVERED_PENDING_OUTCOME_UNKNOWN.
Verdicts == Outcomes \cup {"NONE", "PENDING", "RECOVERED"}

Cursors == [claim : [Events -> Frames \cup {NoFrame}], verdict : [Events -> Verdicts],
            surfaced : SUBSET Events, idem : [Scopes -> Events \cup {NoEvent}],
            high : [Refs -> Frames \cup {NoFrame}], conflicts : SUBSET (Events \X Frames)]

EmptyCursor ==
  [claim |-> [e \in Events |-> NoFrame], verdict |-> [e \in Events |-> "NONE"], surfaced |-> {},
   idem |-> [s \in Scopes |-> NoEvent], high |-> [r \in Refs |-> NoFrame], conflicts |-> {}]

\* CLAIM
Claimed(c, f) ==
  [c EXCEPT !.claim[f.event] = f, !.verdict[f.event] = "PENDING",
            !.surfaced = @ \ {f.event}, !.idem[f.scope] = f.event]

MutantFreedIdem(c, e, v) ==
  LET s == c.claim[e].scope IN
  IF v # "ACK_READ" /\ c.idem[s] = e THEN [c.idem EXCEPT ![s] = NoEvent] ELSE c.idem

\* The scope is given back when the owner refuted the claim, if it is still this event's.
FreedIdem(c, e, v) ==
  LET s == c.claim[e].scope IN
  IF v \in Refuted /\ c.idem[s] = e THEN [c.idem EXCEPT ![s] = NoEvent] ELSE c.idem

MutantRaisesHigh(c, f, v, confirmed) ==
  v = "ACK_READ" /\ (c.high[f.ref] = NoFrame \/ c.high[f.ref].seq < f.seq)

\* The highwater rises only on an owner-confirmed read of an owner-confirmed sequence.
RaisesHigh(c, f, v, confirmed) ==
  /\ v = "ACK_READ" /\ confirmed
  /\ c.high[f.ref] = NoFrame \/ c.high[f.ref].seq < f.seq

RaisedHigh(c, f, v, confirmed) ==
  IF RaisesHigh(c, f, v, confirmed) THEN [c.high EXCEPT ![f.ref] = f] ELSE c.high

\* FINAL, ignored for an event the file has no CLAIM of
Finalized(c, e, v, confirmed) ==
  IF c.claim[e] = NoFrame THEN c
  ELSE [c EXCEPT !.verdict[e] = v, !.idem = FreedIdem(c, e, v),
                 !.high = RaisedHigh(c, c.claim[e], v, confirmed)]

\* SURFACED
Surfaced(c, e) == IF c.claim[e] = NoFrame THEN c ELSE [c EXCEPT !.surfaced = @ \cup {e}]

\* CONFLICT
Conflicted(c, f) == [c EXCEPT !.conflicts = @ \cup {<<f.event, f>>}]

MutantRecovered(c) ==
  [c EXCEPT !.verdict = [e \in Events |-> IF @[e] # "NONE" THEN "RECOVERED" ELSE "NONE"]]

\* DedupeCursor.__init__ after the replay: a claim without a verdict gets the typed hold.
Recovered(c) ==
  [c EXCEPT !.verdict = [e \in Events |-> IF @[e] = "PENDING" THEN "RECOVERED" ELSE @[e]]]

-----------------------------------------------------------------------------
(* The ledger.                                                              *)

Sendings == {"NONE", "INTENDED", "ACCEPTED", "NOT_SENT", "UNKNOWN_SEND"}
Ledgers == [Events -> [state : Sendings, of : Frames \cup {NoFrame}]]
EmptyLedger == [e \in Events |-> [state |-> "NONE", of |-> NoFrame]]

\* INTENT
Intended(l, f) == [l EXCEPT ![f.event] = [state |-> "INTENDED", of |-> f]]

\* OUTCOME, ignored for an event the file has no INTENT of
Settled(l, e, outcome) == IF l[e].state = "NONE" THEN l ELSE [l EXCEPT ![e].state = outcome]

MutantReconciled(l) ==
  [e \in Events |-> IF l[e].state = "INTENDED" THEN [l[e] EXCEPT !.state = "NOT_SENT"] ELSE l[e]]

\* SendLedger.__init__ after the replay: an intent without an outcome is an unknown send.
Reconciled(l) ==
  [e \in Events |-> IF l[e].state = "INTENDED" THEN [l[e] EXCEPT !.state = "UNKNOWN_SEND"] ELSE l[e]]
=============================================================================
