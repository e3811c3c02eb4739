------------------------ MODULE SensingRuntimeProofs ------------------------
(***************************************************************************)
(* Type correctness and the safety of the sensing runtime, for any frames, *)
(* threads, failed writes and restarts: what is proved of SensingRuntime.  *)
(***************************************************************************)
EXTENDS SensingRuntime, TLAPS

(* What the records do to a cursor. *)

LEMMA FrameFields ==
  ASSUME NEW f \in Frames
  PROVE  /\ f.event \in Events /\ f.ref \in Refs /\ f.scope \in Scopes
         /\ f.rev \in Nat \ {0} /\ f.seq \in Nat \ {0} /\ f.sound \in BOOLEAN
         /\ f # NoFrame
BY FramesAssumption

LEMMA ClaimedFacts ==
  ASSUME NEW c \in Cursors, NEW f \in Frames
  PROVE  LET d == Claimed(c, f) IN
         /\ d \in Cursors
         /\ \A e \in Events : d.claim[e] = IF e = f.event THEN f ELSE c.claim[e]
         /\ \A e \in Events : d.verdict[e] = IF e = f.event THEN "PENDING" ELSE c.verdict[e]
         /\ \A e \in Events : e \in d.surfaced <=> e \in c.surfaced /\ e # f.event
         /\ \A s \in Scopes : d.idem[s] = IF s = f.scope THEN f.event ELSE c.idem[s]
         /\ d.high = c.high
BY FrameFields DEF Claimed, Cursors, Verdicts

LEMMA FinalizedFacts ==
  ASSUME NEW c \in Cursors, NEW e \in Events, NEW v \in Outcomes, NEW confirmed \in BOOLEAN
  PROVE  LET d == Finalized(c, e, v, confirmed) IN
         /\ d \in Cursors
         /\ d.claim = c.claim /\ d.surfaced = c.surfaced
         /\ c.claim[e] # NoFrame =>
              /\ c.claim[e] \in Frames
              /\ \A x \in Events : d.verdict[x] = IF x = e THEN v ELSE c.verdict[x]
              /\ \A s \in Scopes : d.idem[s] = c.idem[s] \/ (c.idem[s] = e /\ v \in Refuted)
              /\ \A r \in Refs : \/ d.high[r] = c.high[r]
                                 \/ r = c.claim[e].ref /\ d.high[r] = c.claim[e] /\ confirmed
         /\ c.claim[e] = NoFrame => d = c
<1>1. CASE c.claim[e] = NoFrame
  BY <1>1 DEF Finalized
<1>2. CASE c.claim[e] # NoFrame
  <2> DEFINE f == c.claim[e]
  <2>1. f \in Frames
    BY <1>2 DEF Cursors
  <2>2. FreedIdem(c, e, v) \in [Scopes -> Events \cup {NoEvent}]
    BY <2>1, FrameFields DEF FreedIdem, Cursors
  <2>3. RaisedHigh(c, f, v, confirmed) \in [Refs -> Frames \cup {NoFrame}]
    BY <2>1, FrameFields DEF RaisedHigh, Cursors
  <2>4. v \in Verdicts
    BY DEF Verdicts
  <2>5. Finalized(c, e, v, confirmed) =
          [c EXCEPT !.verdict[e] = v, !.idem = FreedIdem(c, e, v), !.high = RaisedHigh(c, f, v, confirmed)]
    BY <1>2 DEF Finalized
  <2>6. LET d == Finalized(c, e, v, confirmed) IN
        /\ d \in Cursors
        /\ d.claim = c.claim /\ d.surfaced = c.surfaced
        /\ d.idem = FreedIdem(c, e, v) /\ d.high = RaisedHigh(c, f, v, confirmed)
        /\ \A x \in Events : d.verdict[x] = IF x = e THEN v ELSE c.verdict[x]
    <3> DEFINE I == FreedIdem(c, e, v)
               H == RaisedHigh(c, f, v, confirmed)
               D == [c EXCEPT !.verdict[e] = v, !.idem = I, !.high = H]
    <3>1. I \in [Scopes -> Events \cup {NoEvent}] /\ H \in [Refs -> Frames \cup {NoFrame}]
      BY <2>2, <2>3
    <3> HIDE DEF I, H
    <3>2. /\ D \in Cursors
          /\ D.claim = c.claim /\ D.surfaced = c.surfaced /\ D.idem = I /\ D.high = H
          /\ \A x \in Events : D.verdict[x] = IF x = e THEN v ELSE c.verdict[x]
      BY <2>4, <3>1 DEF Cursors
    <3>3. Finalized(c, e, v, confirmed) = D
      BY <2>5 DEF I, H
    <3> HIDE DEF D
    <3> QED
      BY <3>2, <3>3 DEF I, H
  <2>7. \A s \in Scopes : FreedIdem(c, e, v)[s] = c.idem[s] \/ (c.idem[s] = e /\ v \in Refuted)
    <3>1. c.idem \in [Scopes -> Events \cup {NoEvent}] /\ f.scope \in Scopes
      BY <2>1, FrameFields DEF Cursors
    <3> QED
      BY <3>1 DEF FreedIdem
  <2>8. \A r \in Refs : \/ RaisedHigh(c, f, v, confirmed)[r] = c.high[r]
                        \/ r = f.ref /\ RaisedHigh(c, f, v, confirmed)[r] = f /\ confirmed
    BY <2>1, FrameFields DEF RaisedHigh, RaisesHigh, Cursors
  <2> QED
    BY <1>2, <2>1, <2>6, <2>7, <2>8
<1> QED
  BY <1>1, <1>2

\* The same for the claim of a frame that is being closed.
LEMMA ClosedFacts ==
  ASSUME NEW c \in Cursors, NEW f \in Frames, c.claim[f.event] = f,
         NEW v \in Outcomes, NEW confirmed \in BOOLEAN
  PROVE  LET d == Finalized(c, f.event, v, confirmed) IN
         /\ d.claim = c.claim /\ d.surfaced = c.surfaced
         /\ \A x \in Events : d.verdict[x] = IF x = f.event THEN v ELSE c.verdict[x]
         /\ \A s \in Scopes : d.idem[s] = c.idem[s] \/ (c.idem[s] = f.event /\ v \in Refuted)
         /\ \A r \in Refs : d.high[r] = c.high[r] \/ (r = f.ref /\ d.high[r] = f /\ confirmed)
<1>1. f.event \in Events /\ c.claim[f.event] # NoFrame
  BY FrameFields
<1> QED
  BY <1>1, FinalizedFacts

LEMMA SurfacedFacts ==
  ASSUME NEW c \in Cursors, NEW e \in Events
  PROVE  LET d == Surfaced(c, e) IN
         /\ d \in Cursors
         /\ d.claim = c.claim /\ d.verdict = c.verdict /\ d.idem = c.idem /\ d.high = c.high
         /\ \A x \in Events : x \in d.surfaced <=> x \in c.surfaced \/ (x = e /\ c.claim[e] # NoFrame)
BY DEF Surfaced, Cursors

LEMMA ConflictedFacts ==
  ASSUME NEW c \in Cursors, NEW f \in Frames
  PROVE  LET d == Conflicted(c, f) IN
         /\ d \in Cursors
         /\ d.claim = c.claim /\ d.verdict = c.verdict /\ d.idem = c.idem /\ d.high = c.high
         /\ d.surfaced = c.surfaced
BY FrameFields DEF Conflicted, Cursors

LEMMA RecoveredFacts ==
  ASSUME NEW c \in Cursors
  PROVE  LET d == Recovered(c) IN
         /\ d \in Cursors
         /\ d.claim = c.claim /\ d.surfaced = c.surfaced /\ d.idem = c.idem /\ d.high = c.high
         /\ \A e \in Events : d.verdict[e] = IF c.verdict[e] = "PENDING" THEN "RECOVERED" ELSE c.verdict[e]
BY DEF Recovered, Cursors, Verdicts

(* What the records do to a ledger. *)

LEMMA IntendedFacts ==
  ASSUME NEW l \in Ledgers, NEW f \in Frames
  PROVE  LET d == Intended(l, f) IN
         /\ d \in Ledgers
         /\ \A e \in Events : d[e] = IF e = f.event THEN [state |-> "INTENDED", of |-> f] ELSE l[e]
BY FrameFields DEF Intended, Ledgers, Sendings

LEMMA SettledFacts ==
  ASSUME NEW l \in Ledgers, NEW e \in Events, NEW outcome \in Sendings
  PROVE  LET d == Settled(l, e, outcome) IN
         /\ d \in Ledgers
         /\ \A x \in Events : x # e => d[x] = l[x]
         /\ l[e].state # "NONE" => d[e].state = outcome /\ d[e].of = l[e].of
BY DEF Settled, Ledgers

LEMMA ReconciledFacts ==
  ASSUME NEW l \in Ledgers
  PROVE  LET d == Reconciled(l) IN
         /\ d \in Ledgers
         /\ \A e \in Events :
              /\ d[e].of = l[e].of
              /\ d[e].state = IF l[e].state = "INTENDED" THEN "UNKNOWN_SEND" ELSE l[e].state
BY DEF Reconciled, Ledgers, Sendings

-----------------------------------------------------------------------------
(* Type correctness. *)

LEMMA InitTyped ==
  ASSUME Init
  PROVE  TypeOK
<1>1. EmptyLedger \in Ledgers
  BY DEF EmptyLedger, Ledgers, Sendings
<1>2. EmptyCursor \in Cursors
  BY DEF EmptyCursor, Cursors, Verdicts
<1>3. WorldTypeOK
  BY DEF Init, WorldInit, WorldTypeOK
<1>4. SenderTypeOK
  BY <1>1 DEF Init, SenderInit, SenderTypeOK, Opened, Stores, AtRest, SenderStates, Sendings
<1>5. ReceiverTypeOK
  BY <1>2 DEF Init, ReceiverInit, ReceiverTypeOK, Opened, Stores, Listening, WorkerStates
<1> QED
  BY <1>3, <1>4, <1>5 DEF TypeOK

LEMMA OwnerTyped ==
  ASSUME TypeOK, NEW r \in Refs, OwnerCommits(r), UNCHANGED <<senderVars, receiverVars>>
  PROVE  TypeOK'
BY DEF TypeOK, WorldTypeOK, SenderTypeOK, ReceiverTypeOK, OwnerCommits, senderVars, receiverVars

LEMMA SenderTyped ==
  ASSUME TypeOK, SenderInv, SenderNext, UNCHANGED receiverVars
  PROVE  TypeOK'
<1> USE DEF TypeOK, WorldTypeOK, SenderTypeOK
<1>0. ReceiverTypeOK'
  BY DEF receiverVars, ReceiverTypeOK
<1>1. ASSUME NEW s \in Senders, NEW f \in Own, Intend(s, f)
      PROVE  TypeOK'
  <2>1. f \in Frames
    BY WorldAssumption
  <2>2. Intended(ledger.mem, f) \in Ledgers /\ Intended(ledger.log, f) \in Ledgers
    BY <2>1, IntendedFacts DEF Stores
  <2>3. ledger' \in Stores(Ledgers)
    BY <1>1, <2>2 DEF Intend, Stores, Saved, Unsaved
  <2>4. sender' \in [Senders -> SenderStates]
    BY <1>1, <2>1 DEF Intend, SenderStates, Sendings
  <2> QED
    BY <1>0, <1>1, <2>3, <2>4 DEF Intend, Fault, NoFault
<1>2. ASSUME NEW s \in Senders, Publish(s)
      PROVE  TypeOK'
  <2>1. PICK a \in Answers :
          /\ sender' = [sender EXCEPT ![s].pc = "published", ![s].result = a.state]
          /\ wire' = IF a.wrote THEN wire \cup {sender[s].frame} ELSE wire
          /\ written' = IF a.wrote THEN [written EXCEPT ![sender[s].frame.event] = @ + 1] ELSE written
    BY <1>2 DEF Publish
  <2>2. a.state \in Sendings
    BY DEF Answers, Sendings
  <2>3. sender[s].frame \in Own
    BY <1>2 DEF Publish, SenderInv, SendingInv, Sending
  <2>4. sender' \in [Senders -> SenderStates]
    BY <2>1, <2>2 DEF SenderStates
  <2>5. written' \in [Events -> Nat]
    BY <2>1, <2>3, WorldAssumption, FrameFields
  <2> QED
    BY <1>0, <1>2, <2>1, <2>3, <2>4, <2>5 DEF Publish
<1>3. ASSUME NEW s \in Senders, Record(s)
      PROVE  TypeOK'
  <2> DEFINE e == sender[s].frame.event
             result == sender[s].result
  <2>1. e \in Events /\ result \in Sendings
    BY <1>3, WorldAssumption, FrameFields DEF Record, SenderInv, SendingInv, Sending, SenderStates
  <2>2. Settled(ledger.mem, e, result) \in Ledgers /\ Settled(ledger.log, e, result) \in Ledgers
    BY <2>1, SettledFacts DEF Stores
  <2>3. ledger' \in Stores(Ledgers)
    BY <1>3, <2>2 DEF Record, Stores, Saved, Unsaved
  <2>4. sender' \in [Senders -> SenderStates]
    BY <1>3 DEF Record, SenderStates, AtRest, Sendings
  <2> QED
    BY <1>0, <1>3, <2>3, <2>4 DEF Record, Fault, NoFault
<1>4. CASE SenderRestarts
  <2>1. PICK left \in ledger.disk : ledger' = Opened(Reconciled(left))
    BY <1>4 DEF SenderRestarts
  <2>2. Reconciled(left) \in Ledgers
    BY ReconciledFacts DEF Stores
  <2>3. ledger' \in Stores(Ledgers)
    BY <2>1, <2>2 DEF Opened, Stores
  <2> QED
    BY <1>0, <1>4, <2>3 DEF SenderRestarts, SenderStates, AtRest, Sendings
<1> QED
  BY <1>1, <1>2, <1>3, <1>4 DEF SenderNext

-----------------------------------------------------------------------------
(* A step of the sender keeps what the ledger promises. *)

LEMMA SenderInvInit ==
  ASSUME Init
  PROVE  SenderInv
BY DEF Init, WorldInit, SenderInit, SenderInv, WrittenInv, AcceptedInv, SendingInv, Sending,
       AtRest, LedgerStates, Opened, EmptyLedger

LEMMA IntendKeeps ==
  ASSUME TypeOK, SenderInv, NEW s \in Senders, NEW f \in Own, Intend(s, f)
  PROVE  SenderInv'
<1> USE DEF SenderInv, WrittenInv, AcceptedInv, SendingInv
<1>1. f \in Frames /\ f.event \in Events
  BY WorldAssumption, FrameFields
<1>2. LedgerStates \subseteq Ledgers
  BY DEF TypeOK, SenderTypeOK, Stores, LedgerStates
<1>3. UNCHANGED <<wire, written>>
  BY DEF Intend
<1>4. /\ ledger.mem[f.event].state \notin Held
      /\ written[f.event] = 0
      /\ \A t \in Senders : Sending(t) => sender[t].frame.event # f.event
  <2>1. ledger.mem[f.event].state \notin Held /\ ledger.mem \in LedgerStates
    BY DEF Intend, MaySend, Held, LedgerStates
  <2>2. written[f.event] \in Nat
    BY <1>1 DEF TypeOK, SenderTypeOK
  <2>3. \A t \in Senders : Sending(t) => sender[t].frame.event # f.event
    <3> TAKE t \in Senders
    <3> SUFFICES ASSUME Sending(t), sender[t].frame.event = f.event PROVE FALSE
      OBVIOUS
    <3>1. ledger.mem[f.event] = [state |-> "INTENDED", of |-> sender[t].frame]
      BY <2>1
    <3> QED
      BY <2>1, <3>1 DEF Held
  <2> QED
    BY <1>1, <2>1, <2>2, <2>3
<1>5. \A l \in LedgerStates' :
        /\ l[f.event] = [state |-> "INTENDED", of |-> f] \/ (l \in LedgerStates /\ UNCHANGED sender)
        /\ \A e \in Events : e # f.event => \E k \in LedgerStates : l[e] = k[e]
  <2> DEFINE mem == Intended(ledger.mem, f)
             log == Intended(ledger.log, f)
  <2>1. /\ ledger.mem \in Ledgers /\ ledger.log \in Ledgers
        /\ ledger.mem \in LedgerStates /\ ledger.log \in LedgerStates
    BY <1>2 DEF LedgerStates
  <2>2. /\ mem[f.event] = [state |-> "INTENDED", of |-> f]
        /\ log[f.event] = [state |-> "INTENDED", of |-> f]
        /\ \A e \in Events : e # f.event => mem[e] = ledger.mem[e] /\ log[e] = ledger.log[e]
    BY <1>1, <2>1, IntendedFacts
  <2> HIDE DEF mem, log
  <2>3. CASE ledger' = Saved(mem, log)
    BY <2>1, <2>2, <2>3 DEF LedgerStates, Saved
  <2>4. CASE ledger' = Unsaved(ledger, ledger.mem, log) /\ UNCHANGED sender
    BY <2>1, <2>2, <2>4 DEF LedgerStates, Unsaved
  <2> QED
    BY <2>3, <2>4 DEF Intend, mem, log
<1>6. WrittenInv'
  <2>1. ASSUME NEW e \in Events, written[e] = 1, NEW l \in LedgerStates'
        PROVE  l[e].state \in Held
    BY <1>1, <1>4, <1>5, <2>1
  <2> QED
    BY <1>3, <2>1
<1>7. AcceptedInv'
  <2>1. ASSUME NEW e \in Events, NEW l \in LedgerStates', l[e].state = "ACCEPTED"
        PROVE  l[e].of \in wire
    BY <1>1, <1>5, <2>1
  <2> QED
    BY <1>3, <2>1
<1>8. CASE UNCHANGED sender
  <2>1. ASSUME NEW t \in Senders, Sending(t), NEW l \in LedgerStates'
        PROVE  l[sender[t].frame.event] = [state |-> "INTENDED", of |-> sender[t].frame]
    <3>1. sender[t].frame.event \in Events /\ sender[t].frame.event # f.event
      BY <1>4, <2>1, WorldAssumption, FrameFields
    <3> QED
      BY <1>5, <2>1, <3>1
  <2>2. SendingInv'
    BY <1>3, <1>8, <2>1 DEF Sending
  <2> QED
    BY <1>6, <1>7, <2>2
<1>9. CASE sender' = [sender EXCEPT ![s] = [pc |-> "intended", frame |-> f, result |-> "NONE"]]
           /\ sender' # sender
  <2>0. sender' = [t \in Senders |-> IF t = s THEN [pc |-> "intended", frame |-> f, result |-> "NONE"]
                                     ELSE sender[t]]
    BY <1>9 DEF TypeOK, SenderTypeOK
  <2>1. ASSUME NEW t \in Senders, Sending(t)', NEW l \in LedgerStates'
        PROVE  l[sender'[t].frame.event] = [state |-> "INTENDED", of |-> sender'[t].frame]
    <3>1. CASE t = s
      BY <1>5, <1>9, <2>0, <3>1
    <3>2. CASE t # s
      <4>1. sender[t].frame.event \in Events /\ sender[t].frame.event # f.event /\ Sending(t)
        BY <1>4, <2>0, <2>1, <3>2, WorldAssumption, FrameFields DEF Sending
      <4> QED
        BY <1>5, <2>0, <3>2, <4>1
    <3> QED
      BY <3>1, <3>2
  <2>2. SendingInv'
    BY <1>3, <1>4, <2>0, <2>1 DEF Sending
  <2> QED
    BY <1>6, <1>7, <2>2
<1> QED
  BY <1>8, <1>9 DEF Intend

LEMMA PublishKeeps ==
  ASSUME TypeOK, SenderInv, NEW s \in Senders, Publish(s)
  PROVE  SenderInv'
<1> USE DEF SenderInv, WrittenInv, AcceptedInv, SendingInv
<1> DEFINE f == sender[s].frame
<1>1. PICK a \in Answers :
        /\ sender' = [sender EXCEPT ![s].pc = "published", ![s].result = a.state]
        /\ wire' = IF a.wrote THEN wire \cup {f} ELSE wire
        /\ written' = IF a.wrote THEN [written EXCEPT ![f.event] = @ + 1] ELSE written
  BY DEF Publish
<1>2. /\ a.state \in {"ACCEPTED", "UNKNOWN_SEND", "NOT_SENT"}
      /\ a.state = "ACCEPTED" => a.wrote
      /\ a.state = "NOT_SENT" => ~a.wrote
  BY DEF Answers
<1>3. Sending(s) /\ f \in Own /\ f.event \in Events /\ written[f.event] = 0
  BY WorldAssumption, FrameFields DEF Publish, Sending
<1>4. LedgerStates' = LedgerStates
  BY DEF Publish, LedgerStates
<1>5. /\ \A l \in LedgerStates : l[f.event] = [state |-> "INTENDED", of |-> f]
      /\ \A t \in Senders : Sending(t) /\ t # s => sender[t].frame.event # f.event
  BY <1>3
<1>6. \A e \in Events : written'[e] = IF a.wrote /\ e = f.event THEN 1 ELSE written[e]
  BY <1>1, <1>3 DEF TypeOK, SenderTypeOK
<1>7. /\ sender'[s] = [sender[s] EXCEPT !.pc = "published", !.result = a.state]
      /\ sender'[s].pc = "published" /\ sender'[s].frame = f /\ sender'[s].result = a.state
      /\ \A t \in Senders : t # s => sender'[t] = sender[t]
  BY <1>1 DEF TypeOK, SenderTypeOK, SenderStates
<1>8. \A t \in Senders : Sending(t)' => Sending(t) /\ sender'[t].frame = sender[t].frame
  BY <1>3, <1>7 DEF Sending
<1>9. wire \subseteq wire' /\ wire' \subseteq wire \cup {f} /\ (f \in wire' \ wire => a.wrote)
      /\ (a.wrote => f \in wire')
  BY <1>1
<1> HIDE DEF f
<1>10. WrittenInv'
  <2>1. \A e \in Events : written'[e] <= 1
    BY <1>6
  <2>2. ASSUME NEW e \in Events, written'[e] = 1, NEW l \in LedgerStates
        PROVE  l[e].state \in Held
    BY <1>5, <1>6, <2>2 DEF Held
  <2>3. ASSUME NEW g \in wire'
        PROVE  written'[g.event] = 1
    <3>1. g.event \in Events
      BY <1>3, <1>9, WorldAssumption, FrameFields DEF TypeOK, WorldTypeOK
    <3>2. CASE g \in wire
      BY <1>3, <1>6, <3>1, <3>2
    <3>3. CASE g = f /\ g \notin wire
      BY <1>3, <1>6, <1>9, <3>3
    <3> QED
      BY <1>9, <3>2, <3>3
  <2> QED
    BY <1>4, <2>1, <2>2, <2>3
<1>11. AcceptedInv'
  BY <1>4, <1>9
<1>12. ASSUME NEW t \in Senders, Sending(t)'
       PROVE  LET g == sender'[t].frame IN
              /\ g \in Own
              /\ \A l \in LedgerStates' : l[g.event] = [state |-> "INTENDED", of |-> g]
              /\ sender'[t].pc = "intended" \/ sender'[t].result = "NOT_SENT" => written'[g.event] = 0
              /\ sender'[t].pc = "published" => sender'[t].result \in {"ACCEPTED", "UNKNOWN_SEND", "NOT_SENT"}
              /\ sender'[t].result = "ACCEPTED" => g \in wire'
  <2>1. CASE t = s
    <3>1. sender'[t].frame = f /\ sender'[t].pc = "published" /\ sender'[t].result = a.state
      BY <1>7, <2>1
    <3>2. f \in Own /\ written'[f.event] = IF a.wrote THEN 1 ELSE 0
      BY <1>3, <1>6
    <3>3. \A l \in LedgerStates' : l[f.event] = [state |-> "INTENDED", of |-> f]
      BY <1>4, <1>5
    <3> QED
      BY <1>2, <1>9, <3>1, <3>2, <3>3
  <2>2. CASE t # s
    <3>1. Sending(t) /\ sender'[t] = sender[t] /\ sender[t].frame.event # f.event
      BY <1>5, <1>7, <1>8, <1>12, <2>2
    <3>2. sender[t].frame \in Own /\ sender[t].frame.event \in Events
      BY <3>1, WorldAssumption, FrameFields
    <3>3. written'[sender[t].frame.event] = written[sender[t].frame.event]
      BY <1>6, <3>1, <3>2
    <3> QED
      BY <1>4, <1>9, <3>1, <3>3
  <2> QED
    BY <2>1, <2>2
<1>13. \A t, u \in Senders :
         Sending(t)' /\ Sending(u)' /\ t # u => sender'[t].frame.event # sender'[u].frame.event
  BY <1>8
<1> QED
  BY <1>10, <1>11, <1>12, <1>13

LEMMA RecordKeeps ==
  ASSUME TypeOK, SenderInv, NEW s \in Senders, Record(s)
  PROVE  SenderInv'
<1> USE DEF SenderInv, WrittenInv, AcceptedInv, SendingInv
<1> DEFINE f == sender[s].frame
           e == f.event
           result == sender[s].result
<1>1. Sending(s) /\ f \in Own /\ e \in Events
  BY WorldAssumption, FrameFields DEF Record, Sending
<1>2. /\ result \in {"ACCEPTED", "UNKNOWN_SEND", "NOT_SENT"}
      /\ result = "NOT_SENT" => written[e] = 0
      /\ result = "ACCEPTED" => f \in wire
      /\ \A l \in LedgerStates : l[e] = [state |-> "INTENDED", of |-> f]
      /\ \A t \in Senders : Sending(t) /\ t # s => sender[t].frame.event # e
  BY <1>1 DEF Record
<1>3. UNCHANGED <<wire, written>>
  BY DEF Record
<1>4. \A t \in Senders : Sending(t)' => t # s /\ Sending(t) /\ sender'[t] = sender[t]
  BY DEF Record, Sending, AtRest, TypeOK, SenderTypeOK
<1>5. \A l \in LedgerStates' :
        /\ \/ l[e].state = result /\ l[e].of = f
           \/ l \in LedgerStates
        /\ \A x \in Events : x # e => \E k \in LedgerStates : l[x] = k[x]
  <2> DEFINE mem == Settled(ledger.mem, e, result)
             log == Settled(ledger.log, e, result)
  <2>1. /\ ledger.mem \in Ledgers /\ ledger.log \in Ledgers /\ result \in Sendings
        /\ ledger.mem \in LedgerStates /\ ledger.log \in LedgerStates
    BY <1>2 DEF LedgerStates, TypeOK, SenderTypeOK, Stores, Sendings
  <2>2. /\ ledger.mem[e].state # "NONE" /\ ledger.mem[e].of = f
        /\ ledger.log[e].state # "NONE" /\ ledger.log[e].of = f
    BY <1>2, <2>1
  <2>3. /\ mem[e].state = result /\ mem[e].of = f
        /\ log[e].state = result /\ log[e].of = f
        /\ \A x \in Events : x # e => mem[x] = ledger.mem[x] /\ log[x] = ledger.log[x]
    BY <1>1, <2>1, <2>2, SettledFacts
  <2>4. \/ ledger' = Saved(mem, log)
        \/ ledger' = Unsaved(ledger, ledger.mem, log)
    BY DEF Record
  <2> HIDE DEF mem, log, e, result, f
  <2>5. CASE ledger' = Saved(mem, log)
    BY <2>1, <2>3, <2>5 DEF LedgerStates, Saved
  <2>6. CASE ledger' = Unsaved(ledger, ledger.mem, log)
    BY <2>1, <2>3, <2>6 DEF LedgerStates, Unsaved
  <2> QED
    BY <2>4, <2>5, <2>6
<1> HIDE DEF f, e, result
<1>6. WrittenInv'
  <2>1. ASSUME NEW x \in Events, written[x] = 1, NEW l \in LedgerStates'
        PROVE  l[x].state \in Held
    <3>1. CASE x = e
      BY <1>2, <1>5, <2>1, <3>1 DEF Held
    <3>2. CASE x # e
      BY <1>5, <2>1, <3>2
    <3> QED
      BY <3>1, <3>2
  <2> QED
    BY <1>3, <2>1
<1>7. AcceptedInv'
  <2>1. ASSUME NEW x \in Events, NEW l \in LedgerStates', l[x].state = "ACCEPTED"
        PROVE  l[x].of \in wire
    <3>1. CASE x = e
      BY <1>2, <1>5, <2>1, <3>1
    <3>2. CASE x # e
      BY <1>5, <2>1, <3>2
    <3> QED
      BY <3>1, <3>2
  <2> QED
    BY <1>3, <2>1
<1>8. SendingInv'
  <2>1. ASSUME NEW t \in Senders, Sending(t)', NEW l \in LedgerStates'
        PROVE  l[sender'[t].frame.event] = [state |-> "INTENDED", of |-> sender'[t].frame]
    <3>1. Sending(t) /\ sender'[t] = sender[t] /\ sender[t].frame.event # e
      BY <1>2, <1>4, <2>1
    <3>2. sender[t].frame.event \in Events
      BY <3>1, WorldAssumption, FrameFields
    <3> QED
      BY <1>5, <3>1, <3>2
  <2> QED
    BY <1>3, <1>4, <2>1
<1> QED
  BY <1>6, <1>7, <1>8

LEMMA SenderRestartKeeps ==
  ASSUME TypeOK, SenderInv, SenderRestarts
  PROVE  SenderInv'
<1>1. PICK left \in ledger.disk : ledger' = Opened(Reconciled(left))
  BY DEF SenderRestarts
<1>2. left \in Ledgers /\ left \in LedgerStates
  BY DEF TypeOK, SenderTypeOK, Stores, LedgerStates
<1>3. LedgerStates' = {Reconciled(left)}
  BY <1>1 DEF LedgerStates, Opened
<1>4. \A e \in Events :
        /\ Reconciled(left)[e].of = left[e].of
        /\ Reconciled(left)[e].state = IF left[e].state = "INTENDED" THEN "UNKNOWN_SEND" ELSE left[e].state
  BY <1>2, ReconciledFacts
<1>5. UNCHANGED <<wire, written>> /\ \A s \in Senders : ~Sending(s)'
  BY DEF SenderRestarts, Sending, AtRest
<1>6. WrittenInv'
  BY <1>2, <1>3, <1>4, <1>5 DEF SenderInv, WrittenInv, Held
<1>7. AcceptedInv'
  BY <1>2, <1>3, <1>4, <1>5 DEF SenderInv, AcceptedInv
<1>8. SendingInv'
  BY <1>5 DEF SendingInv
<1> QED
  BY <1>6, <1>7, <1>8 DEF SenderInv

\* Everything else leaves the ledger, the threads and the wire alone.
LEMMA SenderUntouched ==
  ASSUME SenderInv, UNCHANGED senderVars, wire' = wire
  PROVE  SenderInv'
BY DEF SenderInv, WrittenInv, AcceptedInv, SendingInv, Sending, LedgerStates, senderVars

-----------------------------------------------------------------------------
(* Steps of the receiver: types first. *)

\* What a cursor write leaves, and which states of the file are old ones.
LEMMA CursorStatesAfter ==
  ASSUME NEW mem, NEW log, NEW e, BestEffort(mem, log, e)
  PROVE  /\ cursor'.mem = mem /\ cursor'.log = log
         /\ unsaved \subseteq unsaved' /\ unsaved' \subseteq unsaved \cup {e}
         /\ \A c \in CursorStates' :
              c = mem \/ c = log \/ (c \in CursorStates /\ e \in unsaved')
BY DEF BestEffort, Write, WriteFails, CursorStates, Saved, Unsaved

LEMMA WriteTyped ==
  ASSUME TypeOK, NEW mem \in Cursors, NEW log \in Cursors, NEW e \in Events, BestEffort(mem, log, e)
  PROVE  /\ cursor' \in Stores(Cursors) /\ unsaved' \subseteq Events
         /\ faults' \in Nat
BY DEF TypeOK, WorldTypeOK, ReceiverTypeOK, BestEffort, Write, WriteFails, Fault, NoFault, Stores, Saved, Unsaved

LEMMA TellTyped ==
  ASSUME TypeOK, NEW e \in Events, Tell(e)
  PROVE  told' \in [Events -> Nat]
BY DEF TypeOK, ReceiverTypeOK, Tell

LEMMA StatesTyped ==
  ASSUME TypeOK
  PROVE  /\ CursorStates \subseteq Cursors
         /\ cursor.mem \in CursorStates /\ cursor.log \in CursorStates /\ cursor.disk \subseteq CursorStates
BY DEF TypeOK, ReceiverTypeOK, Stores, CursorStates

LEMMA ReceiverTyped ==
  ASSUME TypeOK, ReceiverInv, ReceiverNext, UNCHANGED senderVars
  PROVE  TypeOK'
<1>0. SenderTypeOK'
  BY DEF TypeOK, SenderTypeOK, senderVars
<1>a. cursor.mem \in Cursors /\ cursor.log \in Cursors
  BY StatesTyped
<1>1. ASSUME NEW w \in Workers, NEW f \in Frames, NoteConflict(w, f)
      PROVE  TypeOK'
  <2>1. Conflicted(cursor.mem, f) \in Cursors /\ Conflicted(cursor.log, f) \in Cursors
    BY <1>a, ConflictedFacts
  <2>2. cursor' \in Stores(Cursors) /\ unsaved' \subseteq Events /\ faults' \in Nat
    BY <1>1, <2>1, FrameFields, WriteTyped DEF NoteConflict
  <2> QED
    BY <1>0, <1>1, <2>2 DEF NoteConflict, TypeOK, WorldTypeOK, ReceiverTypeOK
<1>2. ASSUME NEW w \in Workers, NEW f \in Frames, Surface(w, f)
      PROVE  TypeOK'
  <2>1. Surfaced(cursor.mem, f.event) \in Cursors /\ Surfaced(cursor.log, f.event) \in Cursors
    BY <1>a, FrameFields, SurfacedFacts
  <2>2. cursor' \in Stores(Cursors) /\ unsaved' \subseteq Events /\ faults' \in Nat
    BY <1>2, <2>1, FrameFields, WriteTyped DEF Surface
  <2>3. told' \in [Events -> Nat]
    BY <1>2, FrameFields, TellTyped DEF Surface
  <2> QED
    BY <1>0, <1>2, <2>2, <2>3 DEF Surface, TypeOK, WorldTypeOK, ReceiverTypeOK
<1>3. ASSUME NEW w \in Workers, NEW f \in Frames, Admit(w, f)
      PROVE  TypeOK'
  <2>1. Claimed(cursor.mem, f) \in Cursors /\ Claimed(cursor.log, f) \in Cursors
    BY <1>a, ClaimedFacts
  <2>2. cursor' \in Stores(Cursors) /\ unsaved' \subseteq Events /\ faults' \in Nat
    BY <1>3, <1>a, <2>1, FrameFields, WriteTyped DEF Admit, BestEffort
  <2>3. told' \in [Events -> Nat]
    BY <1>3, FrameFields, TellTyped DEF Admit, TypeOK, ReceiverTypeOK
  <2>4. worker' \in [Workers -> WorkerStates]
    <3> DEFINE stale == [pc |-> "stale", frame |-> f, verdict |-> "STALE_SUPERSEDED", confirmed |-> FALSE]
               resolving == [pc |-> "resolving", frame |-> f, verdict |-> "NONE", confirmed |-> FALSE]
    <3>1. stale \in WorkerStates /\ resolving \in WorkerStates
      BY DEF WorkerStates, Outcomes
    <3>2. worker \in [Workers -> WorkerStates]
      BY DEF TypeOK, ReceiverTypeOK
    <3>3. \/ worker' = [worker EXCEPT ![w] = IF IsBehind(f) THEN stale ELSE resolving]
          \/ UNCHANGED worker
      BY <1>3 DEF Admit
    <3> HIDE DEF stale, resolving
    <3> QED
      BY <3>1, <3>2, <3>3
  <2> QED
    BY <1>0, <1>3, <2>2, <2>3, <2>4 DEF Admit, TypeOK, WorldTypeOK, ReceiverTypeOK
<1>4. ASSUME NEW w \in Workers, Resolve(w)
      PROVE  TypeOK'
  <2>1. PICK verdict \in Outcomes, confirmed \in BOOLEAN : Answered(w, verdict, confirmed)
    <3>1. CASE \E verdict \in {"HOLD_UNREADABLE", "HOLD_IDENTITY"} : Answered(w, verdict, FALSE)
      BY <3>1 DEF Outcomes, Refuted
    <3>2. CASE \E says \in OwnerSays(worker[w].frame) :
                 Answered(w, Judged(worker[w].frame, says), Confirms(worker[w].frame, says))
      <4>1. PICK says \in OwnerSays(worker[w].frame) :
              Answered(w, Judged(worker[w].frame, says), Confirms(worker[w].frame, says))
        BY <3>2
      <4>2. Judged(worker[w].frame, says) \in Outcomes /\ Confirms(worker[w].frame, says) \in BOOLEAN
        BY DEF Judged, Confirms, Outcomes, Refuted
      <4> QED
        BY <4>1, <4>2
    <3> QED
      BY <1>4, <3>1, <3>2 DEF Resolve
  <2>2. worker' \in [Workers -> WorkerStates]
    <3> DEFINE me == [worker[w] EXCEPT !.pc = "answered", !.verdict = verdict, !.confirmed = confirmed]
    <3>1. worker \in [Workers -> WorkerStates]
      BY DEF TypeOK, ReceiverTypeOK
    <3>2. me \in WorkerStates
      BY <3>1 DEF WorkerStates
    <3>3. worker' = [worker EXCEPT ![w] = me]
      BY <2>1, <3>1 DEF Answered
    <3> HIDE DEF me
    <3> QED
      BY <3>1, <3>2, <3>3
  <2>3. worker[w].frame \in Frames
    BY <1>4 DEF Resolve, ReceiverInv, WorkerInv, Active
  <2>4. read' \in [Frames -> Nat]
    BY <1>4, <2>3 DEF Resolve, TypeOK, ReceiverTypeOK
  <2> QED
    BY <1>0, <1>4, <2>2, <2>4 DEF Resolve, worldVars, TypeOK, WorldTypeOK, ReceiverTypeOK
<1>5. ASSUME NEW w \in Workers, Close(w)
      PROVE  TypeOK'
  <2> DEFINE me == worker[w]
             e == me.frame.event
  <2>1. e \in Events /\ me.verdict \in Outcomes /\ me.confirmed \in BOOLEAN
    <3>1. Active(w) /\ me.pc # "resolving"
      BY <1>5 DEF Close, Active
    <3>2. me.frame \in Frames /\ me.verdict \in Outcomes
      BY <3>1 DEF ReceiverInv, WorkerInv
    <3> QED
      BY <3>2, FrameFields DEF TypeOK, ReceiverTypeOK, WorkerStates
  <2>2. /\ Finalized(cursor.mem, e, me.verdict, me.confirmed) \in Cursors
        /\ Finalized(cursor.log, e, me.verdict, me.confirmed) \in Cursors
    BY <1>a, <2>1, FinalizedFacts
  <2>3. cursor' \in Stores(Cursors) /\ unsaved' \subseteq Events /\ faults' \in Nat
    BY <1>5, <2>1, <2>2, WriteTyped DEF Close
  <2>4. told' \in [Events -> Nat]
    BY <1>5, <2>1, TellTyped DEF Close
  <2>5. worker' \in [Workers -> WorkerStates]
    BY <1>5 DEF Close, Listening, TypeOK, ReceiverTypeOK, WorkerStates
  <2> QED
    BY <1>0, <1>5, <2>3, <2>4, <2>5 DEF Close, TypeOK, WorldTypeOK, ReceiverTypeOK
<1>6. CASE ReceiverRestarts
  <2>1. PICK left \in cursor.disk : cursor' = Opened(Recovered(left))
    BY <1>6 DEF ReceiverRestarts
  <2>2. Recovered(left) \in Cursors
    BY StatesTyped, RecoveredFacts
  <2>3. cursor' \in Stores(Cursors)
    BY <2>1, <2>2 DEF Opened, Stores
  <2> QED
    BY <1>0, <1>6, <2>3
       DEF ReceiverRestarts, Listening, TypeOK, WorldTypeOK, ReceiverTypeOK, WorkerStates
<1> QED
  BY <1>1, <1>2, <1>3, <1>4, <1>5, <1>6 DEF ReceiverNext, Receive

-----------------------------------------------------------------------------
(* The receiver's invariant. *)

LEMMA ReceiverInvInit ==
  ASSUME Init
  PROVE  ReceiverInv
<1>1. CursorStates = {EmptyCursor} /\ cursor.mem = EmptyCursor /\ cursor.log = EmptyCursor
  BY DEF Init, ReceiverInit, Opened, CursorStates
<1>2. \A f \in Frames : read[f] = 0 /\ ~Busy(f)
  BY DEF Init, ReceiverInit, Busy, Active, Listening
<1>3. Good(EmptyCursor)
  BY <1>1, <1>2, FrameFields
     DEF Good, Plain, Knows, HoldsScopes, IsCurrent, EmptyCursor
<1>4. CursorInv
  BY <1>1, <1>3 DEF CursorInv, EmptyCursor
<1>5. ReadInv
  BY <1>2 DEF ReadInv
<1>6. WorkerInv /\ TellInv
  BY DEF Init, ReceiverInit, WorkerInv, TellInv, Active, Listening
<1> QED
  BY <1>4, <1>5, <1>6 DEF ReceiverInv

\* A state stays good when the memory makes no claim, changes only events that a write
\* has failed for, nothing becomes busy, and the owner only moves on.
LEMMA GoodAfter ==
  ASSUME TypeOK, TypeOK', NEW c \in Cursors, Good(c), NEW d,
         d.claim = c.claim, d.verdict = c.verdict, d.idem = c.idem, d.high = c.high,
         \A e \in Events : e \in d.surfaced <=> e \in c.surfaced,
         unsaved \subseteq unsaved',
         \A e \in Events : cursor'.mem.claim[e] = cursor.mem.claim[e],
         \A e \in Events \ unsaved' :
           /\ cursor'.mem.verdict[e] = cursor.mem.verdict[e]
           /\ e \in cursor'.mem.surfaced <=> e \in cursor.mem.surfaced,
         \A f \in Frames : Busy(f)' => Busy(f),
         \A r \in Refs : current[r] <= current'[r]
  PROVE  Good(d)'
<1>1. Plain(d)'
  BY DEF Good, Plain
<1>2. Knows(d)'
  BY DEF Good, Knows
<1>3. HoldsScopes(d)'
  BY DEF Good, HoldsScopes
<1>4. \A r \in Refs : d.high[r] # NoFrame => d.high[r].seq <= current'[r]
  <2> SUFFICES ASSUME NEW r \in Refs, c.high[r] # NoFrame PROVE c.high[r].seq <= current'[r]
    OBVIOUS
  <2>1. c.high[r] \in Frames
    BY DEF Cursors
  <2>2. c.high[r].seq \in Nat /\ current[r] \in Nat /\ current'[r] \in Nat
    BY <2>1, FrameFields DEF TypeOK, WorldTypeOK
  <2>3. c.high[r].seq <= current[r]
    BY DEF Good, IsCurrent
  <2> QED
    BY <2>2, <2>3
<1>5. \A e \in Events : d.verdict[e] = "STALE_SUPERSEDED" /\ Genuine(d.claim[e]) =>
        d.claim[e].seq < current'[d.claim[e].ref]
  <2> SUFFICES ASSUME NEW e \in Events, c.verdict[e] = "STALE_SUPERSEDED", Genuine(c.claim[e])
               PROVE  c.claim[e].seq < current'[c.claim[e].ref]
    OBVIOUS
  <2>1. c.claim[e] \in Frames
    BY DEF Good, Plain, Cursors
  <2>2. /\ c.claim[e].seq \in Nat /\ c.claim[e].ref \in Refs
        /\ current[c.claim[e].ref] \in Nat /\ current'[c.claim[e].ref] \in Nat
    BY <2>1, FrameFields DEF TypeOK, WorldTypeOK
  <2>3. c.claim[e].seq < current[c.claim[e].ref]
    BY DEF Good, IsCurrent
  <2> QED
    BY <2>2, <2>3
<1> QED
  BY <1>1, <1>2, <1>3, <1>4, <1>5 DEF Good, IsCurrent

\* Steps that leave the cursor, the threads and the histories alone.
LEMMA ReceiverUntouched ==
  ASSUME TypeOK, TypeOK', ReceiverInv, UNCHANGED receiverVars,
         \A r \in Refs : current[r] <= current'[r]
  PROVE  ReceiverInv'
<1>1. CursorStates' = CursorStates /\ CursorStates \subseteq Cursors
  BY StatesTyped DEF receiverVars, CursorStates
<1>2. \A f \in Frames : Busy(f)' => Busy(f)
  BY DEF receiverVars, Busy, Active
<1>3. ASSUME NEW c \in CursorStates
      PROVE  Good(c)'
  <2>1. Good(c) /\ c \in Cursors
    BY <1>1, <1>3 DEF ReceiverInv, CursorInv
  <2>2. UNCHANGED <<cursor, unsaved>>
    BY DEF receiverVars
  <2> QED
    BY <1>2, <2>1, <2>2, GoodAfter
<1>4. CursorInv'
  BY <1>1, <1>3 DEF ReceiverInv, CursorInv, receiverVars
<1>5. ReadInv' /\ TellInv'
  BY DEF ReceiverInv, ReadInv, TellInv, receiverVars
<1>6. WorkerInv'
  <2>1. ASSUME NEW w \in Workers, Active(w)
        PROVE  LET me == worker[w]  f == me.frame IN
               /\ me.verdict = "STALE_SUPERSEDED" /\ Genuine(f) => f.seq < current'[f.ref]
               /\ me.confirmed => f.seq <= current'[f.ref]
    <3> DEFINE f == worker[w].frame
    <3>1. f \in Frames
      BY <2>1 DEF ReceiverInv, WorkerInv
    <3>2. f.seq \in Nat /\ f.ref \in Refs /\ current[f.ref] \in Nat /\ current'[f.ref] \in Nat
      BY <3>1, FrameFields DEF TypeOK, WorldTypeOK
    <3>3. current[f.ref] <= current'[f.ref]
      BY <3>2
    <3> QED
      BY <2>1, <3>2, <3>3 DEF ReceiverInv, WorkerInv
  <2> QED
    BY <2>1 DEF ReceiverInv, WorkerInv, Active, receiverVars
<1> QED
  BY <1>4, <1>5, <1>6 DEF ReceiverInv

LEMMA NoteConflictKeeps ==
  ASSUME TypeOK, TypeOK', ReceiverInv, NEW w \in Workers, NEW f \in Frames, NoteConflict(w, f)
  PROVE  ReceiverInv'
<1> DEFINE mem == Conflicted(cursor.mem, f)
           log == Conflicted(cursor.log, f)
<1>1. UNCHANGED <<current, worker, read, told>> /\ BestEffort(mem, log, f.event)
  BY DEF NoteConflict
<1>2. /\ cursor.mem \in Cursors /\ cursor.log \in Cursors /\ CursorStates \subseteq Cursors
      /\ cursor.mem \in CursorStates /\ cursor.log \in CursorStates
  BY StatesTyped
<1>3. /\ mem.claim = cursor.mem.claim /\ mem.verdict = cursor.mem.verdict
      /\ mem.idem = cursor.mem.idem /\ mem.high = cursor.mem.high /\ mem.surfaced = cursor.mem.surfaced
      /\ log.claim = cursor.log.claim /\ log.verdict = cursor.log.verdict
      /\ log.idem = cursor.log.idem /\ log.high = cursor.log.high /\ log.surfaced = cursor.log.surfaced
  BY <1>2, ConflictedFacts
<1> HIDE DEF mem, log
<1>4. /\ cursor'.mem = mem /\ cursor'.log = log /\ unsaved \subseteq unsaved'
      /\ \A c \in CursorStates' : c = mem \/ c = log \/ c \in CursorStates
  BY <1>1, CursorStatesAfter
<1>5. \A g \in Frames : Busy(g)' => Busy(g)
  BY <1>1 DEF Busy, Active
<1>6. \A r \in Refs : current[r] <= current'[r]
  BY <1>1 DEF TypeOK, WorldTypeOK
<1>7. ASSUME NEW c \in CursorStates, NEW d,
             d.claim = c.claim, d.verdict = c.verdict, d.idem = c.idem, d.high = c.high,
             d.surfaced = c.surfaced
      PROVE  Good(d)'
  <2>1. Good(c) /\ c \in Cursors
    BY <1>2, <1>7 DEF ReceiverInv, CursorInv
  <2> QED
    BY <1>3, <1>4, <1>5, <1>6, <1>7, <2>1, GoodAfter
<1>8. ASSUME NEW d \in CursorStates'
      PROVE  Good(d)'
  <2>1. CASE d = mem
    BY <1>2, <1>3, <1>7, <2>1
  <2>2. CASE d = log
    BY <1>2, <1>3, <1>7, <2>2
  <2>3. CASE d \in CursorStates
    BY <1>7, <2>3
  <2> QED
    BY <1>4, <2>1, <2>2, <2>3
<1>9. CursorInv'
  BY <1>3, <1>4, <1>8 DEF CursorInv, ReceiverInv
<1>10. ReadInv' /\ TellInv'
  BY <1>1, <1>3, <1>4 DEF ReceiverInv, ReadInv, TellInv
<1>11. WorkerInv'
  BY <1>1, <1>3, <1>4 DEF ReceiverInv, WorkerInv, Active
<1> QED
  BY <1>9, <1>10, <1>11 DEF ReceiverInv

LEMMA SurfaceKeeps ==
  ASSUME TypeOK, TypeOK', ReceiverInv, NEW w \in Workers, NEW f \in Frames, Surface(w, f)
  PROVE  ReceiverInv'
<1> DEFINE e == f.event
           mem == Surfaced(cursor.mem, e)
           log == Surfaced(cursor.log, e)
<1>1. /\ UNCHANGED <<current, worker, read>> /\ BestEffort(mem, log, e) /\ Tell(e)
      /\ cursor.mem.claim[e] = f /\ cursor.mem.verdict[e] = "RECOVERED" /\ e \notin cursor.mem.surfaced
      /\ f # NoFrame /\ e \in Events
  BY FrameFields DEF Surface, Seen
<1>2. /\ cursor.mem \in Cursors /\ cursor.log \in Cursors /\ CursorStates \subseteq Cursors
      /\ cursor.mem \in CursorStates /\ cursor.log \in CursorStates
  BY StatesTyped
<1>3. cursor.log.claim[e] = f /\ Good(cursor.mem) /\ Good(cursor.log)
  BY <1>1, <1>2 DEF ReceiverInv, CursorInv, Good, Knows
<1>4. /\ mem.claim = cursor.mem.claim /\ mem.verdict = cursor.mem.verdict
      /\ mem.idem = cursor.mem.idem /\ mem.high = cursor.mem.high
      /\ log.claim = cursor.log.claim /\ log.verdict = cursor.log.verdict
      /\ log.idem = cursor.log.idem /\ log.high = cursor.log.high
      /\ \A x \in Events : x \in mem.surfaced <=> x \in cursor.mem.surfaced \/ x = e
      /\ \A x \in Events : x \in log.surfaced <=> x \in cursor.log.surfaced \/ x = e
  BY <1>1, <1>2, <1>3, SurfacedFacts
<1> HIDE DEF mem, log
<1>5. /\ cursor'.mem = mem /\ cursor'.log = log /\ unsaved \subseteq unsaved'
      /\ \A c \in CursorStates' : c = mem \/ c = log \/ (c \in CursorStates /\ e \in unsaved')
  BY <1>1, CursorStatesAfter
<1>6. \A g \in Frames : Busy(g)' => Busy(g)
  BY <1>1 DEF Busy, Active
<1>7. \A r \in Refs : current[r] <= current'[r]
  BY <1>1 DEF TypeOK, WorldTypeOK
<1>8. ASSUME NEW c \in CursorStates, NEW d,
             d.claim = c.claim, d.verdict = c.verdict, d.idem = c.idem, d.high = c.high,
             \A x \in Events \ unsaved' : x \in d.surfaced <=> x \in mem.surfaced
      PROVE  Good(d)'
  <2>1. Good(c) /\ c \in Cursors
    BY <1>2, <1>8 DEF ReceiverInv, CursorInv
  <2>2. Plain(d)' /\ HoldsScopes(d)'
    BY <1>6, <1>8, <2>1 DEF Good, Plain, HoldsScopes
  <2>3. Knows(d)'
    BY <1>4, <1>5, <1>8, <2>1 DEF Good, Knows
  <2>4. IsCurrent(d)'
    BY <1>1, <1>8, <2>1 DEF Good, IsCurrent
  <2> QED
    BY <2>2, <2>3, <2>4 DEF Good
<1>9. ASSUME NEW d \in CursorStates'
      PROVE  Good(d)'
  <2>1. CASE d = mem
    BY <1>2, <1>4, <1>8, <2>1
  <2>2. CASE d = log
    <3>1. \A x \in Events \ unsaved' : x \in log.surfaced <=> x \in mem.surfaced
      BY <1>3, <1>4, <1>5 DEF Good, Knows
    <3> QED
      BY <1>2, <1>4, <1>8, <2>2, <3>1
  <2>3. CASE d \in CursorStates /\ e \in unsaved'
    <3>1. Good(d)
      BY <2>3 DEF ReceiverInv, CursorInv
    <3>2. \A x \in Events \ unsaved' : x \in d.surfaced <=> x \in mem.surfaced
      BY <1>4, <1>5, <2>3, <3>1 DEF Good, Knows
    <3> QED
      BY <1>8, <2>3, <3>2
  <2> QED
    BY <1>5, <2>1, <2>2, <2>3
<1>10. CursorInv'
  BY <1>4, <1>5, <1>9 DEF CursorInv, ReceiverInv
<1>11. ReadInv'
  BY <1>1, <1>4, <1>5 DEF ReceiverInv, ReadInv
<1>12. TellInv'
  <2> SUFFICES ASSUME NEW x \in Events, x \notin unsaved'
               PROVE  /\ told'[x] <= 1
                      /\ told'[x] = 1 => \/ cursor'.mem.verdict[x] \in Outcomes
                                         \/ cursor'.mem.verdict[x] = "RECOVERED" /\ x \in cursor'.mem.surfaced
    BY DEF TellInv
  <2>1. x \notin unsaved
    BY <1>5
  <2>2. CASE x = e
    <3>1. told[e] = 0
      BY <1>1, <2>1, <2>2 DEF ReceiverInv, TellInv, Outcomes, Refuted, TypeOK, ReceiverTypeOK
    <3>2. told'[e] <= 1
      BY <1>1, <3>1 DEF Tell, TypeOK, ReceiverTypeOK
    <3> QED
      BY <1>1, <1>4, <1>5, <2>2, <3>2
  <2>3. CASE x # e
    <3>1. told'[x] = told[x]
      BY <1>1, <2>3 DEF Tell, TypeOK, ReceiverTypeOK
    <3> QED
      BY <1>4, <1>5, <2>1, <2>3, <3>1 DEF ReceiverInv, TellInv
  <2> QED
    BY <2>2, <2>3
<1>13. WorkerInv'
  BY <1>1, <1>4, <1>5 DEF ReceiverInv, WorkerInv, Active
<1> QED
  BY <1>10, <1>11, <1>12, <1>13 DEF ReceiverInv

\* A frame that is claimed: the work it joins is of other events, and all of it that was
\* for the same scope is refuted.
LEMMA ClaimIsGood ==
  ASSUME TypeOK, ReceiverInv, NEW f \in Frames, IsNew(f), UNCHANGED current,
         \A g \in Frames : Busy(g)' => Busy(g) \/ g = f,
         NEW c \in {cursor.mem, cursor.log}, NEW d, d = Claimed(c, f)
  PROVE  Plain(d)' /\ HoldsScopes(d)' /\ IsCurrent(d)'
<1>1. /\ c \in Cursors /\ c \in CursorStates /\ cursor.mem \in Cursors /\ cursor.mem \in CursorStates
      /\ Good(c) /\ Good(cursor.mem)
  BY StatesTyped DEF ReceiverInv, CursorInv
<1>2. /\ d.high = c.high
      /\ \A e \in Events : d.claim[e] = IF e = f.event THEN f ELSE c.claim[e]
      /\ \A e \in Events : d.verdict[e] = IF e = f.event THEN "PENDING" ELSE c.verdict[e]
      /\ \A s \in Scopes : d.idem[s] = IF s = f.scope THEN f.event ELSE c.idem[s]
  BY <1>1, ClaimedFacts
<1>3. f.event \in Events /\ f.scope \in Scopes /\ f # NoFrame
  BY FrameFields
<1>4. ASSUME NEW g \in Frames, Busy(g)
      PROVE  cursor.mem.claim[g.event] = g /\ g.event # f.event /\ g.event \in Events
  <2>1. cursor.mem.claim[g.event] = g
    BY <1>4 DEF Busy, ReceiverInv, ReadInv, WorkerInv
  <2> QED
    BY <2>1, FrameFields DEF IsNew, Seen
<1>5. ASSUME NEW g \in Frames, Busy(g), g.scope = f.scope
      PROVE  c.verdict[g.event] \in Refuted
  <2>1. cursor.mem.claim[g.event] # NoFrame /\ g.event \in Events
    BY <1>4, <1>5, FrameFields
  <2>2. cursor.mem.idem[g.scope] # g.event
    BY <1>5, <2>1, FramesAssumption DEF IsNew, ScopeIsTaken, Holder
  <2>3. cursor.mem.verdict[g.event] \in Refuted
    BY <1>1, <1>5, <2>2 DEF Good, HoldsScopes
  <2> QED
    BY <2>1, <2>3 DEF ReceiverInv, CursorInv
<1>6. Plain(d)'
  BY <1>1, <1>2, <1>3 DEF Good, Plain
<1>7. HoldsScopes(d)'
  <2> SUFFICES ASSUME NEW g \in Frames, Busy(g)'
               PROVE  d.idem[g.scope] = g.event \/ d.verdict[g.event] \in Refuted
    BY DEF HoldsScopes
  <2>1. CASE g = f
    BY <1>2, <1>3, <2>1
  <2>2. CASE g # f /\ g.scope = f.scope
    BY <1>2, <1>4, <1>5, <2>2
  <2>3. CASE g # f /\ g.scope # f.scope
    <3>1. g.scope \in Scopes /\ Busy(g)
      BY <2>3, FrameFields
    <3> QED
      BY <1>1, <1>2, <1>4, <2>3, <3>1 DEF Good, HoldsScopes
  <2> QED
    BY <2>1, <2>2, <2>3
<1>8. IsCurrent(d)'
  BY <1>1, <1>2 DEF Good, IsCurrent
<1> QED
  BY <1>6, <1>7, <1>8

LEMMA AdmitKeeps ==
  ASSUME TypeOK, TypeOK', ReceiverInv, NEW w \in Workers, NEW f \in Frames, Admit(w, f)
  PROVE  ReceiverInv'
<1> DEFINE mem == Claimed(cursor.mem, f)
           log == Claimed(cursor.log, f)
<1>1. /\ UNCHANGED <<current, read>> /\ IsNew(f) /\ worker[w].pc = "idle"
      /\ cursor.mem.claim[f.event] = NoFrame /\ f.event \in Events /\ f # NoFrame
  BY FrameFields DEF Admit, Receives, IsNew, Seen
<1>2. /\ cursor.mem \in Cursors /\ cursor.log \in Cursors /\ CursorStates \subseteq Cursors
      /\ cursor.mem \in CursorStates /\ cursor.log \in CursorStates
      /\ Good(cursor.mem) /\ Good(cursor.log)
  BY StatesTyped DEF ReceiverInv, CursorInv
<1>3. /\ mem.high = cursor.mem.high
      /\ \A e \in Events : mem.claim[e] = IF e = f.event THEN f ELSE cursor.mem.claim[e]
      /\ \A e \in Events : mem.verdict[e] = IF e = f.event THEN "PENDING" ELSE cursor.mem.verdict[e]
      /\ \A e \in Events : e \in mem.surfaced <=> e \in cursor.mem.surfaced /\ e # f.event
  BY <1>2, ClaimedFacts
<1>4. /\ \A e \in Events : log.claim[e] = IF e = f.event THEN f ELSE cursor.log.claim[e]
      /\ \A e \in Events : log.verdict[e] = IF e = f.event THEN "PENDING" ELSE cursor.log.verdict[e]
      /\ \A e \in Events : e \in log.surfaced <=> e \in cursor.log.surfaced /\ e # f.event
  BY <1>2, ClaimedFacts
<1>5. ASSUME \A g \in Frames : Busy(g)' => Busy(g) \/ g = f, NEW d, d = mem \/ d = log
      PROVE  Plain(d)' /\ HoldsScopes(d)' /\ IsCurrent(d)'
  <2>1. PICK c \in {cursor.mem, cursor.log} : d = Claimed(c, f)
    BY <1>5
  <2> QED
    BY <1>1, <1>5, <2>1, ClaimIsGood
<1> HIDE DEF mem, log
<1>6. ASSUME NEW v \in Workers, Active(v)
      PROVE  /\ worker[v].frame \in Frames /\ worker[v].frame.event \in Events
             /\ worker[v].frame.event # f.event /\ v # w
  BY <1>1, <1>6, FrameFields DEF ReceiverInv, WorkerInv, Active
<1>7. ASSUME NEW g \in Frames, read[g] > 0
      PROVE  g.event \in Events /\ g.event # f.event
  BY <1>1, <1>7, FrameFields DEF ReceiverInv, ReadInv
<1>8. CASE /\ WriteFails(cursor.mem, log, f.event) /\ Tell(f.event) /\ UNCHANGED worker
  <2>1. /\ cursor'.mem = cursor.mem /\ cursor'.log = log
        /\ unsaved \subseteq unsaved' /\ f.event \in unsaved'
        /\ \A c \in CursorStates' : c = log \/ c \in CursorStates
    BY <1>2, <1>8 DEF WriteFails, Unsaved, CursorStates
  <2>2. \A g \in Frames : Busy(g)' => Busy(g)
    BY <1>1, <1>8 DEF Busy, Active
  <2>3. \A r \in Refs : current[r] <= current'[r]
    BY <1>1 DEF TypeOK, WorldTypeOK
  <2>4. ASSUME NEW c \in CursorStates
        PROVE  Good(c)'
    <3>1. Good(c) /\ c \in Cursors
      BY <1>2, <2>4 DEF ReceiverInv, CursorInv
    <3> QED
      BY <2>1, <2>2, <2>3, <3>1, GoodAfter
  <2>5. ASSUME NEW d, d = log
        PROVE  Good(d)'
    <3>1. Knows(d)'
      BY <1>1, <1>2, <1>4, <2>1, <2>5 DEF Good, Knows
    <3> QED
      BY <1>5, <2>2, <2>5, <3>1 DEF Good
  <2>6. CursorInv'
    BY <1>1, <1>4, <2>1, <2>4, <2>5 DEF CursorInv, ReceiverInv
  <2>7. ReadInv' /\ WorkerInv'
    BY <1>1, <1>8, <2>1 DEF ReceiverInv, ReadInv, WorkerInv, Active
  <2>8. TellInv'
    <3>1. \A e \in Events : e \notin unsaved' => told'[e] = told[e] /\ e \notin unsaved
      BY <1>8, <2>1 DEF Tell, TypeOK, ReceiverTypeOK
    <3> QED
      BY <2>1, <3>1 DEF ReceiverInv, TellInv
  <2> QED
    BY <2>6, <2>7, <2>8 DEF ReceiverInv
<1>9. ASSUME Write(mem, log), UNCHANGED told,
             NEW me, worker' = [worker EXCEPT ![w] = me],
             me.frame = f, me.pc # "idle", me.confirmed = FALSE,
             me.pc # "resolving" => me.verdict \in Outcomes,
             me.verdict = "STALE_SUPERSEDED" => IsBehind(f)
      PROVE  ReceiverInv'
  <2>1. /\ cursor'.mem = mem /\ cursor'.log = log /\ unsaved' = unsaved
        /\ \A c \in CursorStates' : c = mem \/ c = log
    BY <1>9 DEF Write, Saved, CursorStates
  <2>2. worker'[w] = me /\ \A v \in Workers : v # w => worker'[v] = worker[v]
    BY <1>9 DEF TypeOK, ReceiverTypeOK
  <2>3. \A g \in Frames : Busy(g)' => Busy(g) \/ g = f
    <3> SUFFICES ASSUME NEW g \in Frames, Busy(g)', g # f PROVE Busy(g)
      OBVIOUS
    <3>1. CASE read'[g] > 0
      BY <1>1, <3>1 DEF Busy
    <3>2. CASE \E v \in Workers : Active(v)' /\ worker'[v].frame = g
      BY <1>9, <2>2, <3>2 DEF Busy, Active
    <3> QED
      BY <3>1, <3>2 DEF Busy
  <2>4. ASSUME NEW d, d = mem \/ d = log
        PROVE  Good(d)'
    <3>1. Knows(d)'
      BY <1>1, <1>2, <1>3, <1>4, <2>1, <2>4 DEF Good, Knows
    <3> QED
      BY <1>5, <2>3, <2>4, <3>1 DEF Good
  <2>5. CursorInv'
    <3>1. \A d \in CursorStates' : Good(d)'
      BY <2>1, <2>4
    <3>2. \A e \in Events : mem.claim[e] # NoFrame => log.verdict[e] = mem.verdict[e]
      BY <1>3, <1>4 DEF ReceiverInv, CursorInv
    <3> QED
      BY <2>1, <3>1, <3>2 DEF CursorInv
  <2>6. ReadInv'
    BY <1>1, <1>3, <1>7, <2>1 DEF ReceiverInv, ReadInv
  <2>7. TellInv'
    <3>1. f.event \notin unsaved => told[f.event] = 0
      BY <1>1, <1>2 DEF ReceiverInv, TellInv, Good, Plain, Outcomes, Refuted, TypeOK, ReceiverTypeOK
    <3> QED
      BY <1>3, <1>9, <2>1, <3>1 DEF ReceiverInv, TellInv
  <2>8. IsBehind(f) => f.seq < current[f.ref]
    <3> SUFFICES ASSUME IsBehind(f) PROVE f.seq < current[f.ref]
      OBVIOUS
    <3>1. f.ref \in Refs /\ f.seq \in Nat
      BY FrameFields
    <3>2. High(f) \in Frames
      BY <1>2, <3>1 DEF IsBehind, High, Cursors
    <3>3. High(f).seq \in Nat /\ current[f.ref] \in Nat
      BY <3>1, <3>2, FrameFields DEF TypeOK, WorldTypeOK
    <3>4. High(f).seq <= current[f.ref] /\ f.seq < High(f).seq
      BY <1>2, <3>1 DEF Good, IsCurrent, IsBehind, High
    <3> QED
      BY <3>1, <3>3, <3>4
  <2>9. read[f] = 0
    BY <1>7 DEF TypeOK, ReceiverTypeOK
  <2>10. WorkerInv'
    <3>1. ASSUME NEW v \in Workers, Active(v)'
          PROVE  LET you == worker'[v]  g == you.frame IN
                 /\ g \in Frames
                 /\ mem.claim[g.event] = g /\ mem.verdict[g.event] = "PENDING"
                 /\ you.pc = "resolving" => read[g] = 0
                 /\ you.pc # "resolving" => you.verdict \in Outcomes
                 /\ you.verdict = "STALE_SUPERSEDED" /\ Genuine(g) => g.seq < current[g.ref]
                 /\ you.confirmed => g.seq <= current[g.ref]
      <4>1. CASE v = w
        BY <1>1, <1>3, <1>9, <2>2, <2>8, <2>9, <4>1
      <4>2. CASE v # w
        <5>1. Active(v) /\ worker'[v] = worker[v]
          BY <2>2, <3>1, <4>2 DEF Active
        <5> QED
          BY <1>3, <1>6, <5>1 DEF ReceiverInv, WorkerInv
      <4> QED
        BY <4>1, <4>2
    <3>2. ASSUME NEW u \in Workers, NEW v \in Workers, Active(u)', Active(v)', u # v
          PROVE  worker'[u].frame.event # worker'[v].frame.event
      BY <1>6, <1>9, <2>2, <3>2 DEF ReceiverInv, WorkerInv, Active
    <3> QED
      BY <1>1, <2>1, <3>1, <3>2 DEF WorkerInv
  <2> QED
    BY <2>5, <2>6, <2>7, <2>10 DEF ReceiverInv
<1>10. CASE /\ Write(mem, log) /\ UNCHANGED told
            /\ worker' = [worker EXCEPT ![w] =
                 IF IsBehind(f)
                 THEN [pc |-> "stale", frame |-> f, verdict |-> "STALE_SUPERSEDED", confirmed |-> FALSE]
                 ELSE [pc |-> "resolving", frame |-> f, verdict |-> "NONE", confirmed |-> FALSE]]
  <2> DEFINE stale == [pc |-> "stale", frame |-> f, verdict |-> "STALE_SUPERSEDED", confirmed |-> FALSE]
             resolving == [pc |-> "resolving", frame |-> f, verdict |-> "NONE", confirmed |-> FALSE]
  <2>1. CASE IsBehind(f)
    <3>1. /\ stale.frame = f /\ stale.pc # "idle" /\ stale.confirmed = FALSE
          /\ stale.verdict \in Outcomes
      BY DEF Outcomes
    <3>2. worker' = [worker EXCEPT ![w] = stale]
      BY <1>10, <2>1
    <3> HIDE DEF stale
    <3> QED
      BY <1>9, <1>10, <2>1, <3>1, <3>2
  <2>2. CASE ~IsBehind(f)
    <3>1. /\ resolving.frame = f /\ resolving.pc # "idle" /\ resolving.confirmed = FALSE
          /\ resolving.pc = "resolving" /\ resolving.verdict # "STALE_SUPERSEDED"
      OBVIOUS
    <3>2. worker' = [worker EXCEPT ![w] = resolving]
      BY <1>10, <2>2
    <3> HIDE DEF resolving
    <3> QED
      BY <1>9, <1>10, <3>1, <3>2
  <2> QED
    BY <2>1, <2>2
<1> QED
  BY <1>8, <1>10 DEF Admit, mem, log

LEMMA ResolveKeeps ==
  ASSUME TypeOK, TypeOK', ReceiverInv, NEW w \in Workers, Resolve(w)
  PROVE  ReceiverInv'
<1> DEFINE f == worker[w].frame
<1>1. /\ UNCHANGED <<current, cursor, told, unsaved>> /\ Active(w) /\ worker[w].pc = "resolving"
      /\ read' = [read EXCEPT ![f] = @ + 1]
  BY DEF Resolve, worldVars, Active
<1>2. /\ f \in Frames /\ f.event \in Events /\ read[f] = 0
      /\ cursor.mem.claim[f.event] = f /\ cursor.mem.verdict[f.event] = "PENDING"
  BY <1>1, FrameFields DEF ReceiverInv, WorkerInv
<1>3. PICK verdict \in Outcomes, confirmed \in BOOLEAN :
        /\ worker' = [worker EXCEPT ![w].pc = "answered", ![w].verdict = verdict, ![w].confirmed = confirmed]
        /\ verdict = "STALE_SUPERSEDED" /\ Genuine(f) => f.seq < current[f.ref]
        /\ confirmed => f.seq <= current[f.ref]
  <2>1. CASE \E v \in {"HOLD_UNREADABLE", "HOLD_IDENTITY"} : Answered(w, v, FALSE)
    BY <2>1 DEF Answered, Outcomes, Refuted
  <2>2. CASE \E says \in OwnerSays(f) : Answered(w, Judged(f, says), Confirms(f, says))
    <3>1. PICK says \in OwnerSays(f) : Answered(w, Judged(f, says), Confirms(f, says))
      BY <2>2
    <3>2. says.relation = Relation(f) /\ says.seq \in {0, current[f.ref]}
      BY DEF OwnerSays
    <3>3. f.seq \in Nat \ {0} /\ f.rev \in Nat /\ current[f.ref] \in Nat
      BY <1>2, FrameFields DEF TypeOK, WorldTypeOK
    <3>4. Judged(f, says) \in Outcomes /\ Confirms(f, says) \in BOOLEAN
      BY DEF Judged, Confirms, Outcomes, Refuted
    <3>5. Judged(f, says) = "STALE_SUPERSEDED" /\ Genuine(f) => f.seq < current[f.ref]
      BY <3>2, <3>3 DEF Judged, Relation, Genuine
    <3>6. Confirms(f, says) => f.seq <= current[f.ref]
      BY <3>2, <3>3 DEF Confirms
    <3> QED
      BY <3>1, <3>4, <3>5, <3>6 DEF Answered
  <2> QED
    BY <2>1, <2>2 DEF Resolve
<1>4. /\ worker'[w].pc = "answered" /\ worker'[w].frame = f
      /\ worker'[w].verdict = verdict /\ worker'[w].confirmed = confirmed
      /\ \A v \in Workers : v # w => worker'[v] = worker[v]
  BY <1>3 DEF TypeOK, ReceiverTypeOK, WorkerStates
<1>5. \A g \in Frames : read'[g] = IF g = f THEN 1 ELSE read[g]
  BY <1>1, <1>2 DEF TypeOK, ReceiverTypeOK
<1>6. \A v \in Workers : Active(v)' => Active(v) /\ worker'[v].frame = worker[v].frame
  BY <1>1, <1>4 DEF Active
<1> HIDE DEF f
<1>7. CursorInv'
  <2>1. CursorStates' = CursorStates /\ CursorStates \subseteq Cursors
    BY <1>1, StatesTyped DEF CursorStates
  <2>2. \A g \in Frames : Busy(g)' => Busy(g)
    BY <1>1, <1>2, <1>5, <1>6 DEF Busy, f
  <2>3. \A r \in Refs : current[r] <= current'[r]
    BY <1>1 DEF TypeOK, WorldTypeOK
  <2>4. ASSUME NEW c \in CursorStates
        PROVE  Good(c)'
    <3>1. Good(c) /\ c \in Cursors
      BY <2>1, <2>4 DEF ReceiverInv, CursorInv
    <3> QED
      BY <1>1, <2>2, <2>3, <3>1, GoodAfter
  <2> QED
    BY <1>1, <2>1, <2>4 DEF ReceiverInv, CursorInv
<1>8. ReadInv'
  BY <1>1, <1>2, <1>5 DEF ReceiverInv, ReadInv
<1>9. TellInv'
  BY <1>1 DEF ReceiverInv, TellInv
<1>10. WorkerInv'
  <2>1. ASSUME NEW v \in Workers, Active(v), v # w
        PROVE  worker[v].frame \in Frames /\ worker[v].frame # f
    BY <1>1, <2>1 DEF ReceiverInv, WorkerInv, f
  <2>2. ASSUME NEW v \in Workers, Active(v)'
        PROVE  LET you == worker'[v]  g == you.frame IN
               /\ g \in Frames
               /\ cursor.mem.claim[g.event] = g /\ cursor.mem.verdict[g.event] = "PENDING"
               /\ you.pc = "resolving" => read'[g] = 0
               /\ you.pc # "resolving" => you.verdict \in Outcomes
               /\ you.verdict = "STALE_SUPERSEDED" /\ Genuine(g) => g.seq < current[g.ref]
               /\ you.confirmed => g.seq <= current[g.ref]
    <3>1. CASE v = w
      BY <1>2, <1>3, <1>4, <3>1
    <3>2. CASE v # w
      BY <1>4, <1>5, <1>6, <2>1, <2>2, <3>2 DEF ReceiverInv, WorkerInv
    <3> QED
      BY <3>1, <3>2
  <2>3. \A u, v \in Workers :
          Active(u)' /\ Active(v)' /\ u # v => worker'[u].frame.event # worker'[v].frame.event
    BY <1>6 DEF ReceiverInv, WorkerInv
  <2> QED
    BY <1>1, <2>2, <2>3 DEF WorkerInv
<1> QED
  BY <1>7, <1>8, <1>9, <1>10 DEF ReceiverInv

LEMMA CloseKeeps ==
  ASSUME TypeOK, TypeOK', ReceiverInv, NEW w \in Workers, Close(w)
  PROVE  ReceiverInv'
<1> DEFINE f == worker[w].frame
           e == f.event
           verdict == worker[w].verdict
           confirmed == worker[w].confirmed
           mem == Finalized(cursor.mem, e, verdict, confirmed)
           log == Finalized(cursor.log, e, verdict, confirmed)
<1>1. /\ UNCHANGED <<current, read>> /\ BestEffort(mem, log, e) /\ Tell(e)
      /\ Active(w) /\ worker[w].pc # "resolving"
      /\ worker' = [worker EXCEPT ![w] = Listening]
  BY DEF Close, Active
<1>2. /\ cursor.mem \in Cursors /\ cursor.log \in Cursors /\ CursorStates \subseteq Cursors
      /\ cursor.mem \in CursorStates /\ cursor.log \in CursorStates
      /\ Good(cursor.mem) /\ Good(cursor.log)
  BY StatesTyped DEF ReceiverInv, CursorInv
<1>3. /\ f \in Frames /\ e \in Events /\ f # NoFrame
      /\ verdict \in Outcomes /\ confirmed \in BOOLEAN
      /\ verdict = "STALE_SUPERSEDED" /\ Genuine(f) => f.seq < current[f.ref]
      /\ confirmed => f.seq <= current[f.ref]
  <2>1. f \in Frames /\ verdict \in Outcomes
    BY <1>1 DEF ReceiverInv, WorkerInv
  <2>2. confirmed \in BOOLEAN
    BY DEF TypeOK, ReceiverTypeOK, WorkerStates
  <2> QED
    BY <1>1, <2>1, <2>2, FrameFields DEF ReceiverInv, WorkerInv
<1>4. /\ cursor.mem.claim[e] = f /\ cursor.mem.verdict[e] = "PENDING"
      /\ cursor.log.claim[e] = f /\ cursor.log.verdict[e] = "PENDING"
  <2>1. cursor.mem.claim[e] = f /\ cursor.mem.verdict[e] = "PENDING"
    BY <1>1 DEF ReceiverInv, WorkerInv
  <2> QED
    BY <1>2, <1>3, <2>1 DEF ReceiverInv, CursorInv, Good, Knows
<1>c. ASSUME NEW c \in Cursors, c.claim[e] = f, NEW d, d = Finalized(c, e, verdict, confirmed)
      PROVE  /\ d.claim = c.claim /\ d.surfaced = c.surfaced
             /\ \A x \in Events : d.verdict[x] = IF x = e THEN verdict ELSE c.verdict[x]
             /\ \A s \in Scopes : d.idem[s] = c.idem[s] \/ (c.idem[s] = e /\ verdict \in Refuted)
             /\ \A r \in Refs : d.high[r] = c.high[r] \/ (r = f.ref /\ d.high[r] = f /\ confirmed)
  <2> HIDE DEF f, verdict, confirmed
  <2> QED
    BY <1>3, <1>c, ClosedFacts
<1> HIDE DEF f, e, verdict, confirmed
<1>5. /\ mem.claim = cursor.mem.claim /\ mem.surfaced = cursor.mem.surfaced
      /\ \A x \in Events : mem.verdict[x] = IF x = e THEN verdict ELSE cursor.mem.verdict[x]
      /\ \A s \in Scopes : \/ mem.idem[s] = cursor.mem.idem[s]
                           \/ cursor.mem.idem[s] = e /\ verdict \in Refuted
      /\ \A r \in Refs : \/ mem.high[r] = cursor.mem.high[r]
                         \/ r = f.ref /\ mem.high[r] = f /\ confirmed
  BY <1>2, <1>4, <1>c
<1>6. /\ log.claim = cursor.log.claim /\ log.surfaced = cursor.log.surfaced
      /\ \A x \in Events : log.verdict[x] = IF x = e THEN verdict ELSE cursor.log.verdict[x]
      /\ \A s \in Scopes : \/ log.idem[s] = cursor.log.idem[s]
                           \/ cursor.log.idem[s] = e /\ verdict \in Refuted
      /\ \A r \in Refs : \/ log.high[r] = cursor.log.high[r]
                         \/ r = f.ref /\ log.high[r] = f /\ confirmed
  BY <1>2, <1>4, <1>c
<1> HIDE DEF mem, log
<1>7. /\ cursor'.mem = mem /\ cursor'.log = log /\ unsaved \subseteq unsaved'
      /\ \A c \in CursorStates' : c = mem \/ c = log \/ (c \in CursorStates /\ e \in unsaved')
  BY <1>1, CursorStatesAfter
<1>8. /\ ~Active(w)' /\ \A v \in Workers : v # w => worker'[v] = worker[v]
      /\ \A v \in Workers : Active(v)' => v # w /\ Active(v) /\ worker'[v] = worker[v]
  BY <1>1 DEF Active, Listening, TypeOK, ReceiverTypeOK
<1>9. \A g \in Frames : Busy(g)' => Busy(g)
  BY <1>1, <1>8 DEF Busy
<1>10. ASSUME NEW c \in {cursor.mem, cursor.log}, NEW d,
              d.claim = c.claim, d.surfaced = c.surfaced,
              \A x \in Events : d.verdict[x] = IF x = e THEN verdict ELSE c.verdict[x],
              \A s \in Scopes : d.idem[s] = c.idem[s] \/ (c.idem[s] = e /\ verdict \in Refuted),
              \A r \in Refs : d.high[r] = c.high[r] \/ (r = f.ref /\ d.high[r] = f /\ confirmed)
       PROVE  Good(d)'
  <2>1. Good(c) /\ c.claim[e] = f /\ c.verdict[e] = "PENDING"
    BY <1>2, <1>4, <1>10
  <2>2. Plain(d)'
    BY <1>3, <1>10, <2>1 DEF Good, Plain
  <2>3. Knows(d)'
    BY <1>5, <1>7, <1>10, <2>1 DEF Good, Knows
  <2>4. HoldsScopes(d)'
    <3> SUFFICES ASSUME NEW g \in Frames, Busy(g)
                 PROVE  d.idem[g.scope] = g.event \/ d.verdict[g.event] \in Refuted
      BY <1>9 DEF HoldsScopes
    <3>1. g.scope \in Scopes /\ g.event \in Events
      BY FrameFields
    <3>2. c.idem[g.scope] = g.event \/ c.verdict[g.event] \in Refuted
      BY <2>1 DEF Good, HoldsScopes
    <3>3. c.verdict[g.event] \in Refuted => g.event # e
      BY <2>1 DEF Refuted
    <3> QED
      BY <1>10, <3>1, <3>2, <3>3
  <2>5. IsCurrent(d)'
    <3>1. \A r \in Refs : d.high[r] # NoFrame => d.high[r].seq <= current[r]
      BY <1>3, <1>10, <2>1 DEF Good, IsCurrent
    <3>2. ASSUME NEW x \in Events, d.verdict[x] = "STALE_SUPERSEDED", Genuine(d.claim[x])
          PROVE  d.claim[x].seq < current[d.claim[x].ref]
      <4>1. CASE x = e
        BY <1>3, <1>10, <2>1, <3>2, <4>1
      <4>2. CASE x # e
        BY <1>10, <2>1, <3>2, <4>2 DEF Good, IsCurrent
      <4> QED
        BY <4>1, <4>2
    <3> QED
      BY <1>1, <3>1, <3>2 DEF IsCurrent
  <2> QED
    BY <2>2, <2>3, <2>4, <2>5 DEF Good
<1>11. ASSUME NEW d \in CursorStates'
       PROVE  Good(d)'
  <2>1. CASE d = mem
    <3>1. PICK c \in {cursor.mem, cursor.log} : c = cursor.mem
      OBVIOUS
    <3> QED
      BY <1>5, <1>10, <2>1, <3>1
  <2>2. CASE d = log
    <3>1. PICK c \in {cursor.mem, cursor.log} : c = cursor.log
      OBVIOUS
    <3> QED
      BY <1>6, <1>10, <2>2, <3>1
  <2>3. CASE d \in CursorStates /\ e \in unsaved'
    <3>1. Good(d) /\ d \in Cursors
      BY <1>2, <2>3 DEF ReceiverInv, CursorInv
    <3>2. \A r \in Refs : current[r] <= current'[r]
      BY <1>1 DEF TypeOK, WorldTypeOK
    <3>3. \A x \in Events : x # e => cursor'.mem.verdict[x] = cursor.mem.verdict[x]
      BY <1>5, <1>7
    <3> QED
      BY <1>5, <1>7, <1>9, <2>3, <3>1, <3>2, <3>3, GoodAfter
  <2> QED
    BY <1>7, <2>1, <2>2, <2>3
<1>12. CursorInv'
  BY <1>5, <1>6, <1>7, <1>11 DEF CursorInv, ReceiverInv
<1>13. ReadInv'
  BY <1>1, <1>5, <1>7 DEF ReceiverInv, ReadInv
<1>14. TellInv'
  <2> SUFFICES ASSUME NEW x \in Events, x \notin unsaved'
               PROVE  /\ told'[x] <= 1
                      /\ told'[x] = 1 => \/ cursor'.mem.verdict[x] \in Outcomes
                                         \/ cursor'.mem.verdict[x] = "RECOVERED" /\ x \in cursor'.mem.surfaced
    BY DEF TellInv
  <2>1. x \notin unsaved
    BY <1>7
  <2>2. CASE x = e
    <3>1. told[e] = 0
      BY <1>4, <2>1, <2>2 DEF ReceiverInv, TellInv, Outcomes, Refuted, TypeOK, ReceiverTypeOK
    <3>2. told'[e] <= 1
      BY <1>1, <1>3, <3>1 DEF Tell, TypeOK, ReceiverTypeOK
    <3> QED
      BY <1>3, <1>5, <1>7, <2>2, <3>2
  <2>3. CASE x # e
    <3>1. told'[x] = told[x]
      BY <1>1, <2>3 DEF Tell, TypeOK, ReceiverTypeOK
    <3> QED
      BY <1>5, <1>7, <2>1, <2>3, <3>1 DEF ReceiverInv, TellInv
  <2> QED
    BY <2>2, <2>3
<1>15. WorkerInv'
  <2>1. ASSUME NEW v \in Workers, Active(v), v # w
        PROVE  worker[v].frame.event # e /\ worker[v].frame.event \in Events
    <3>1. worker[v].frame \in Frames
      BY <2>1 DEF ReceiverInv, WorkerInv
    <3> QED
      BY <1>1, <2>1, <3>1, FrameFields DEF ReceiverInv, WorkerInv, e, f
  <2> QED
    BY <1>1, <1>5, <1>7, <1>8, <2>1 DEF ReceiverInv, WorkerInv
<1> QED
  BY <1>12, <1>13, <1>14, <1>15 DEF ReceiverInv

LEMMA ReceiverRestartKeeps ==
  ASSUME TypeOK, ReceiverInv, ReceiverRestarts
  PROVE  ReceiverInv'
<1>1. PICK left \in cursor.disk : cursor' = Opened(Recovered(left))
  BY DEF ReceiverRestarts
<1>2. left \in Cursors /\ left \in CursorStates /\ Good(left)
  BY StatesTyped DEF ReceiverInv, CursorInv
<1>3. PICK d : d = Recovered(left)
  OBVIOUS
<1>4. /\ d.claim = left.claim /\ d.surfaced = left.surfaced /\ d.idem = left.idem /\ d.high = left.high
      /\ \A e \in Events : d.verdict[e] = IF left.verdict[e] = "PENDING" THEN "RECOVERED" ELSE left.verdict[e]
  BY <1>2, <1>3, RecoveredFacts
<1>5. cursor'.mem = d /\ cursor'.log = d /\ CursorStates' = {d}
  BY <1>1, <1>3 DEF Opened, CursorStates
<1>6. /\ UNCHANGED <<current, read, told, unsaved>> /\ \A w \in Workers : ~Active(w)'
  BY DEF ReceiverRestarts, Active, Listening
<1>7. \A g \in Frames : Busy(g)' => Busy(g)
  BY <1>6 DEF Busy
<1>8. Good(d)'
  <2>1. Plain(d)' /\ IsCurrent(d)'
    BY <1>2, <1>4, <1>6 DEF Good, Plain, IsCurrent
  <2>2. Knows(d)'
    BY <1>5 DEF Knows
  <2>3. HoldsScopes(d)'
    <3> SUFFICES ASSUME NEW g \in Frames, Busy(g)
                 PROVE  d.idem[g.scope] = g.event \/ d.verdict[g.event] \in Refuted
      BY <1>7 DEF HoldsScopes
    <3> QED
      BY <1>2, <1>4, FrameFields DEF Good, HoldsScopes, Refuted
  <2> QED
    BY <2>1, <2>2, <2>3 DEF Good
<1>9. CursorInv'
  BY <1>5, <1>8 DEF CursorInv
<1>10. ReadInv'
  <2>1. ASSUME NEW f \in Frames, read[f] > 0
        PROVE  d.claim[f.event] = f
    <3>1. cursor.mem.claim[f.event] = f /\ f.event \in Events /\ f # NoFrame
      BY <2>1, FrameFields DEF ReceiverInv, ReadInv
    <3> QED
      BY <1>2, <1>4, <3>1 DEF Good, Knows
  <2> QED
    BY <1>5, <1>6, <2>1 DEF ReceiverInv, ReadInv
<1>11. TellInv'
  <2>1. ASSUME NEW e \in Events \ unsaved
        PROVE  /\ d.verdict[e] = IF cursor.mem.verdict[e] = "PENDING" THEN "RECOVERED" ELSE cursor.mem.verdict[e]
               /\ e \in d.surfaced <=> e \in cursor.mem.surfaced
    BY <1>2, <1>4, <2>1 DEF Good, Knows
  <2> QED
    BY <1>5, <1>6, <2>1 DEF ReceiverInv, TellInv, Outcomes, Refuted
<1>12. WorkerInv'
  BY <1>6 DEF WorkerInv
<1> QED
  BY <1>9, <1>10, <1>11, <1>12 DEF ReceiverInv

-----------------------------------------------------------------------------
(* The invariant of the whole. *)

LEMMA CurrentOnlyRises ==
  ASSUME TypeOK, [Next]_vars
  PROVE  \A r \in Refs : current[r] <= current'[r]
<1> SUFFICES ASSUME NEW r \in Refs PROVE current[r] <= current'[r]
  OBVIOUS
<1>1. current[r] \in Nat /\ current \in [Refs -> Nat]
  BY DEF TypeOK, WorldTypeOK
<1>2. CASE \E q \in Refs : OwnerCommits(q)
  BY <1>1, <1>2 DEF OwnerCommits
<1>3. CASE UNCHANGED current
  BY <1>1, <1>3
<1>4. SenderNext => UNCHANGED current
  BY DEF SenderNext, Intend, Publish, Record, SenderRestarts
<1>5. ReceiverNext => UNCHANGED current
  BY DEF ReceiverNext, Receive, NoteConflict, Surface, Admit, Resolve, Close, ReceiverRestarts, worldVars
<1> QED
  BY <1>2, <1>3, <1>4, <1>5 DEF Next, vars, worldVars

LEMMA InvariantInit ==
  ASSUME Init
  PROVE  IInv
BY InitTyped, SenderInvInit, ReceiverInvInit DEF IInv

LEMMA InvariantStep ==
  ASSUME IInv, [Next]_vars
  PROVE  IInv'
<1>1. TypeOK /\ SenderInv /\ ReceiverInv
  BY DEF IInv
<1>2. \A r \in Refs : current[r] <= current'[r]
  BY <1>1, CurrentOnlyRises
<1>3. ASSUME NEW r \in Refs, OwnerCommits(r), UNCHANGED <<senderVars, receiverVars>>
      PROVE  IInv'
  <2>1. TypeOK'
    BY <1>1, <1>3, OwnerTyped
  <2>2. SenderInv'
    BY <1>1, <1>3, SenderUntouched DEF OwnerCommits
  <2>3. ReceiverInv'
    BY <1>1, <1>2, <1>3, <2>1, ReceiverUntouched
  <2> QED
    BY <2>1, <2>2, <2>3 DEF IInv
<1>4. CASE SenderNext /\ UNCHANGED receiverVars
  <2>1. TypeOK'
    BY <1>1, <1>4, SenderTyped
  <2>2. SenderInv'
    BY <1>1, <1>4, IntendKeeps, PublishKeeps, RecordKeeps, SenderRestartKeeps DEF SenderNext
  <2>3. ReceiverInv'
    BY <1>1, <1>2, <1>4, <2>1, ReceiverUntouched
  <2> QED
    BY <2>1, <2>2, <2>3 DEF IInv
<1>5. CASE ReceiverNext /\ UNCHANGED senderVars
  <2>1. TypeOK'
    BY <1>1, <1>5, ReceiverTyped
  <2>2. UNCHANGED wire
    BY <1>5 DEF ReceiverNext, Receive, NoteConflict, Surface, Admit, Resolve, Close, ReceiverRestarts, worldVars
  <2>3. SenderInv'
    BY <1>1, <1>5, <2>2, SenderUntouched
  <2>4. ReceiverInv'
    BY <1>1, <1>5, <2>1, NoteConflictKeeps, SurfaceKeeps, AdmitKeeps, ResolveKeeps, CloseKeeps,
       ReceiverRestartKeeps DEF ReceiverNext, Receive
  <2> QED
    BY <2>1, <2>3, <2>4 DEF IInv
<1>6. CASE UNCHANGED vars
  <2>1. TypeOK'
    BY <1>1, <1>6 DEF vars, worldVars, senderVars, receiverVars, TypeOK, WorldTypeOK, SenderTypeOK, ReceiverTypeOK
  <2>2. SenderInv'
    BY <1>1, <1>6, SenderUntouched DEF vars, worldVars
  <2>3. ReceiverInv'
    BY <1>1, <1>2, <1>6, <2>1, ReceiverUntouched DEF vars
  <2> QED
    BY <2>1, <2>2, <2>3 DEF IInv
<1> QED
  BY <1>3, <1>4, <1>5, <1>6 DEF Next

\* The inductive invariant: types, what the ledger promises about the wire, what every
\* state a crash may leave of the cursor knows (sender.py:27-127, cursor.py:21-124).
THEOREM RuntimeInvariant == Spec => []IInv
<1>1. Init => IInv
  BY InvariantInit
<1>2. IInv /\ [Next]_vars => IInv'
  BY InvariantStep
<1> QED
  BY <1>1, <1>2, PTL DEF Spec

\* Type correctness of the sender's ledger, the receiver's cursor and their threads.
THEOREM TypeCorrect == Spec => []TypeOK
BY RuntimeInvariant, PTL DEF IInv

\* An event is written to the transport at most once over restarts, failed writes and
\* concurrent calls of send (sender.py:105-122).
THEOREM SentOnce == Spec => []SentAtMostOnce
<1>1. IInv => SentAtMostOnce
  BY DEF IInv, SenderInv, WrittenInv, SentAtMostOnce
<1> QED
  BY <1>1, RuntimeInvariant, PTL

\* The ledger never claims more than happened, in memory or in the file
\* (sender.py:72-73, transport.py:42-51).
THEOREM LedgerTrue == Spec => []LedgerIsTrue
<1>1. IInv => LedgerIsTrue
  <2> SUFFICES ASSUME IInv, NEW e \in Events, NEW l \in LedgerStates
               PROVE  /\ l[e].state = "ACCEPTED" => l[e].of \in wire
                      /\ l[e].state = "NOT_SENT" => \A f \in wire : f.event # e
    BY DEF LedgerIsTrue, LedgerStates
  <2> QED
    BY DEF IInv, SenderInv, WrittenInv, AcceptedInv, Held
<1> QED
  BY <1>1, RuntimeInvariant, PTL

\* One owner read per event over every redelivery, thread, failed write and restart
\* (receiver.py:117-122).
THEOREM ReadOnceHolds == Spec => []ReadOnce
<1>1. IInv => ReadOnce
  BY FrameFields DEF IInv, TypeOK, ReceiverTypeOK, ReceiverInv, ReadInv, ReadOnce
<1> QED
  BY <1>1, RuntimeInvariant, PTL

\* One owner read per idempotency scope, unless the owner refuted the claim that held it
\* (cursor.py:62-63).
THEOREM ScopeRead == Spec => []ScopeReadOnce
<1>1. IInv => ScopeReadOnce
  <2> SUFFICES ASSUME IInv, NEW f \in Frames, NEW g \in Frames,
                      f.scope = g.scope, read[f] > 0, read[g] > 0, f # g,
                      cursor.mem.verdict[f.event] \notin Refuted,
                      cursor.mem.verdict[g.event] \notin Refuted
               PROVE  FALSE
    BY DEF ScopeReadOnce
  <2>1. cursor.mem.claim[f.event] = f /\ cursor.mem.claim[g.event] = g
    BY DEF IInv, ReceiverInv, ReadInv
  <2>2. Busy(f) /\ Busy(g) /\ Good(cursor.mem)
    BY StatesTyped DEF IInv, ReceiverInv, CursorInv, Busy
  <2>3. cursor.mem.idem[f.scope] = f.event /\ cursor.mem.idem[g.scope] = g.event
    BY <2>2 DEF Good, HoldsScopes
  <2> QED
    BY <2>1, <2>3
<1> QED
  BY <1>1, RuntimeInvariant, PTL

\* The owner's own announcement is judged stale only when the owner has moved on
\* (receiver.py:142-145, cursor.py:67).
THEOREM NotStale == Spec => []GenuineIsNotStale
<1>1. IInv => GenuineIsNotStale
  BY StatesTyped DEF IInv, ReceiverInv, CursorInv, Good, IsCurrent, GenuineIsNotStale
<1> QED
  BY <1>1, RuntimeInvariant, PTL

\* The sink hears of one outcome of an event, once, unless a cursor write for it had
\* failed (receiver.py:132-135, 231-244).
THEOREM ToldOnceHolds == Spec => []ToldOnce
<1>1. IInv => ToldOnce
  BY DEF IInv, ReceiverInv, TellInv, ToldOnce
<1> QED
  BY <1>1, RuntimeInvariant, PTL

LEMMA VerdictKept ==
  ASSUME IInv, [Next]_vars, NEW e \in Events, e \notin unsaved,
         cursor.mem.verdict[e] \in Outcomes \cup {"RECOVERED"}
  PROVE  cursor'.mem.verdict[e] = cursor.mem.verdict[e]
<1>1. /\ cursor.mem \in Cursors /\ cursor.mem.verdict[e] \notin {"NONE", "PENDING"}
      /\ Good(cursor.mem)
  BY StatesTyped DEF IInv, ReceiverInv, CursorInv, Outcomes, Refuted
<1>2. ASSUME NEW w \in Workers, NEW f \in Frames, NoteConflict(w, f)
      PROVE  cursor'.mem.verdict[e] = cursor.mem.verdict[e]
  BY <1>1, <1>2, ConflictedFacts, CursorStatesAfter DEF NoteConflict
<1>3. ASSUME NEW w \in Workers, NEW f \in Frames, Surface(w, f)
      PROVE  cursor'.mem.verdict[e] = cursor.mem.verdict[e]
  BY <1>1, <1>3, FrameFields, SurfacedFacts, CursorStatesAfter DEF Surface
<1>4. ASSUME NEW w \in Workers, NEW f \in Frames, Admit(w, f)
      PROVE  cursor'.mem.verdict[e] = cursor.mem.verdict[e]
  <2>1. e # f.event
    BY <1>1, <1>4 DEF Admit, IsNew, Seen, Good, Plain
  <2>2. cursor'.mem = cursor.mem \/ cursor'.mem = Claimed(cursor.mem, f)
    BY <1>4 DEF Admit, Write, WriteFails, Saved, Unsaved
  <2> QED
    BY <1>1, <2>1, <2>2, ClaimedFacts
<1>5. ASSUME NEW w \in Workers, Close(w)
      PROVE  cursor'.mem.verdict[e] = cursor.mem.verdict[e]
  <2> DEFINE f == worker[w].frame
  <2>1. /\ f \in Frames /\ f.event \in Events /\ f # NoFrame
        /\ worker[w].verdict \in Outcomes /\ worker[w].confirmed \in BOOLEAN
        /\ cursor.mem.claim[f.event] = f /\ cursor.mem.verdict[f.event] = "PENDING"
    <3>1. Active(w) /\ worker[w].pc # "resolving"
      BY <1>5 DEF Close, Active
    <3>2. worker[w].confirmed \in BOOLEAN
      BY DEF IInv, TypeOK, ReceiverTypeOK, WorkerStates
    <3> QED
      BY <3>1, <3>2, FrameFields DEF IInv, ReceiverInv, WorkerInv
  <2>2. cursor'.mem = Finalized(cursor.mem, f.event, worker[w].verdict, worker[w].confirmed)
    BY <1>5, CursorStatesAfter DEF Close
  <2>3. e # f.event
    BY <1>1, <2>1
  <2> QED
    BY <1>1, <2>1, <2>2, <2>3, FinalizedFacts
<1>6. CASE ReceiverRestarts
  <2>1. PICK left \in cursor.disk : cursor' = Opened(Recovered(left))
    BY <1>6 DEF ReceiverRestarts
  <2>2. left \in Cursors /\ Good(left)
    BY StatesTyped DEF IInv, ReceiverInv, CursorInv
  <2>3. left.verdict[e] = cursor.mem.verdict[e]
    BY <2>2 DEF Good, Knows
  <2> QED
    BY <1>1, <2>1, <2>2, <2>3, RecoveredFacts DEF Opened
<1>7. CASE UNCHANGED cursor
  BY <1>7
<1> QED
  BY <1>2, <1>3, <1>4, <1>5, <1>6, <1>7
     DEF Next, ReceiverNext, Receive, Resolve, vars, receiverVars

\* A verdict is never changed or forgotten, by a later frame or by a restart, unless a
\* cursor write for the event had failed (cursor.py:39-42, 76-86).
THEOREM VerdictRemembered == Spec => VerdictIsRemembered
<1>1. IInv /\ [Next]_vars =>
        [\A e \in Events \ unsaved :
           cursor.mem.verdict[e] \in Outcomes \cup {"RECOVERED"} =>
             cursor'.mem.verdict[e] = cursor.mem.verdict[e]]_<<worldVars, receiverVars>>
  BY VerdictKept
<1> QED
  BY <1>1, RuntimeInvariant, PTL DEF Spec, VerdictIsRemembered

-----------------------------------------------------------------------------
(* The sensing runtime keeps its promise: what that needs besides IInv.     *)

LEMMA WireOnlyGrows ==
  ASSUME [Next]_vars
  PROVE  wire \subseteq wire'
<1>1. CASE UNCHANGED wire
  BY <1>1
<1>2. ASSUME NEW s \in Senders, Publish(s) PROVE wire \subseteq wire'
  BY <1>2 DEF Publish
<1>3. ReceiverNext => UNCHANGED wire
  BY DEF ReceiverNext, Receive, NoteConflict, Surface, Admit, Resolve, Close, ReceiverRestarts, worldVars
<1> QED
  BY <1>1, <1>2, <1>3
     DEF Next, SenderNext, OwnerCommits, Intend, Record, SenderRestarts, vars, worldVars

LEMMA PromiseInvInit ==
  ASSUME Init
  PROVE  PromiseInv
<1>1. AnnounceInv /\ WarrantInv
  BY DEF Init, SenderInit, ReceiverInit, AnnounceInv, WarrantInv, Sending, Active, AtRest, Listening
<1>2. EntryInv
  BY DEF Init, SenderInit, EntryInv, LedgerStates, Opened, EmptyLedger
<1>3. CursorStates = {EmptyCursor} /\ cursor.mem = EmptyCursor
  BY DEF Init, ReceiverInit, Opened, CursorStates
<1>4. ArrivedInv /\ FadingInv
  BY <1>3 DEF ArrivedInv, FadingInv, EmptyCursor
<1> QED
  BY <1>1, <1>2, <1>4, InvariantInit DEF PromiseInv

\* A thread goes on with its frame, or takes up one that is committed.
LEMMA AnnounceStep ==
  ASSUME IInv, IInv', AnnounceInv, [Next]_vars
  PROVE  AnnounceInv'
<1> SUFFICES ASSUME NEW s \in Senders, Sending(s)'
             PROVE  Committed(sender[s].frame)'
  BY DEF AnnounceInv
<1>t. TypeOK /\ TypeOK'
  BY DEF IInv
<1>1. PICK f \in Own : f = sender'[s].frame
  BY DEF IInv, SenderInv, SendingInv
<1>2. /\ f.ref \in Refs /\ f.rev \in Nat
      /\ current[f.ref] \in Nat /\ current'[f.ref] \in Nat /\ current[f.ref] <= current'[f.ref]
  BY <1>t, WorldAssumption, FrameFields, CurrentOnlyRises DEF TypeOK, WorldTypeOK
<1>3. CASE Sending(s) /\ sender[s].frame = f
  BY <1>1, <1>2, <1>3 DEF AnnounceInv, Committed
<1>4. CASE Committed(f)
  BY <1>1, <1>2, <1>4 DEF Committed
<1>5. sender \in [Senders -> SenderStates]
  BY <1>t DEF TypeOK, SenderTypeOK
<1>6. ASSUME NEW t \in Senders, NEW g \in Own, Intend(t, g)
      PROVE  Committed(f) \/ (Sending(s) /\ sender[s].frame = f)
  BY <1>1, <1>5, <1>6 DEF Intend, Sending
<1>7. ASSUME NEW t \in Senders, Publish(t)
      PROVE  Sending(s) /\ sender[s].frame = f
  <2>1. PICK a \in Answers : sender' = [sender EXCEPT ![t].pc = "published", ![t].result = a.state]
    BY <1>7 DEF Publish
  <2>2. sender'[s].frame = sender[s].frame /\ (t # s => sender'[s] = sender[s])
    BY <1>5, <2>1 DEF SenderStates
  <2> QED
    BY <1>1, <1>7, <2>2 DEF Publish, Sending
<1>8. ASSUME NEW t \in Senders, Record(t)
      PROVE  Sending(s) /\ sender[s].frame = f
  BY <1>1, <1>5, <1>8 DEF Record, Sending, AtRest
<1>9. ~SenderRestarts
  BY DEF SenderRestarts, Sending, AtRest
<1>10. CASE UNCHANGED sender
  BY <1>1, <1>3, <1>10 DEF Sending
<1> QED
  BY <1>3, <1>4, <1>6, <1>7, <1>8, <1>9, <1>10 DEF Next, SenderNext, vars, senderVars

LEMMA EntryStep ==
  ASSUME IInv, EntryInv, [Next]_vars
  PROVE  EntryInv'
<1>t. TypeOK /\ LedgerStates \subseteq Ledgers /\ ledger.mem \in LedgerStates /\ ledger.log \in LedgerStates
  BY DEF IInv, TypeOK, SenderTypeOK, Stores, LedgerStates
<1>1. CASE UNCHANGED ledger
  BY <1>1 DEF EntryInv, LedgerStates
<1>2. ASSUME NEW s \in Senders, NEW f \in Own, Intend(s, f)
      PROVE  EntryInv'
  <2>1. f \in Frames
    BY WorldAssumption
  <2>2. \A l \in LedgerStates' :
          \/ l \in LedgerStates
          \/ \E k \in {ledger.mem, ledger.log} : l = Intended(k, f)
    BY <1>2 DEF Intend, Saved, Unsaved, LedgerStates
  <2>3. ASSUME NEW k \in LedgerStates, NEW e \in Events, Intended(k, f)[e].of # NoFrame
        PROVE  Intended(k, f)[e].of.event = e
    <3>1. Intended(k, f)[e] = IF e = f.event THEN [state |-> "INTENDED", of |-> f] ELSE k[e]
      BY <1>t, <2>1, IntendedFacts
    <3> QED
      BY <2>3, <3>1 DEF EntryInv
  <2> QED
    BY <1>t, <2>2, <2>3 DEF EntryInv
<1>3. ASSUME NEW s \in Senders, Record(s)
      PROVE  EntryInv'
  <2> DEFINE e == sender[s].frame.event
             result == sender[s].result
  <2>1. e \in Events /\ result \in Sendings
    <3>1. Sending(s) /\ sender[s].pc = "published"
      BY <1>3 DEF Record, Sending
    <3>2. sender[s].frame \in Own /\ result \in {"ACCEPTED", "UNKNOWN_SEND", "NOT_SENT"}
      BY <3>1 DEF IInv, SenderInv, SendingInv
    <3> QED
      BY <3>2, WorldAssumption, FrameFields DEF Sendings
  <2>2. \A l \in LedgerStates' :
          \/ l \in LedgerStates
          \/ \E k \in {ledger.mem, ledger.log} : l = Settled(k, e, result)
    BY <1>3 DEF Record, Saved, Unsaved, LedgerStates
  <2> HIDE DEF e, result
  <2>3. ASSUME NEW k \in LedgerStates, NEW x \in Events
        PROVE  Settled(k, e, result)[x].of = k[x].of
    <3>1. CASE k[e].state = "NONE"
      BY <3>1 DEF Settled
    <3>2. CASE k[e].state # "NONE"
      BY <1>t, <2>1, <3>2, SettledFacts
    <3> QED
      BY <3>1, <3>2
  <2> QED
    BY <1>t, <2>2, <2>3 DEF EntryInv
<1>4. ASSUME SenderRestarts
      PROVE  EntryInv'
  <2>1. PICK left \in ledger.disk : ledger' = Opened(Reconciled(left))
    BY <1>4 DEF SenderRestarts
  <2>2. left \in LedgerStates /\ LedgerStates' = {Reconciled(left)}
    BY <2>1 DEF LedgerStates, Opened
  <2>3. \A e \in Events : Reconciled(left)[e].of = left[e].of
    BY <1>t, <2>2, ReconciledFacts
  <2> QED
    BY <2>2, <2>3 DEF EntryInv
<1> QED
  BY <1>1, <1>2, <1>3, <1>4 DEF Next, SenderNext, Publish, vars, senderVars

\* Claims and verdicts stay as they are.
LEMMA QuietCursor ==
  ASSUME ArrivedInv, FadingInv, wire \subseteq wire',
         \A c \in CursorStates' : \E k \in CursorStates : c.claim = k.claim /\ c.verdict = k.verdict,
         cursor'.mem.verdict = cursor.mem.verdict
  PROVE  ArrivedInv' /\ FadingInv'
BY DEF ArrivedInv, FadingInv, Arrived

LEMMA AdmitArrives ==
  ASSUME TypeOK, ArrivedInv, FadingInv, wire \subseteq wire',
         NEW w \in Workers, NEW f \in Frames, Admit(w, f)
  PROVE  ArrivedInv' /\ FadingInv'
<1> DEFINE mem == Claimed(cursor.mem, f)
           log == Claimed(cursor.log, f)
<1>1. /\ cursor.mem \in Cursors /\ cursor.log \in Cursors /\ f.event \in Events
      /\ cursor.mem \in CursorStates /\ cursor.log \in CursorStates
  BY StatesTyped, FrameFields
<1>2. /\ \A e \in Events : mem.claim[e] = IF e = f.event THEN f ELSE cursor.mem.claim[e]
      /\ \A e \in Events : mem.verdict[e] = IF e = f.event THEN "PENDING" ELSE cursor.mem.verdict[e]
      /\ \A e \in Events : log.claim[e] = IF e = f.event THEN f ELSE cursor.log.claim[e]
      /\ \A e \in Events : log.verdict[e] = IF e = f.event THEN "PENDING" ELSE cursor.log.verdict[e]
  BY <1>1, ClaimedFacts
<1>3. Arrived(f)
  BY DEF Admit, Receives, Deliverable, Arrived
<1>4. \/ cursor' = Saved(mem, log)
      \/ cursor' = Unsaved(cursor, cursor.mem, log)
  BY DEF Admit, Write, WriteFails
<1> HIDE DEF mem, log
<1>5. \A c \in CursorStates' : c = mem \/ c = log \/ c \in CursorStates
  BY <1>1, <1>4 DEF Saved, Unsaved, CursorStates
<1>6. ArrivedInv'
  <2> SUFFICES ASSUME NEW c \in CursorStates', NEW e \in Events, c.claim[e] # NoFrame
               PROVE  c.claim[e].event = e /\ Arrived(c.claim[e])'
    BY DEF ArrivedInv
  <2>1. \/ c.claim[e] = f /\ e = f.event
        \/ \E k \in CursorStates : c.claim[e] = k.claim[e]
    BY <1>1, <1>2, <1>5
  <2> QED
    BY <1>3, <2>1 DEF ArrivedInv, Arrived
<1>7. CASE cursor' = Saved(mem, log)
  <2>1. cursor'.mem = mem /\ \A c \in CursorStates' : c = mem \/ c = log
    BY <1>7 DEF Saved, CursorStates
  <2> QED
    BY <1>1, <1>2, <1>6, <2>1 DEF FadingInv
<1>8. CASE cursor' = Unsaved(cursor, cursor.mem, log)
  <2>1. cursor'.mem = cursor.mem /\ \A c \in CursorStates' : c = log \/ c \in CursorStates
    BY <1>1, <1>8 DEF Unsaved, CursorStates
  <2> QED
    BY <1>1, <1>2, <1>6, <2>1 DEF FadingInv
<1> QED
  BY <1>4, <1>7, <1>8

\* What Close writes: the verdict of its thread, and nothing else about verdicts or claims.
LEMMA CloseVerdict ==
  ASSUME IInv, NEW w \in Workers, Close(w)
  PROVE  LET f == worker[w].frame  v == worker[w].verdict IN
         /\ Active(w) /\ f \in Frames /\ f.event \in Events /\ v \in Outcomes
         /\ worker[w].pc \in {"answered", "stale"}
         /\ cursor.mem.claim[f.event] = f /\ cursor.mem.verdict[f.event] = "PENDING"
         /\ cursor'.mem.claim = cursor.mem.claim /\ cursor'.log.claim = cursor.log.claim
         /\ \A e \in Events : cursor'.mem.verdict[e] = IF e = f.event THEN v ELSE cursor.mem.verdict[e]
         /\ \A e \in Events : cursor'.log.verdict[e] = IF e = f.event THEN v ELSE cursor.log.verdict[e]
         /\ \A c \in CursorStates' : c = cursor'.mem \/ c = cursor'.log \/ c \in CursorStates
<1> DEFINE f == worker[w].frame
           v == worker[w].verdict
           mem == Finalized(cursor.mem, f.event, v, worker[w].confirmed)
           log == Finalized(cursor.log, f.event, v, worker[w].confirmed)
<1>1. Active(w) /\ worker[w].pc \in {"answered", "stale"} /\ BestEffort(mem, log, f.event)
  BY DEF Close, Active
<1>2. /\ f \in Frames /\ v \in Outcomes
      /\ cursor.mem.claim[f.event] = f /\ cursor.mem.verdict[f.event] = "PENDING"
  BY <1>1 DEF IInv, ReceiverInv, WorkerInv
<1>3. f.event \in Events /\ f # NoFrame /\ worker[w].confirmed \in BOOLEAN
  BY <1>2, FrameFields DEF IInv, TypeOK, ReceiverTypeOK, WorkerStates
<1>4. /\ cursor.mem \in Cursors /\ cursor.log \in Cursors
      /\ cursor.log.claim[f.event] = f
  BY <1>2, <1>3, StatesTyped DEF IInv, ReceiverInv, CursorInv, Good, Knows
<1>5. /\ mem.claim = cursor.mem.claim /\ log.claim = cursor.log.claim
      /\ \A e \in Events : mem.verdict[e] = IF e = f.event THEN v ELSE cursor.mem.verdict[e]
      /\ \A e \in Events : log.verdict[e] = IF e = f.event THEN v ELSE cursor.log.verdict[e]
  <2>1. ASSUME NEW c \in Cursors, c.claim[f.event] = f
        PROVE  LET d == Finalized(c, f.event, v, worker[w].confirmed) IN
               /\ d.claim = c.claim
               /\ \A e \in Events : d.verdict[e] = IF e = f.event THEN v ELSE c.verdict[e]
    <3> HIDE DEF f, v
    <3> QED
      BY <1>2, <1>3, <2>1, ClosedFacts
  <2> QED
    BY <1>2, <1>4, <2>1
<1> HIDE DEF mem, log
<1>6. /\ cursor'.mem = mem /\ cursor'.log = log
      /\ \A c \in CursorStates' : c = mem \/ c = log \/ c \in CursorStates
  BY <1>1, CursorStatesAfter
<1> QED
  BY <1>1, <1>2, <1>3, <1>5, <1>6

LEMMA CloseArrives ==
  ASSUME IInv, ArrivedInv, FadingInv, NEW w \in Workers, Close(w)
  PROVE  ArrivedInv' /\ FadingInv'
<1> DEFINE f == worker[w].frame
<1>1. /\ cursor.mem \in CursorStates /\ cursor.log \in CursorStates /\ wire' = wire
  BY StatesTyped DEF IInv, Close
<1>2. /\ f.event \in Events /\ cursor.mem.verdict[f.event] = "PENDING"
      /\ \A c \in CursorStates' : \E k \in CursorStates :
           /\ c.claim = k.claim
           /\ c = k \/ \A e \in Events : c.verdict[e] =
                         IF e = f.event THEN cursor'.mem.verdict[f.event] ELSE k.verdict[e]
      /\ \A e \in Events : e # f.event => cursor'.mem.verdict[e] = cursor.mem.verdict[e]
  BY <1>1, CloseVerdict
<1> HIDE DEF f
<1>3. ArrivedInv'
  BY <1>1, <1>2 DEF ArrivedInv, Arrived
<1>4. FadingInv'
  <2> SUFFICES ASSUME NEW c \in CursorStates', NEW e \in Events
               PROVE  c.verdict[e] \in {"PENDING", cursor'.mem.verdict[e]}
    BY DEF FadingInv
  <2>1. PICK k \in CursorStates :
          c = k \/ \A x \in Events : c.verdict[x] =
                     IF x = f.event THEN cursor'.mem.verdict[f.event] ELSE k.verdict[x]
    BY <1>2
  <2>2. k.verdict[e] \in {"PENDING", cursor.mem.verdict[e]}
    BY DEF FadingInv
  <2>3. CASE e = f.event
    BY <1>2, <2>1, <2>2, <2>3
  <2>4. CASE e # f.event
    BY <1>2, <2>1, <2>2, <2>4
  <2> QED
    BY <2>3, <2>4
<1> QED
  BY <1>3, <1>4

LEMMA RestartArrives ==
  ASSUME IInv, ArrivedInv, ReceiverRestarts
  PROVE  ArrivedInv' /\ FadingInv'
<1>1. PICK left \in cursor.disk : cursor' = Opened(Recovered(left))
  BY DEF ReceiverRestarts
<1>2. left \in Cursors /\ left \in CursorStates /\ wire' = wire
  BY StatesTyped DEF IInv, ReceiverRestarts
<1>3. Recovered(left).claim = left.claim
  BY <1>2, RecoveredFacts
<1>4. CursorStates' = {Recovered(left)} /\ cursor'.mem = Recovered(left)
  BY <1>1 DEF Opened, CursorStates
<1> QED
  BY <1>2, <1>3, <1>4 DEF ArrivedInv, FadingInv, Arrived

\* Notes and surfaced marks say nothing of claims and verdicts.
LEMMA NotesAreQuiet ==
  ASSUME TypeOK, NEW w \in Workers, NEW f \in Frames, NoteConflict(w, f) \/ Surface(w, f)
  PROVE  /\ \A c \in CursorStates' : \E k \in CursorStates : c.claim = k.claim /\ c.verdict = k.verdict
         /\ cursor'.mem.verdict = cursor.mem.verdict
<1>1. /\ cursor.mem \in Cursors /\ cursor.log \in Cursors /\ f.event \in Events
      /\ cursor.mem \in CursorStates /\ cursor.log \in CursorStates
  BY StatesTyped, FrameFields
<1>2. ASSUME NEW mem, NEW log, BestEffort(mem, log, f.event),
             mem.claim = cursor.mem.claim, mem.verdict = cursor.mem.verdict,
             log.claim = cursor.log.claim, log.verdict = cursor.log.verdict
      PROVE  /\ \A c \in CursorStates' : \E k \in CursorStates : c.claim = k.claim /\ c.verdict = k.verdict
             /\ cursor'.mem.verdict = cursor.mem.verdict
  BY <1>1, <1>2, CursorStatesAfter
<1>3. CASE NoteConflict(w, f)
  BY <1>1, <1>2, <1>3, ConflictedFacts DEF NoteConflict
<1>4. CASE Surface(w, f)
  BY <1>1, <1>2, <1>4, SurfacedFacts DEF Surface
<1> QED
  BY <1>3, <1>4

LEMMA ArrivedStep ==
  ASSUME IInv, ArrivedInv, FadingInv, [Next]_vars
  PROVE  ArrivedInv' /\ FadingInv'
<1>1. TypeOK /\ wire \subseteq wire'
  BY WireOnlyGrows DEF IInv
<1>2. CASE UNCHANGED cursor
  BY <1>1, <1>2, QuietCursor DEF CursorStates
<1>3. ASSUME NEW w \in Workers, NEW f \in Frames, Receive(w, f)
      PROVE  ArrivedInv' /\ FadingInv'
  BY <1>1, <1>3, NotesAreQuiet, QuietCursor, AdmitArrives DEF Receive
<1>4. ASSUME NEW w \in Workers, Close(w)
      PROVE  ArrivedInv' /\ FadingInv'
  BY <1>4, CloseArrives
<1>5. CASE ReceiverRestarts
  BY <1>5, RestartArrives
<1> QED
  BY <1>2, <1>3, <1>4, <1>5 DEF Next, ReceiverNext, Resolve, vars, receiverVars

\* What the one owner read leaves: an answer that the owner's state warrants.
LEMMA ResolveWarrants ==
  ASSUME IInv, NEW w \in Workers, Resolve(w)
  PROVE  LET me == worker'[w]  f == worker[w].frame IN
         /\ Active(w) /\ f \in Frames /\ f.event \in Events /\ read[f] = 0
         /\ cursor.mem.claim[f.event] = f /\ cursor.mem.verdict[f.event] = "PENDING"
         /\ read' = [read EXCEPT ![f] = 1] /\ UNCHANGED current
         /\ me.pc = "answered" /\ me.frame = f
         /\ me.verdict = "ACK_READ" => f.sound /\ f.rev <= current[f.ref]
         /\ me.verdict = "CONFLICT_HOLD" => ~Genuine(f)
         /\ me.verdict = "STALE_SUPERSEDED" => f.rev < current[f.ref] \/ f.seq < current[f.ref]
         /\ \A v \in Workers : v # w => worker'[v] = worker[v]
<1> DEFINE f == worker[w].frame
<1>1. Active(w) /\ worker[w].pc = "resolving"
  BY DEF Resolve, Active
<1>2. /\ f \in Frames /\ read[f] = 0
      /\ cursor.mem.claim[f.event] = f /\ cursor.mem.verdict[f.event] = "PENDING"
  BY <1>1 DEF IInv, ReceiverInv, WorkerInv
<1>3. /\ f.event \in Events /\ f.rev \in Nat /\ f.seq \in Nat \ {0} /\ f.sound \in BOOLEAN
      /\ current[f.ref] \in Nat
  BY <1>2, FrameFields DEF IInv, TypeOK, WorldTypeOK
<1>4. read' = [read EXCEPT ![f] = 1] /\ UNCHANGED current
  BY <1>2 DEF Resolve, worldVars, IInv, TypeOK, ReceiverTypeOK
<1>5. PICK verdict, confirmed :
        /\ worker' = [worker EXCEPT ![w].pc = "answered", ![w].verdict = verdict, ![w].confirmed = confirmed]
        /\ verdict = "ACK_READ" => f.sound /\ f.rev <= current[f.ref]
        /\ verdict = "CONFLICT_HOLD" => ~Genuine(f)
        /\ verdict = "STALE_SUPERSEDED" => f.rev < current[f.ref] \/ f.seq < current[f.ref]
  <2>1. CASE \E v \in {"HOLD_UNREADABLE", "HOLD_IDENTITY"} : Answered(w, v, FALSE)
    BY <2>1 DEF Answered
  <2>2. CASE \E says \in OwnerSays(f) : Answered(w, Judged(f, says), Confirms(f, says))
    <3>1. PICK says \in OwnerSays(f) : Answered(w, Judged(f, says), Confirms(f, says))
      BY <2>2
    <3>2. says.relation = Relation(f) /\ says.seq \in {0, current[f.ref]}
      BY DEF OwnerSays
    <3>3. Judged(f, says) = "ACK_READ" => f.sound /\ f.rev <= current[f.ref]
      BY <1>3, <3>2 DEF Judged, Relation
    <3>4. Judged(f, says) = "CONFLICT_HOLD" => ~Genuine(f)
      BY <1>3, <3>2 DEF Judged, Relation, Genuine
    <3>5. Judged(f, says) = "STALE_SUPERSEDED" => f.rev < current[f.ref]
      BY <1>3, <3>2 DEF Judged, Relation
    <3> HIDE DEF f
    <3> QED
      BY <3>1, <3>3, <3>4, <3>5 DEF Answered
  <2> QED
    BY <2>1, <2>2 DEF Resolve
<1>6. /\ worker'[w].pc = "answered" /\ worker'[w].frame = f /\ worker'[w].verdict = verdict
      /\ \A v \in Workers : v # w => worker'[v] = worker[v]
  BY <1>5 DEF IInv, TypeOK, ReceiverTypeOK, WorkerStates
<1> QED
  BY <1>1, <1>2, <1>3, <1>4, <1>5, <1>6

LEMMA WarrantStep ==
  ASSUME IInv, IInv', WarrantInv, [Next]_vars
  PROVE  WarrantInv'
<1> SUFFICES ASSUME NEW w \in Workers, Active(w)'
             PROVE  LET me == worker'[w]  f == me.frame IN
                    /\ me.pc = "stale" => me.verdict = "STALE_SUPERSEDED"
                    /\ me.pc = "answered" => read'[f] = 1
                    /\ me.verdict = "ACK_READ" => f.sound /\ f.rev <= current'[f.ref]
                    /\ me.verdict = "CONFLICT_HOLD" => ~Genuine(f)
                    /\ me.verdict = "STALE_SUPERSEDED" => f.rev < current'[f.ref] \/ f.seq < current'[f.ref]
  BY DEF WarrantInv, Genuine
<1>t. TypeOK /\ TypeOK'
  BY DEF IInv
<1>w. worker \in [Workers -> WorkerStates]
  BY <1>t DEF TypeOK, ReceiverTypeOK
<1>1. PICK f \in Frames : f = worker'[w].frame
  BY DEF IInv, ReceiverInv, WorkerInv
<1>2. /\ f.ref \in Refs /\ f.rev \in Nat /\ f.seq \in Nat
      /\ current[f.ref] \in Nat /\ current'[f.ref] \in Nat /\ current[f.ref] <= current'[f.ref]
  BY <1>t, FrameFields, CurrentOnlyRises DEF TypeOK, WorldTypeOK
<1>3. CASE worker'[w] = worker[w] /\ (read[f] = 1 => read'[f] = 1)
  BY <1>1, <1>2, <1>3 DEF WarrantInv, Active
<1>4. CASE UNCHANGED <<worker, read>>
  BY <1>3, <1>4
<1>5. ASSUME NEW v \in Workers, NEW g \in Frames, NoteConflict(v, g) \/ Surface(v, g)
      PROVE  UNCHANGED <<worker, read>>
  BY <1>5 DEF NoteConflict, Surface
<1>6. ASSUME NEW v \in Workers, NEW g \in Frames, Admit(v, g), worker' # worker, v = w
      PROVE  /\ g = f /\ worker'[w].pc # "answered"
             /\ worker'[w].verdict \in {"NONE", "STALE_SUPERSEDED"}
             /\ worker'[w].verdict = "STALE_SUPERSEDED" => f.seq < current[f.ref]
             /\ worker'[w].pc = "stale" => worker'[w].verdict = "STALE_SUPERSEDED"
  <2>1. worker' = [worker EXCEPT ![w] =
             IF IsBehind(g)
             THEN [pc |-> "stale", frame |-> g, verdict |-> "STALE_SUPERSEDED", confirmed |-> FALSE]
             ELSE [pc |-> "resolving", frame |-> g, verdict |-> "NONE", confirmed |-> FALSE]]
    BY <1>6 DEF Admit
  <2>2. /\ g = f
        /\ \/ worker'[w].pc = "stale" /\ worker'[w].verdict = "STALE_SUPERSEDED" /\ IsBehind(g)
           \/ worker'[w].pc = "resolving" /\ worker'[w].verdict = "NONE"
    BY <1>1, <1>w, <2>1
  <2>3. IsBehind(g) => g.seq < current[g.ref]
    <3>1. Good(cursor.mem) /\ cursor.mem \in Cursors
      BY <1>t, StatesTyped DEF IInv, ReceiverInv, CursorInv
    <3>2. cursor.mem.high[g.ref] # NoFrame =>
            cursor.mem.high[g.ref].seq \in Nat /\ cursor.mem.high[g.ref].seq <= current[g.ref]
      BY <1>2, <2>2, <3>1, FrameFields DEF Good, IsCurrent, Cursors
    <3> QED
      BY <1>2, <2>2, <3>2 DEF IsBehind, High
  <2> QED
    BY <2>2, <2>3
<1>7. ASSUME NEW v \in Workers, NEW g \in Frames, Admit(v, g)
      PROVE  (worker'[w] = worker[w] /\ read' = read) \/ (v = w /\ worker' # worker)
  BY <1>7, <1>w DEF Admit
<1>8. ASSUME NEW v \in Workers, Close(v) \/ ReceiverRestarts
      PROVE  worker'[w] = worker[w] /\ read' = read
  BY <1>8, <1>w DEF Close, ReceiverRestarts, Active, Listening
<1>9. ASSUME NEW v \in Workers, Resolve(v), v # w
      PROVE  worker'[w] = worker[w] /\ (read[f] = 1 => read'[f] = 1)
  <2>1. worker'[w] = worker[w] /\ read' = [read EXCEPT ![worker[v].frame] = 1] /\ worker[v].frame \in Frames
    BY <1>9, ResolveWarrants
  <2> QED
    BY <2>1, <1>t DEF TypeOK, ReceiverTypeOK
<1>10. CASE Resolve(w)
  <2>1. worker[w].frame = f /\ read'[f] = 1
    BY <1>1, <1>10, <1>t, ResolveWarrants DEF TypeOK, ReceiverTypeOK
  <2> QED
    BY <1>1, <1>10, <2>1, ResolveWarrants
<1>11. CASE \E g \in Frames : Admit(w, g) /\ worker' # worker
  BY <1>1, <1>2, <1>6, <1>11
<1>12. SenderNext /\ UNCHANGED receiverVars => UNCHANGED <<worker, read>>
  BY DEF receiverVars
<1> QED
  BY <1>3, <1>4, <1>5, <1>7, <1>8, <1>9, <1>10, <1>11
     DEF Next, ReceiverNext, Receive, vars, receiverVars

\* The strengthening that the refinement needs: threads send what is committed, claims
\* are of arrived frames, and a verdict at hand is warranted (receiver.py:157-176).
THEOREM PromiseInvariant == Spec => []PromiseInv
<1>1. PromiseInv /\ [Next]_vars => PromiseInv'
  BY InvariantStep, AnnounceStep, EntryStep, ArrivedStep, WarrantStep DEF PromiseInv
<1> QED
  BY <1>1, PromiseInvInit, PTL DEF Spec

-----------------------------------------------------------------------------
(* The steps of the runtime are steps of the promise.                       *)

LEMMA OwnerIsPromised ==
  ASSUME NEW r \in Refs, OwnerCommits(r), UNCHANGED <<senderVars, receiverVars>>
  PROVE  Promise!OwnerCommits(r)
BY DEF OwnerCommits, senderVars, receiverVars, Reports, Judgements,
       Promise!OwnerCommits, Promise!senderSide, Promise!receiverSide

\* Whatever the ledger comes to say is so.
LEMMA ReportIsPromised ==
  ASSUME PromiseInv', UNCHANGED <<current, wire, written, receiverVars>>
  PROVE  Promise!Report
<1> DEFINE l == ledger'.mem
<1>1. l \in LedgerStates' /\ l \in Ledgers
  BY DEF PromiseInv, IInv, TypeOK, SenderTypeOK, Stores, LedgerStates
<1>2. Reports' = [e \in Events |-> ReportOf(l[e])]
  BY DEF Reports
<1> HIDE DEF l
<1>3. Reports' \in [Events -> {"open", "sent", "unsent"}]
  BY <1>2 DEF ReportOf
<1>4. \A e \in Events : Reports'[e] = ReportOf(l[e])
  BY <1>2
<1>5. ASSUME NEW e \in Events, l[e].state = "ACCEPTED" PROVE written[e] = 1
  <2>1. l[e].of \in wire /\ l[e].of # NoFrame
    BY <1>1, <1>5, WorldAssumption, FrameFields
       DEF PromiseInv, IInv, TypeOK, WorldTypeOK, SenderInv, AcceptedInv
  <2>2. l[e].of.event = e
    BY <1>1, <2>1 DEF PromiseInv, EntryInv
  <2> QED
    BY <2>1, <2>2 DEF PromiseInv, IInv, SenderInv, WrittenInv
<1>6. ASSUME NEW e \in Events, l[e].state = "NOT_SENT" PROVE written[e] = 0
  <2>1. written[e] \in Nat /\ written[e] <= 1
    BY DEF PromiseInv, IInv, TypeOK, SenderTypeOK, SenderInv, WrittenInv
  <2>2. written[e] # 1
    BY <1>1, <1>6 DEF PromiseInv, IInv, SenderInv, WrittenInv, Held
  <2> QED
    BY <2>1, <2>2
<1>7. \A e \in Events : /\ Reports'[e] = "sent" => written[e] = 1
                        /\ Reports'[e] = "unsent" => written[e] = 0
  BY <1>4, <1>5, <1>6 DEF ReportOf
<1> QED
  BY <1>3, <1>7 DEF Promise!Report, Promise!receiverSide, receiverVars, Judgements

LEMMA PublishIsPromised ==
  ASSUME PromiseInv, NEW s \in Senders, Publish(s), UNCHANGED receiverVars
  PROVE  (\E f \in Own : Promise!Send(f)) \/ UNCHANGED Promise!promiseVars
<1> DEFINE f == sender[s].frame
<1>1. PICK a \in Answers :
        /\ wire' = IF a.wrote THEN wire \cup {f} ELSE wire
        /\ written' = IF a.wrote THEN [written EXCEPT ![f.event] = @ + 1] ELSE written
  BY DEF Publish
<1>2. /\ Sending(s) /\ f \in Own /\ written[f.event] = 0
      /\ ledger.mem[f.event] = [state |-> "INTENDED", of |-> f]
      /\ Committed(f)
  BY DEF Publish, Sending, PromiseInv, IInv, SenderInv, SendingInv, LedgerStates, AnnounceInv
<1>3. f.event \in Events
  BY <1>2, WorldAssumption, FrameFields
<1>4. UNCHANGED <<current, Reports, Judgements, read, told, unsaved>>
  BY DEF Publish, receiverVars, Reports, Judgements
<1> HIDE DEF f
<1>5. Reports[f.event] = "open"
  BY <1>2, <1>3 DEF Reports, ReportOf
<1>6. CASE a.wrote
  <2>1. written' = [written EXCEPT ![f.event] = 1]
    BY <1>1, <1>2, <1>6
  <2> QED
    BY <1>1, <1>2, <1>4, <1>5, <1>6, <2>1 DEF Promise!Send, Promise!receiverSide, Committed
<1>7. CASE ~a.wrote
  BY <1>1, <1>4, <1>7 DEF Promise!promiseVars, Promise!senderSide, Promise!receiverSide
<1> QED
  BY <1>6, <1>7

\* A cursor write and a closure about an event, as the promise sees them.
LEMMA WriteIsKept ==
  ASSUME NEW mem, NEW log, NEW e, BestEffort(mem, log, e)
  PROVE  Promise!Kept(e)
BY DEF BestEffort, Write, WriteFails, Promise!Kept

LEMMA TellIsTold ==
  ASSUME NEW e, Tell(e), told[e] = 0 \/ e \in unsaved'
  PROVE  Promise!Told(e)
BY DEF Tell, Promise!Told

LEMMA JudgementsKept ==
  ASSUME cursor'.mem.verdict = cursor.mem.verdict
  PROVE  Judgements' = Judgements
BY DEF Judgements

LEMMA NoteIsPromised ==
  ASSUME PromiseInv, NEW w \in Workers, NEW f \in Frames, NoteConflict(w, f), UNCHANGED senderVars
  PROVE  Promise!Fail(f.event) \/ UNCHANGED Promise!promiseVars
<1>1. Judgements' = Judgements
  BY NotesAreQuiet, JudgementsKept DEF PromiseInv, IInv
<1>2. UNCHANGED <<current, wire, written, Reports, read, told>>
  BY DEF NoteConflict, senderVars, Reports
<1>3. unsaved' = unsaved \/ unsaved' = unsaved \cup {f.event}
  BY DEF NoteConflict, BestEffort, Write, WriteFails
<1> QED
  BY <1>1, <1>2, <1>3
     DEF Promise!Fail, Promise!Told, Promise!promiseVars, Promise!senderSide, Promise!receiverSide

LEMMA SurfaceIsPromised ==
  ASSUME PromiseInv, NEW w \in Workers, NEW f \in Frames, Surface(w, f), UNCHANGED senderVars
  PROVE  Promise!Surface(f.event)
<1>1. Judgements' = Judgements
  BY NotesAreQuiet, JudgementsKept DEF PromiseInv, IInv
<1>2. /\ f.event \in Events /\ cursor.mem.verdict[f.event] = "RECOVERED"
      /\ f.event \notin cursor.mem.surfaced
  BY FrameFields DEF Surface
<1>3. UNCHANGED <<current, wire, written, Reports, read>>
  BY DEF Surface, senderVars, Reports
<1>4. Promise!Kept(f.event) /\ unsaved \subseteq unsaved'
  BY WriteIsKept DEF Surface, BestEffort, Write, WriteFails
<1>5. told[f.event] = 0 \/ f.event \in unsaved
  <2>1. told[f.event] \in Nat
    BY <1>2 DEF PromiseInv, IInv, TypeOK, ReceiverTypeOK
  <2>2. f.event \notin unsaved => told[f.event] <= 1 /\ told[f.event] # 1
    BY <1>2 DEF PromiseInv, IInv, ReceiverInv, TellInv, Outcomes, Refuted
  <2> QED
    BY <2>1, <2>2
<1>6. Promise!Told(f.event)
  BY <1>4, <1>5, TellIsTold DEF Surface
<1>7. Judgements[f.event] = "RECOVERED"
  BY <1>2 DEF Judgements, VerdictOf
<1> QED
  BY <1>1, <1>3, <1>4, <1>6, <1>7 DEF Promise!Surface, Promise!senderSide

LEMMA AdmitIsPromised ==
  ASSUME PromiseInv, NEW w \in Workers, NEW f \in Frames, Admit(w, f), UNCHANGED senderVars
  PROVE  Promise!Fail(f.event) \/ UNCHANGED Promise!promiseVars
<1>1. UNCHANGED <<current, wire, written, Reports, read>>
  BY DEF Admit, senderVars, Reports
<1>2. cursor.mem \in Cursors /\ Plain(cursor.mem) /\ f.event \in Events
  BY StatesTyped, FrameFields DEF PromiseInv, IInv, ReceiverInv, CursorInv, Good
<1>3. CASE Write(Claimed(cursor.mem, f), Claimed(cursor.log, f)) /\ UNCHANGED told
  <2>1. cursor'.mem = Claimed(cursor.mem, f) /\ unsaved' = unsaved
    BY <1>3 DEF Write, Saved
  <2>2. cursor.mem.verdict[f.event] = "NONE"
    BY <1>2 DEF Admit, IsNew, Seen, Plain
  <2>3. \A e \in Events : VerdictOf(cursor'.mem.verdict[e]) = VerdictOf(cursor.mem.verdict[e])
    BY <1>2, <2>1, <2>2, ClaimedFacts DEF VerdictOf
  <2>4. Judgements' = Judgements
    BY <2>3 DEF Judgements
  <2> QED
    BY <1>1, <1>3, <2>1, <2>4 DEF Promise!promiseVars, Promise!senderSide, Promise!receiverSide
<1>4. CASE WriteFails(cursor.mem, Claimed(cursor.log, f), f.event) /\ Tell(f.event)
  <2>1. cursor'.mem = cursor.mem /\ unsaved' = unsaved \cup {f.event}
    BY <1>4 DEF WriteFails, Unsaved
  <2>2. Judgements' = Judgements
    BY <2>1, JudgementsKept
  <2>3. Promise!Told(f.event)
    BY <1>4, <2>1, TellIsTold
  <2> QED
    BY <1>1, <2>1, <2>2, <2>3 DEF Promise!Fail, Promise!senderSide
<1> QED
  BY <1>3, <1>4 DEF Admit

\* The claim of a thread has arrived.
LEMMA ActiveArrived ==
  ASSUME PromiseInv, NEW w \in Workers, Active(w)
  PROVE  Promise!Arrives(worker[w].frame)
<1>1. /\ worker[w].frame \in Frames
      /\ cursor.mem.claim[worker[w].frame.event] = worker[w].frame
  BY DEF PromiseInv, IInv, ReceiverInv, WorkerInv
<1>2. cursor.mem \in CursorStates
  BY DEF CursorStates
<1> QED
  BY <1>1, <1>2, FrameFields DEF PromiseInv, ArrivedInv, Arrived, Promise!Arrives

LEMMA ResolveIsPromised ==
  ASSUME PromiseInv, NEW w \in Workers, Resolve(w), UNCHANGED senderVars
  PROVE  Promise!Read(worker[w].frame)
<1>0. PICK f : f = worker[w].frame
  OBVIOUS
<1>1. /\ Active(w) /\ f \in Frames /\ f.event \in Events
      /\ cursor.mem.claim[f.event] = f /\ cursor.mem.verdict[f.event] = "PENDING"
      /\ read[f] = 0 /\ read' = [read EXCEPT ![f] = 1]
  BY <1>0, ResolveWarrants DEF PromiseInv
<1>2. UNCHANGED <<current, wire, written, Reports, Judgements, told, unsaved>>
  BY DEF Resolve, worldVars, senderVars, Reports, Judgements
<1>3. Promise!Arrives(f)
  BY <1>0, <1>1, ActiveArrived
<1>4. Judgements[f.event] = "none"
  BY <1>1 DEF Judgements, VerdictOf
<1>5. ASSUME NEW g \in Frames, read[g] > 0
      PROVE  g.event # f.event /\ (g.scope = f.scope => Judgements[g.event] \in Promise!Refuted)
  <2>1. cursor.mem.claim[g.event] = g /\ g.event \in Events /\ g # f
    BY <1>1, <1>5, FrameFields DEF PromiseInv, IInv, ReceiverInv, ReadInv
  <2>2. g.event # f.event
    BY <1>1, <2>1
  <2>3. ASSUME g.scope = f.scope PROVE cursor.mem.verdict[g.event] \in Refuted
    <3>1. Busy(f) /\ Busy(g) /\ HoldsScopes(cursor.mem)
      BY <1>0, <1>1, <1>5, StatesTyped DEF Busy, PromiseInv, IInv, ReceiverInv, CursorInv, Good
    <3>2. cursor.mem.idem[f.scope] = f.event
      BY <1>1, <3>1 DEF HoldsScopes, Refuted
    <3> QED
      BY <2>2, <2>3, <3>1, <3>2 DEF HoldsScopes
  <2> QED
    BY <2>1, <2>2, <2>3 DEF Judgements, VerdictOf, Refuted, Promise!Refuted
<1> QED
  BY <1>0, <1>1, <1>2, <1>3, <1>4, <1>5 DEF Promise!Read, Promise!senderSide

LEMMA CloseIsPromised ==
  ASSUME PromiseInv, NEW w \in Workers, Close(w), UNCHANGED senderVars
  PROVE  Promise!Judge(worker[w].frame, worker[w].verdict)
<1>0. PICK f, v : f = worker[w].frame /\ v = worker[w].verdict
  OBVIOUS
<1>1. /\ Active(w) /\ f \in Frames /\ f.event \in Events /\ v \in Outcomes
      /\ worker[w].pc \in {"answered", "stale"}
      /\ cursor.mem.verdict[f.event] = "PENDING"
      /\ \A e \in Events : cursor'.mem.verdict[e] = IF e = f.event THEN v ELSE cursor.mem.verdict[e]
  BY <1>0, CloseVerdict DEF PromiseInv
<1>2. UNCHANGED <<current, wire, written, Reports, read>>
  BY DEF Close, senderVars, Reports
<1>3. Promise!Arrives(f)
  BY <1>0, <1>1, ActiveArrived
<1>4. Judgements[f.event] = "none"
  BY <1>1 DEF Judgements, VerdictOf
<1>5. Judgements' = [Judgements EXCEPT ![f.event] = v]
  BY <1>1 DEF Judgements, VerdictOf, Outcomes, Refuted
<1>6. Promise!Warranted(f, v)
  BY <1>0, <1>1 DEF PromiseInv, WarrantInv, Promise!Warranted, Promise!Genuine, Genuine
<1>7. Promise!Kept(f.event) /\ unsaved \subseteq unsaved'
  BY <1>0, WriteIsKept DEF Close, BestEffort, Write, WriteFails
<1>8. told[f.event] = 0 \/ f.event \in unsaved
  <2>1. told[f.event] \in Nat
    BY <1>1 DEF PromiseInv, IInv, TypeOK, ReceiverTypeOK
  <2>2. f.event \notin unsaved => told[f.event] <= 1 /\ told[f.event] # 1
    BY <1>1 DEF PromiseInv, IInv, ReceiverInv, TellInv, Outcomes, Refuted
  <2> QED
    BY <2>1, <2>2
<1>9. Promise!Told(f.event)
  BY <1>0, <1>7, <1>8, TellIsTold DEF Close
<1> QED
  BY <1>0, <1>2, <1>3, <1>4, <1>5, <1>6, <1>7, <1>9 DEF Promise!Judge, Promise!senderSide

LEMMA RestartIsPromised ==
  ASSUME PromiseInv, ReceiverRestarts, UNCHANGED senderVars
  PROVE  \E E \in SUBSET Events : Promise!Recover(E)
<1>1. PICK left \in cursor.disk : cursor' = Opened(Recovered(left))
  BY DEF ReceiverRestarts
<1>2. left \in Cursors /\ left \in CursorStates /\ Good(left)
  BY StatesTyped DEF PromiseInv, IInv, ReceiverInv, CursorInv
<1> DEFINE E == {e \in Events : left.verdict[e] = "PENDING"}
<1>3. \A e \in Events : cursor'.mem.verdict[e] =
        IF e \in E THEN "RECOVERED" ELSE cursor.mem.verdict[e]
  <2>1. \A e \in Events : left.verdict[e] \in {"PENDING", cursor.mem.verdict[e]}
    BY <1>2 DEF PromiseInv, FadingInv
  <2>2. cursor'.mem = Recovered(left)
    BY <1>1 DEF Opened
  <2> QED
    BY <1>2, <2>1, <2>2, RecoveredFacts
<1>4. \A e \in E : /\ Judgements[e] = "none" \/ e \in unsaved
                   /\ \E f \in Frames : f.event = e /\ Promise!Arrives(f)
  <2> SUFFICES ASSUME NEW e \in E
               PROVE  /\ Judgements[e] = "none" \/ e \in unsaved
                      /\ \E f \in Frames : f.event = e /\ Promise!Arrives(f)
    OBVIOUS
  <2>1. e \in Events /\ left.verdict[e] = "PENDING"
    OBVIOUS
  <2>2. left.claim[e] # NoFrame /\ left.claim[e] \in Frames
    BY <1>2, <2>1 DEF Good, Plain, Cursors
  <2>3. left.claim[e].event = e /\ Promise!Arrives(left.claim[e])
    BY <1>2, <2>1, <2>2 DEF PromiseInv, ArrivedInv, Arrived, Promise!Arrives
  <2>4. e \notin unsaved => cursor.mem.verdict[e] = "PENDING"
    BY <1>2, <2>1 DEF Good, Knows
  <2> QED
    BY <2>1, <2>2, <2>3, <2>4 DEF Judgements, VerdictOf
<1>5. Judgements' = [e \in Events |-> IF e \in E THEN "RECOVERED" ELSE Judgements[e]]
  BY <1>3 DEF Judgements, VerdictOf
<1>6. UNCHANGED <<current, wire, written, Reports, read, told, unsaved>>
  BY DEF ReceiverRestarts, senderVars, Reports
<1>7. E \in SUBSET Events
  OBVIOUS
<1> HIDE DEF E
<1> QED
  BY <1>4, <1>5, <1>6, <1>7 DEF Promise!Recover, Promise!senderSide

LEMMA StepIsPromised ==
  ASSUME PromiseInv, PromiseInv', [Next]_vars
  PROVE  [Promise!Next]_(Promise!promiseVars)
<1>1. ASSUME NEW r \in Refs, OwnerCommits(r), UNCHANGED <<senderVars, receiverVars>>
      PROVE  Promise!Next
  BY <1>1, OwnerIsPromised DEF Promise!Next
<1>2. ASSUME NEW s \in Senders, NEW f \in Own, Intend(s, f), UNCHANGED receiverVars
      PROVE  Promise!Next
  BY <1>2, ReportIsPromised DEF Promise!Next, Intend
<1>3. ASSUME NEW s \in Senders, Publish(s), UNCHANGED receiverVars
      PROVE  [Promise!Next]_(Promise!promiseVars)
  BY <1>3, PublishIsPromised DEF Promise!Next
<1>4. ASSUME NEW s \in Senders, Record(s), UNCHANGED receiverVars
      PROVE  Promise!Next
  BY <1>4, ReportIsPromised DEF Promise!Next, Record
<1>5. ASSUME SenderRestarts, UNCHANGED receiverVars
      PROVE  Promise!Next
  BY <1>5, ReportIsPromised DEF Promise!Next, SenderRestarts
<1>6. ASSUME NEW w \in Workers, NEW f \in Frames, Receive(w, f), UNCHANGED senderVars
      PROVE  [Promise!Next]_(Promise!promiseVars)
  <2>1. f.event \in Events
    BY FrameFields
  <2> QED
    BY <1>6, <2>1, NoteIsPromised, SurfaceIsPromised, AdmitIsPromised DEF Receive, Promise!Next
<1>7. ASSUME NEW w \in Workers, Resolve(w), UNCHANGED senderVars
      PROVE  Promise!Next
  <2>1. worker[w].frame \in Frames
    BY <1>7, ResolveWarrants DEF PromiseInv
  <2> QED
    BY <1>7, <2>1, ResolveIsPromised DEF Promise!Next
<1>8. ASSUME NEW w \in Workers, Close(w), UNCHANGED senderVars
      PROVE  Promise!Next
  <2>1. worker[w].frame \in Frames /\ worker[w].verdict \in Promise!Outcomes
    BY <1>8, CloseVerdict DEF PromiseInv, Outcomes, Refuted, Promise!Outcomes, Promise!Refuted
  <2> QED
    BY <1>8, <2>1, CloseIsPromised DEF Promise!Next
<1>9. ASSUME ReceiverRestarts, UNCHANGED senderVars
      PROVE  Promise!Next
  BY <1>9, RestartIsPromised DEF Promise!Next
<1>10. CASE UNCHANGED vars
  BY <1>10 DEF vars, worldVars, senderVars, receiverVars, Reports, Judgements,
              Promise!promiseVars, Promise!senderSide, Promise!receiverSide
<1> QED
  BY <1>1, <1>2, <1>3, <1>4, <1>5, <1>6, <1>7, <1>8, <1>9, <1>10 DEF Next, SenderNext, ReceiverNext

\* Whatever threads, failed writes, restarts and frames lie behind it, owner and sink see
\* one send, one read, and one warranted verdict of an event (send, on_frame, _terminal).
THEOREM RuntimeKeepsPromise == Spec => KeepsPromise
<1>1. Init => Promise!Init
  BY DEF Init, WorldInit, SenderInit, ReceiverInit, Opened, EmptyLedger, EmptyCursor,
         Reports, ReportOf, Judgements, VerdictOf, Promise!Init
<1>2. PromiseInv /\ PromiseInv' /\ [Next]_vars => [Promise!Next]_(Promise!promiseVars)
  BY StepIsPromised
<1> QED
  BY <1>1, <1>2, PromiseInvariant, PTL DEF Spec, KeepsPromise, Promise!Spec
=============================================================================
