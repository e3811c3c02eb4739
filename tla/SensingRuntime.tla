--------------------------- MODULE SensingRuntime ---------------------------
(***************************************************************************)
(* The sensing runtime: the owner commits, the sender announces, the       *)
(* transport carries, the receiver senses, and each process may restart.   *)
(***************************************************************************)
EXTENDS SensingSender, SensingReceiver

vars == <<worldVars, senderVars, receiverVars>>

TypeOK == WorldTypeOK /\ SenderTypeOK /\ ReceiverTypeOK

Init == WorldInit /\ SenderInit /\ ReceiverInit

Next ==
  \/ \E r \in Refs : OwnerCommits(r) /\ UNCHANGED <<senderVars, receiverVars>>
  \/ SenderNext /\ UNCHANGED receiverVars
  \/ ReceiverNext /\ UNCHANGED senderVars

Spec == Init /\ [][Next]_vars

\* The resolver has its own deadline, so a read ends; a thread that holds or waits for
\* the lock goes on.  Nothing is assumed of the owner, the transport or the sender.
FairSpec ==
  Spec /\ \A w \in Workers : WF_vars((Resolve(w) \/ Close(w)) /\ UNCHANGED senderVars)

\* The inductive invariant of the whole.
IInv == TypeOK /\ SenderInv /\ ReceiverInv
-----------------------------------------------------------------------------
(* What the promise needs besides.                                          *)

\* A thread sends what the owner has committed.
AnnounceInv == \A s \in Senders : Sending(s) => Committed(sender[s].frame)

\* An entry of the ledger is about a frame of its event.
EntryInv == \A e \in Events : \A l \in LedgerStates :
  l[e].of # NoFrame => l[e].of.event = e

\* What is claimed, in any state a crash may leave, has arrived.
Arrived(f) == f \in Own => f \in wire
ArrivedInv == \A c \in CursorStates : \A e \in Events :
  LET f == c.claim[e] IN f # NoFrame => f.event = e /\ Arrived(f)

\* A crash can make a verdict an open claim again, never another verdict.
FadingInv == \A c \in CursorStates : \A e \in Events :
  c.verdict[e] \in {"PENDING", cursor.mem.verdict[e]}

\* A thread has a verdict that the owner's state warrants, after the read it made.
WarrantInv == \A w \in Workers : Active(w) =>
  LET me == worker[w]  f == me.frame IN
  /\ me.pc = "stale" => me.verdict = "STALE_SUPERSEDED"
  /\ me.pc = "answered" => read[f] = 1
  /\ me.verdict = "ACK_READ" => f.sound /\ f.rev <= current[f.ref]
  /\ me.verdict = "CONFLICT_HOLD" => ~Genuine(f)
  /\ me.verdict = "STALE_SUPERSEDED" => f.rev < current[f.ref] \/ f.seq < current[f.ref]

PromiseInv == IInv /\ AnnounceInv /\ EntryInv /\ ArrivedInv /\ FadingInv /\ WarrantInv
-----------------------------------------------------------------------------
ReportOf(l) ==
  CASE l.state = "ACCEPTED" -> "sent"
    [] l.state = "NOT_SENT" -> "unsent"
    [] OTHER -> "open"

VerdictOf(v) == IF v \in {"NONE", "PENDING"} THEN "none" ELSE v

Reports == [e \in Events |-> ReportOf(ledger.mem[e])]
Judgements == [e \in Events |-> VerdictOf(cursor.mem.verdict[e])]

Promise == INSTANCE SensingPromise WITH
  sent <- written, reported <- Reports, verdict <- Judgements, lost <- unsaved

\* Every step of threads, failures and restarts on both sides is a step of the promise or
\* one that neither owner nor sink can tell (send, on_frame, _terminal, the two stores).
KeepsPromise == Promise!Spec
=============================================================================
