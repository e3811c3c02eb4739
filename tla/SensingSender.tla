---------------------------- MODULE SensingSender ----------------------------
(***************************************************************************)
(* SensingSender: owner event -> frame -> transport, with the write-ahead  *)
(* send ledger that makes an unknown send final.  Threads of one process   *)
(* send; the lock covers the check with the intent, and the outcome, never *)
(* the publish between them.                                               *)
(***************************************************************************)
EXTENDS SensingWorld

CONSTANT Senders   \* threads that call send

VARIABLES
  ledger,   \* the store of the ledger
  sender,   \* [Senders -> what the thread is doing]
  written   \* history: [Events -> publish calls that may have reached the wire]

senderVars == <<ledger, sender, written>>

AtRest == [pc |-> "idle", frame |-> NoFrame, result |-> "NONE"]
SenderStates == [pc : {"idle", "intended", "published"}, frame : Frames \cup {NoFrame},
                 result : Sendings]

SenderTypeOK ==
  /\ ledger \in Stores(Ledgers)
  /\ sender \in [Senders -> SenderStates]
  /\ written \in [Events -> Nat]

SenderInit ==
  /\ ledger = Opened(EmptyLedger)
  /\ sender = [s \in Senders |-> AtRest]
  /\ written = [e \in Events |-> 0]

\* _inflight
InFlight(e) == \E s \in Senders : sender[s].pc # "idle" /\ sender[s].frame.event = e

\* accept_owner_event: the source reports commit and readback.
Committed(f) == f.rev <= current[f.ref]

\* Not sent before, or proven not sent with the same content and nobody sending it now.
MaySend(f) ==
  LET prior == ledger.mem[f.event] IN
  \/ prior.state = "NONE"
  \/ prior.state = "NOT_SENT" /\ prior.of.print = f.print /\ ~InFlight(f.event)

\* send up to the publish call; a failed intent raises and nothing is published.
\* Every refusal of a replay leaves the state alone.
Intend(s, f) ==
  /\ sender[s].pc = "idle" /\ f \in Own \cap world
  /\ Committed(f) /\ MaySend(f)
  /\ \/ /\ NoFault
        /\ ledger' = Saved(Intended(ledger.mem, f), Intended(ledger.log, f))
        /\ sender' = [sender EXCEPT ![s] = [pc |-> "intended", frame |-> f, result |-> "NONE"]]
     \/ /\ Fault
        /\ ledger' = Unsaved(ledger, ledger.mem, Intended(ledger.log, f))
        /\ UNCHANGED sender
  /\ UNCHANGED <<world, current, wire, crashes, written>>

\* What a transport may answer, with what may be on the wire then.
Answers ==
  { a \in [state : {"ACCEPTED", "UNKNOWN_SEND", "NOT_SENT"}, wrote : BOOLEAN] :
      (a.state = "ACCEPTED" => a.wrote) /\ (a.state = "NOT_SENT" => ~a.wrote) }

Publish(s) ==
  /\ sender[s].pc = "intended"
  /\ \E a \in Answers :
       /\ sender' = [sender EXCEPT ![s].pc = "published", ![s].result = a.state]
       /\ wire' = IF a.wrote THEN wire \cup {sender[s].frame} ELSE wire
       /\ written' = IF a.wrote THEN [written EXCEPT ![sender[s].frame.event] = @ + 1] ELSE written
  /\ UNCHANGED <<world, current, faults, crashes, ledger>>

\* The outcome; a failed write raises out of send and the intent stays open.
Record(s) ==
  LET e == sender[s].frame.event  result == sender[s].result IN
  /\ sender[s].pc = "published"
  /\ sender' = [sender EXCEPT ![s] = AtRest]
  /\ \/ /\ NoFault
        /\ ledger' = Saved(Settled(ledger.mem, e, result), Settled(ledger.log, e, result))
     \/ /\ Fault
        /\ ledger' = Unsaved(ledger, ledger.mem, Settled(ledger.log, e, result))
  /\ UNCHANGED <<world, current, wire, crashes, written>>

\* The process dies at any point and SendLedger is built again on what is left.  An
\* outcome that cannot be written stops the construction: the process is not up yet.
SenderRestarts ==
  /\ crashes < MaxCrashes /\ crashes' = crashes + 1
  /\ \E left \in ledger.disk : ledger' = Opened(Reconciled(left))
  /\ sender' = [s \in Senders |-> AtRest]
  /\ UNCHANGED <<world, current, wire, faults, written>>

SenderNext ==
  \/ \E s \in Senders : (\E f \in Own : Intend(s, f)) \/ Publish(s) \/ Record(s)
  \/ SenderRestarts

-----------------------------------------------------------------------------
\* An event reaches the wire at most once over every restart, failed write and
\* concurrent call: sender.py:105-122 writes the intent before the publish call
\* and treats an intent without an outcome as sent.
SentAtMostOnce == \A e \in Events : written[e] <= 1

\* The ledger never claims more than happened: in memory, in the file and in every
\* state a crash may leave, an accepted event is on the wire and one that was
\* proven not sent is not (sender.py:72-73, transport.py:42-51).
LedgerIsTrue ==
  \A e \in Events : \A l \in {ledger.mem, ledger.log} \cup ledger.disk :
    /\ l[e].state = "ACCEPTED" => l[e].of \in wire
    /\ l[e].state = "NOT_SENT" => \A f \in wire : f.event # e
-----------------------------------------------------------------------------
(* The inductive invariant behind both. *)

LedgerStates == {ledger.mem, ledger.log} \cup ledger.disk

\* States in which an event is not sent again.
Held == {"INTENDED", "ACCEPTED", "UNKNOWN_SEND"}

Sending(s) == sender[s].pc # "idle"

WrittenInv ==
  /\ \A e \in Events : written[e] <= 1
  /\ \A e \in Events : written[e] = 1 => \A l \in LedgerStates : l[e].state \in Held
  /\ \A f \in wire : written[f.event] = 1

AcceptedInv ==
  \A e \in Events : \A l \in LedgerStates : l[e].state = "ACCEPTED" => l[e].of \in wire

SendingInv ==
  /\ \A s \in Senders : Sending(s) =>
       LET f == sender[s].frame IN
       /\ f \in Own
       /\ \A l \in LedgerStates : l[f.event] = [state |-> "INTENDED", of |-> f]
       /\ sender[s].pc = "intended" \/ sender[s].result = "NOT_SENT" => written[f.event] = 0
       /\ sender[s].pc = "published" => sender[s].result \in {"ACCEPTED", "UNKNOWN_SEND", "NOT_SENT"}
       /\ sender[s].result = "ACCEPTED" => f \in wire
  /\ \A s, t \in Senders :
       Sending(s) /\ Sending(t) /\ s # t => sender[s].frame.event # sender[t].frame.event

SenderInv == WrittenInv /\ AcceptedInv /\ SendingInv
=============================================================================
