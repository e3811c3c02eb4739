--------------------------- MODULE SensingPromise ---------------------------
(***************************************************************************)
(* What the sensing runtime promises the owner and the sink, whatever      *)
(* threads, failed writes, restarts and repeated, delayed or foreign       *)
(* frames lie behind it.  An event is sent once, and what is reported of a *)
(* send is so.  A frame is read at the owner once for its event, and once  *)
(* for its scope as long as the owner does not refute it.  An event gets   *)
(* one verdict, which the owner's state warrants, and the sink is told of  *)
(* it once; only of an event that a write failed for may less be kept.     *)
(***************************************************************************)
EXTENDS Naturals

CONSTANTS Frames, Events, Refs, Own

VARIABLES
  current,   \* [Refs -> the owner's sequence and revision]
  wire,      \* own frames that were sent
  sent,      \* [Events -> how often one was sent]
  reported,  \* [Events -> what the sender knows: "open", "sent" or "unsent"]
  read,      \* [Frames -> owner reads]
  verdict,   \* [Events -> "none", an outcome, or "RECOVERED"]
  told,      \* [Events -> closures the sink was given]
  lost       \* events that a write failed for

senderSide == <<wire, sent, reported>>
receiverSide == <<read, verdict, told, lost>>
promiseVars == <<current, senderSide, receiverSide>>

Refuted == {"CONFLICT_HOLD", "HOLD_IDENTITY"}
Outcomes == Refuted \cup {"ACK_READ", "STALE_SUPERSEDED", "HOLD_UNREADABLE"}

Genuine(f) == f.rev = f.seq /\ f.sound

Init ==
  /\ current = [r \in Refs |-> 0]
  /\ wire = {} /\ sent = [e \in Events |-> 0] /\ reported = [e \in Events |-> "open"]
  /\ read = [f \in Frames |-> 0] /\ verdict = [e \in Events |-> "none"]
  /\ told = [e \in Events |-> 0] /\ lost = {}

OwnerCommits(r) ==
  /\ current' = [current EXCEPT ![r] = @ + 1]
  /\ UNCHANGED <<senderSide, receiverSide>>

(* Only what the owner has committed is announced.                          *)
Send(f) ==
  /\ f.rev <= current[f.ref] /\ sent[f.event] = 0 /\ reported[f.event] = "open"
  /\ wire' = wire \cup {f}
  /\ sent' = [sent EXCEPT ![f.event] = 1]
  /\ UNCHANGED <<current, reported, receiverSide>>

(* What the sender knows of its sends is so, also after a restart.          *)
Report ==
  \E known \in [Events -> {"open", "sent", "unsent"}] :
    /\ \A e \in Events : /\ known[e] = "sent" => sent[e] = 1
                         /\ known[e] = "unsent" => sent[e] = 0
    /\ reported' = known
    /\ UNCHANGED <<current, wire, sent, receiverSide>>

(* Frames of other writers may arrive at any time, own ones when sent.      *)
Arrives(f) == f \in Own => f \in wire

Read(f) ==
  /\ Arrives(f) /\ verdict[f.event] = "none"
  /\ \A g \in Frames : read[g] > 0 =>
       /\ g.event # f.event
       /\ g.scope = f.scope => verdict[g.event] \in Refuted
  /\ read' = [read EXCEPT ![f] = 1]
  /\ UNCHANGED <<current, senderSide, verdict, told, lost>>

(* Evidence about e is written, or a write fails.                           *)
Kept(e) == lost' \in {lost, lost \cup {e}}

(* The sink is told of e, unless it raises.                                 *)
Told(e) ==
  \/ told' = told
  \/ (told[e] = 0 \/ e \in lost') /\ told' = [told EXCEPT ![e] = @ + 1]

(* What the owner's state must be for a verdict on f.                       *)
Warranted(f, v) ==
  /\ v # "STALE_SUPERSEDED" => read[f] = 1
  /\ v = "ACK_READ" => f.sound /\ f.rev <= current[f.ref]
  /\ v = "CONFLICT_HOLD" => ~Genuine(f)
  /\ v = "STALE_SUPERSEDED" => f.rev < current[f.ref] \/ f.seq < current[f.ref]

Judge(f, v) ==
  /\ Arrives(f) /\ verdict[f.event] = "none" /\ Warranted(f, v)
  /\ verdict' = [verdict EXCEPT ![f.event] = v]
  /\ Kept(f.event) /\ Told(f.event)
  /\ UNCHANGED <<current, senderSide, read>>

Surface(e) ==
  /\ verdict[e] = "RECOVERED"
  /\ Kept(e) /\ Told(e)
  /\ UNCHANGED <<current, senderSide, read, verdict>>

Fail(e) ==
  /\ lost' = lost \cup {e} /\ Told(e)
  /\ UNCHANGED <<current, senderSide, read, verdict>>

(* After a restart events under way have the hold for their verdict, and so *)
(* may others that a write failed for.                                      *)
Recover(E) ==
  /\ \A e \in E : /\ verdict[e] = "none" \/ e \in lost
                  /\ \E f \in Frames : f.event = e /\ Arrives(f)
  /\ verdict' = [e \in Events |-> IF e \in E THEN "RECOVERED" ELSE verdict[e]]
  /\ UNCHANGED <<current, senderSide, read, told, lost>>

Next ==
  \/ \E r \in Refs : OwnerCommits(r)
  \/ \E f \in Own : Send(f)
  \/ Report
  \/ \E e \in Events : Surface(e) \/ Fail(e)
  \/ \E f \in Frames : Read(f) \/ \E v \in Outcomes : Judge(f, v)
  \/ \E E \in SUBSET Events : Recover(E)

Spec == Init /\ [][Next]_promiseVars
=============================================================================
