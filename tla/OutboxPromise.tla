---------------------------- MODULE OutboxPromise ----------------------------
(***************************************************************************)
(* What the outbox promises the owner of a pointer, whatever publishers,   *)
(* crashes, lost answers and late requests lie behind it: a pointer enters *)
(* the stream only after its commit, at a sequence of its own, and once at *)
(* most. "published" names that sequence; "refused" is said only of a      *)
(* pointer that is not in the stream, and keeps it out for ever. What has  *)
(* been said is not said otherwise. The outcome may also never come.       *)
(***************************************************************************)
EXTENDS Naturals

CONSTANT Messages

VARIABLES
  stored,   \* [Messages -> SUBSET Nat]: the sequences at which it entered
  outcome   \* [Messages -> what the outbox says of it]

promiseVars == <<stored, outcome>>

Says(what)     == [says |-> what, seq |-> 0]
Published(seq) == [says |-> "published", seq |-> seq]

Init ==
  /\ stored = [m \in Messages |-> {}]
  /\ outcome = [m \in Messages |-> Says("nothing")]

Commit(m) ==
  /\ outcome[m] = Says("nothing")
  /\ outcome' = [outcome EXCEPT ![m] = Says("pending")]
  /\ UNCHANGED stored

(* The pointer enters, behind everything that entered before; also after    *)
(* the outbox has reported a conflict with another writer's message.        *)
Enter(m) ==
  /\ outcome[m] \in {Says("pending"), Says("conflict")}
  /\ stored[m] = {}
  /\ \E seq \in stored'[m] :
       /\ \A n \in Messages : \A q \in stored[n] : q < seq
       /\ stored' = [stored EXCEPT ![m] = {seq}]
  /\ UNCHANGED outcome

Publish(m) ==
  /\ outcome[m] = Says("pending")
  /\ \E seq \in stored[m] : outcome' = [outcome EXCEPT ![m] = Published(seq)]
  /\ UNCHANGED stored

Refuse(m) ==
  /\ outcome[m] = Says("pending")
  /\ stored[m] = {}
  /\ outcome' = [outcome EXCEPT ![m] = Says("refused")]
  /\ UNCHANGED stored

Conflict(m) ==
  /\ outcome[m] = Says("pending")
  /\ outcome' = [outcome EXCEPT ![m] = Says("conflict")]
  /\ UNCHANGED stored

Next ==
  \E m \in Messages :
    Commit(m) \/ Enter(m) \/ Publish(m) \/ Refuse(m) \/ Conflict(m)

Spec == Init /\ [][Next]_promiseVars
=============================================================================
