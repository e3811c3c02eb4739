---------------------------- MODULE SensingWorld ----------------------------
(***************************************************************************)
(* What sender and receiver share: the owner whose state the frames are    *)
(* about, the frames that exist, those on the wire, and the fault budget.  *)
(***************************************************************************)
EXTENDS SensingEvidence

CONSTANTS
  Worlds,      \* the sets of frames a behaviour may be about
  Own,         \* frames sent by the modelled sender; the others come from elsewhere
  MaxSeq,      \* bound on the owner's commits per referent
  MaxFaults,   \* bound on failed writes
  MaxCrashes   \* bound on restarts of sender and receiver

ASSUME WorldAssumption ==
  /\ Worlds \subseteq SUBSET Frames /\ Own \subseteq Frames
  /\ MaxSeq \in Nat /\ MaxFaults \in Nat /\ MaxCrashes \in Nat

VARIABLES
  world,     \* the frames of this behaviour
  current,   \* [Refs -> the owner's sequence and revision]
  wire,      \* own frames that were written to the transport
  faults,    \* failed writes so far
  crashes    \* restarts so far

worldVars == <<world, current, wire, faults, crashes>>

WorldTypeOK ==
  /\ world \in Worlds
  /\ current \in [Refs -> Nat]
  /\ wire \subseteq Own
  /\ faults \in Nat /\ crashes \in Nat

WorldInit ==
  /\ world \in Worlds
  /\ current = [r \in Refs |-> 0]
  /\ wire = {} /\ faults = 0 /\ crashes = 0

\* The owner commits and reads back a further revision.
OwnerCommits(r) ==
  /\ current[r] < MaxSeq
  /\ current' = [current EXCEPT ![r] = @ + 1]
  /\ UNCHANGED <<world, wire, faults, crashes>>

\* A transport may repeat, delay, reorder and lose what was written; a frame of
\* another writer may arrive at any time.
Deliverable(f) == f \in world /\ (f \in Own => f \in wire)

Fault == faults < MaxFaults /\ faults' = faults + 1
NoFault == faults' = faults
=============================================================================
