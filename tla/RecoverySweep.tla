---------------------------- MODULE RecoverySweep ----------------------------
(***************************************************************************)
(* The recovery listing: BoundedRecoverySweep pages through the unresolved *)
(* admissions of one store, in admit_seq order and up to a high-water mark *)
(* read when the sweep starts, while other processes admit and resolve     *)
(* admissions. admit_seq is drawn at the INSERT but visible at the COMMIT, *)
(* so an admission may appear below the cursor; every sweep restarts at    *)
(* the head, and so does a new sweep object after a restart.               *)
(***************************************************************************)
EXTENDS Naturals, FiniteSets

CONSTANTS
  Admissions,
  Limit,        \* page size
  MaxRestarts   \* bound on restarts of the sweeping process

ASSUME SweepAssumption == Limit \in Nat \ {0} /\ MaxRestarts \in Nat

VARIABLES
  seq,        \* [Admissions -> Nat]: admit_seq, 0 before the INSERT
  phase,      \* [Admissions -> where the admission is]
  drawn,      \* the sequence behind admit_seq (never rolled back)
  cursor,     \* _cursor: the last admit_seq listed, 0 for None
  through,    \* _through_seq: the sweep's high-water mark, 0 for None
  marking,    \* next_page has read the mark and not listed yet
  page,       \* the admissions of the last page
  restarts,   \* restarts so far
  due,        \* history: visible and unresolved since this sweep's mark
  listed      \* history: listed by this sweep

admissionVars == <<seq, phase, drawn>>
sweepVars == <<cursor, through, marking, page, restarts>>
ghostVars == <<due, listed>>
vars == <<admissionVars, sweepVars, ghostVars>>

TypeOK ==
  /\ seq \in [Admissions -> Nat]
  /\ phase \in [Admissions -> {"new", "inserted", "unresolved", "resolved", "aborted"}]
  /\ drawn \in Nat /\ cursor \in Nat /\ through \in Nat
  /\ marking \in BOOLEAN
  /\ page \subseteq Admissions
  /\ restarts \in 0..MaxRestarts
  /\ due \subseteq Admissions /\ listed \subseteq Admissions

Init ==
  /\ seq = [a \in Admissions |-> 0]
  /\ phase = [a \in Admissions |-> "new"]
  /\ drawn = 0 /\ cursor = 0 /\ through = 0
  /\ marking = FALSE
  /\ page = {}
  /\ restarts = 0
  /\ due = {} /\ listed = {}

-----------------------------------------------------------------------------
(* The admissions: FENCED, IN_FLIGHT and UNKNOWN_EFFECT count as unresolved *)
(* (UNRESOLVED_STATES); an admission may resolve or stay so for ever.       *)

Insert(a) ==
  /\ phase[a] = "new"
  /\ drawn' = drawn + 1
  /\ seq' = [seq EXCEPT ![a] = drawn + 1]
  /\ phase' = [phase EXCEPT ![a] = "inserted"]
  /\ UNCHANGED <<sweepVars, ghostVars>>

EndInsert(a) ==
  /\ phase[a] = "inserted"
  /\ phase' \in {[phase EXCEPT ![a] = "unresolved"], [phase EXCEPT ![a] = "aborted"]}
  /\ UNCHANGED <<seq, drawn, sweepVars, ghostVars>>

Resolve(a) ==
  /\ phase[a] = "unresolved"
  /\ phase' = [phase EXCEPT ![a] = "resolved"]
  /\ due' = due \ {a}
  /\ UNCHANGED <<seq, drawn, sweepVars, listed>>

Unresolved == {a \in Admissions : phase[a] = "unresolved"}

-----------------------------------------------------------------------------
(* The sweep: each query is a transaction of its own. *)

(* Mutant: the page starts at the cursor, not behind it. *)
MutantFromCursor == {a \in Unresolved : seq[a] >= cursor /\ seq[a] <= through}

(* unresolved_high_water: COALESCE(MAX(admit_seq), 0). *)
HighWater(m) ==
  /\ m \in {0} \cup {seq[a] : a \in Unresolved}
  /\ \A a \in Unresolved : seq[a] <= m

(* list_unresolved: WHERE admit_seq > cursor AND admit_seq <= through       *)
(* ORDER BY admit_seq LIMIT limit.                                          *)
Pending == {a \in Unresolved : seq[a] > cursor /\ seq[a] <= through}

Listing(rows) ==
  /\ rows \subseteq Pending
  /\ Cardinality(rows) <= Limit
  /\ rows = Pending \/ Cardinality(rows) = Limit
  /\ \A a \in rows, b \in Pending \ rows : seq[a] < seq[b]

(* The first page of a sweep reads the mark. *)
StartSweep ==
  /\ ~marking /\ through = 0
  /\ \E m \in 0..drawn : HighWater(m) /\ through' = m
  /\ marking' = TRUE
  /\ due' = Unresolved /\ listed' = {}
  /\ UNCHANGED <<admissionVars, cursor, page, restarts>>

(* Mutant: the cursor is one past the last row. *)
MutantSkipsOne ==
  /\ Cardinality(page') = Limit
  /\ \E a \in page' :
       /\ \A b \in page' : seq[b] <= seq[a]
       /\ cursor' = seq[a] + 1
  /\ UNCHANGED through

(* A full page moves the cursor to its last row. *)
FullPage ==
  /\ Cardinality(page') = Limit
  /\ \E a \in page' :
       /\ \A b \in page' : seq[b] <= seq[a]
       /\ cursor' = seq[a]
  /\ UNCHANGED through

(* Mutant: the cursor is a resume token for the next sweep. *)
MutantResumes ==
  /\ Cardinality(page') # Limit
  /\ through' = 0
  /\ UNCHANGED cursor

(* Any other page is the tail: cursor and mark are reset. *)
TailPage ==
  /\ Cardinality(page') # Limit
  /\ cursor' = 0 /\ through' = 0

(* A mark of 0 is a mark, not None: it lists an empty page. *)
NextPage ==
  /\ marking \/ through > 0
  /\ \E rows \in SUBSET Admissions : Listing(rows) /\ page' = rows
  /\ listed' = listed \cup page'
  /\ marking' = FALSE
  /\ FullPage \/ TailPage
  /\ UNCHANGED <<admissionVars, restarts, due>>

(* The sweeping process restarts with a new sweep object. *)
Restart ==
  /\ restarts < MaxRestarts
  /\ restarts' = restarts + 1
  /\ cursor' = 0 /\ through' = 0 /\ marking' = FALSE /\ page' = {}
  /\ due' = {} /\ listed' = {}
  /\ UNCHANGED admissionVars

Sweep == StartSweep \/ NextPage

Next ==
  \/ \E a \in Admissions : Insert(a) \/ EndInsert(a) \/ Resolve(a)
  \/ Sweep
  \/ Restart

Spec == Init /\ [][Next]_vars

(* The caller keeps asking for pages, which the class documents as its use. *)
FairSpec == Spec /\ WF_vars(Sweep)

-----------------------------------------------------------------------------
(* A completed sweep has listed every admission that was visible and        *)
(* unresolved when it began and is so still, however many were admitted or  *)
(* resolved meanwhile (BoundedRecoverySweep).                               *)
SweepIsComplete ==
  [][NextPage /\ TailPage => due \subseteq listed']_vars

(* A sweep lists an admission once at most, in admit_seq order, and nothing *)
(* beyond its mark, so a stream of new admissions cannot prolong it.        *)
SweepIsBounded ==
  [][NextPage => \A a \in page' :
       /\ a \notin listed
       /\ \A b \in listed : seq[b] < seq[a]
       /\ seq[a] <= through]_vars

(* The inductive invariant behind both: while a sweep is under way, its     *)
(* cursor separates what it has listed from what it has still to list.      *)
Sweeping == marking \/ through > 0

SeqInv ==
  /\ \A a \in Admissions : seq[a] <= drawn
  /\ \A a \in Admissions : phase[a] # "new" => seq[a] > 0

CursorInv ==
  /\ due \subseteq Unresolved
  /\ \A a \in listed : phase[a] # "new"
  /\ ~Sweeping => cursor = 0
  /\ Sweeping =>
       /\ cursor <= through
       /\ \A a \in due : seq[a] <= through /\ (seq[a] <= cursor => a \in listed)
       /\ \A a \in listed : seq[a] <= cursor

IInv == TypeOK /\ SeqInv /\ CursorInv

(* An admission that stays unresolved is listed again and again, also one   *)
(* that became visible behind the cursor.                                   *)
EveryUnresolvedIsListed ==
  \A a \in Admissions :
    [](phase[a] = "unresolved" => <>(a \in page \/ phase[a] # "unresolved"))
=============================================================================
