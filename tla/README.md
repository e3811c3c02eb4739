# Verification of the repository's transactional components

This directory holds TLA+ models of the programs in this repository that share
state between processes and survive failures:

* the durable controlled effect executor
  (`candidates/controlled-effect-executor-durable-v0.2`; `DUR/` below is its
  `src/controlled_effect_executor_durable/`, `V1/` its
  `src/controlled_effect_executor/`);
* the outbox and publisher of the D1 JetStream adapter
  (`candidates/d1-jetstream-adapter-v0.1/d1js`, `D1/`);
* the natural actor lifecycle (`candidates/natural-actor-lifecycle-v0.1`, `NAL/`);
* the control context state service (`tooling/context`, `CTX/`);
* the sender and receiver of the SignalVev sensing runtime
  (`candidates/signalvev-sensing-runtime-v0.1`; `SV/` is its
  `src/signalvev_sensing/`).

TLC checks the models on small instances. TLAPS proves the safety properties for
every instance, among them five refinements: the executor, the outbox, the
lifecycle, the context service and the sensing runtime each implement an abstract
specification of what they promise.

## 1. The system

The repository is the source of a "control plane" for agents: 926 files, of
which about 144 000 lines are Python. Most of it is policy documents, document
validators and sequential command-line tools. The five programs above are those
in which several processes or threads, durable state and lost answers meet. They
do not call each other: each has its own tables or files. The first four share a
style, in which every write is a PostgreSQL transaction that locks the rows it
decides on; the sensing runtime writes ahead to append-only files.

| part | source | state it keeps | operations |
|---|---|---|---|
| admission fence | `DUR/store_pg.py` `admit`, `V1/store.py` `_check` | `cee_admission`, first row of `cee_event` and `cee_progress` | `admit` in one READ COMMITTED transaction that shares the owner's rows |
| owner of batches | `DUR/synthetic_pg.py` `PgSyntheticOwner` | delegation and approval rows, a sequence | `revoke`, `expire`, `amend`, `withdraw_approval`, the two locked reads |
| ledger | `DUR/store_pg.py`, `DUR/schema.py`, `V1/receipts.py`, `V1/states.py` | append-only `cee_event`, projection `cee_progress` | `begin_attempt`, `record_provider_result`, `record_reconciliation`, `declare_in_flight_lost`; two triggers; two verifiers |
| executor | `DUR/executor_pg.py` | `_active`, the admissions whose call runs in this process | `execute`, `recover`, `declare_in_flight_lost`, `status` |
| evidence | `DUR/settlement.py`, `V1/executor.py` `classify_observation` | none | `read_evidence`, `classify_durable` |
| provider | `DUR/synthetic_pg.py` `PgSyntheticProvider` | target version and artifact, applied correlations, settlement and slow queue, call log | `apply` in six modes, `deliver`, `settle_absent`, two readbacks |
| recovery sweep | `DUR/executor_pg.py` `BoundedRecoverySweep`, `DUR/store_pg.py` `list_unresolved` | cursor and high-water mark | `next_page` |
| outbox, publisher | `D1/owner.py`, `D1/publisher.py`, `D1/transport.py` | one outbox row per pointer: state, claim token, claim time, sequence; the stream and its duplicate window | `commit_event`, `publish`, `reconcile_publication`, `reconcile_once` |
| actor aggregate | `NAL/lifecycle.py`, `NAL/postgres_store.py`, `NAL/schema_v1.sql` | `nal.actor_state`: task, status, references, receipts, reports | register, admit, issue and supersede binding, consume, start, finish, close, report, acknowledge, reset |
| parent authority | `NAL/parent_authority_pg.py`, its SQL schema | `pm_authority`: rights, delegations, decisions | issue, revoke, supersede, expire; the two fences |
| owner bindings | `NAL/owner_binding_pg.py`, its SQL schema, `mcp/worker_context_auth.py` | `pm_binding.current_binding` | issue, revoke, supersede, read, the lock of the commit guard |
| episode runner | `NAL/worker_episode_runner.py` | none | one episode: consume, start, work, finish, close, verify |
| context registry | `CTX/control_context_registry.py` | the aggregate of a project: a tree of contexts with a default | ten operations of a directive, validation |
| context state service | `CTX/control_context_state_postgres.py`, `.sql`, `control_context_state_port.py` | project, contexts, session bindings, events | `bind_session`, `begin_event`, `complete_event` |
| sensing sender | `SV/sender.py`, `SV/owner_event.py`, `SV/transport.py` | the send ledger (a file), events in flight | `send`; the ledger's reconstruction |
| sensing receiver | `SV/receiver.py`, `SV/cursor.py`, `SV/store.py` | the dedupe cursor (a file): claims, verdicts, scopes, highwaters, conflicts | `on_frame`; the cursor's reconstruction |

### The executor

An owner (a person or a project manager) approves a *batch* of operations on one
target. The executor turns the approval into an *admission*, calls an external
provider once, and reports what happened. The provider may be slow, lose its
answer or lie by omission; processes may die at any point; several processes may
work on one admission. The promise is: never call twice, and never say "done" or
"not done" unless it is true and stays true.

    owner --revoke/expire/amend--> delegation row <--FOR SHARE-- admit
                                                                   | one commit
                                                                   v
    executor --begin_attempt--> ledger (FENCED -> IN_FLIGHT, compare-and-set)
        |  confirmed
        +--apply(grant)--> provider ... slow queue ... settlement
        |  answer, lost answer, refusal
        +--record_provider_result--> ledger (ack: IN_FLIGHT, else UNKNOWN_EFFECT)
        +--read settlement, then target--> classify --record_reconciliation--> ledger
    any process: sweep.next_page --> recover --> the same reconciliation
    owner: declare_in_flight_lost --> ledger (IN_FLIGHT -> UNKNOWN_EFFECT)

Every arrow into the ledger is one transaction that locks the progress row, and
every one of them may fail or commit without the caller being told. `_active` is
the only state that the threads of a process share outside the database; checks
of it and writes to the ledger are separate steps.

### The publisher

The owner commits a change together with an outbox row. Any process then claims
the row (a compare-and-set with a fresh token), sends the pointer to a JetStream
stream and settles the row with the PubAck. When the answer is missing, a lookup
of the whole stream must prove the pointer absent, and the last claim must be so
old that no attempt can still land, before a retry is allowed. The broker itself
recognises duplicates only within a window, drops messages after `MaxAge` and
refuses them when it is full.

### The actor lifecycle

A project manager issues rights, a delegation and a decision; the decision lets
an actor work on one task; the owner binds the task to a worker. A worker episode
consumes the task, starts it, does its local work once, finishes and closes it.
Each of these is a transaction that locks the actor, the three parents and the
binding, and keeps them to its COMMIT. The issuers lock parts of the same chain
when they revoke. A connection may be lost during COMMIT; the read-back that
follows must not claim what did not happen.

### The context state service

A project is a tree of work contexts; a session has a focus in it. Every change
is an *event*: `begin_event` notes the revisions it starts from, `complete_event`
applies a directive (a list of operations) if project and session are still at
those revisions. `begin_event` moves a session whose focus has ended to the
nearest open ancestor. Calls are idempotent under a key and an id. The two calls
lock session and project in opposite orders.

### The sensing runtime

An owner commits a revision of a referent and announces it: the sender writes an
intent to its ledger, publishes one frame and writes the outcome. Frames arrive
at the receiver any number of times and in any order, also from other writers.
Under its lock the receiver compares a frame with what it has claimed and with
the highest sequence the owner has confirmed, and claims it; without the lock it
reads at the owner once; under the lock again it writes the verdict and tells the
return sink. A failed claim stops the work; other failed writes leave memory
ahead of the file. After a crash an intent without an outcome is an unknown send,
and a claim without a verdict is a typed hold.

### What is hard in it

`PROJECT.json` lists each hazard at its line with the properties that cover it.
In groups:

* *interleaving*: two processes executing one admission, publishing one pointer
  or running one task; a revocation racing an admission or a transition; the
  provider's settlement racing its own queue; a context ended under the focus of
  another session;
* *partial failure*: a commit that is not confirmed; a crash between two events
  of a verdict; a directive refused in the middle;
* *stale state*: a decision made from a snapshot, two reads ago; an event whose
  basis has moved; a queued grant whose precondition nobody has checked since;
* *unreliable delivery and timeouts*: a lost PubAck, an attempt that lands late,
  a COMMIT that lands after the client has asked whether it did;
* *deadlock*: five kinds of rows locked by workers and issuers; session and
  project locked in two orders;
* *liveness and growth*: an attempt left `IN_FLIGHT` for ever; an ambiguous
  publication nobody settles; a ledger that grows with every sweep; a sweep that
  never reaches its tail;
* *crashes of what is not transactional*: a file that is behind the memory of the
  process, an event sent or read again after a restart, a verdict forgotten.

What makes each part correct is section 3 (the properties) in short. Executor:
one call, true and final answers, a ledger its own verifiers accept. Fence: an
admission that was current at its commit. Sweep: a listing that misses nothing
it owed. Publisher: one copy, true outcomes. Lifecycle: authority at every
commit, work done once, no deadlock. Context service: one linear history,
lasting answers, no branch or focus lost. Sensing: an event is sent, read and told
once, its verdict lasts, and nobody but the owner makes an announcement stale.

## 2. The modules

| module | models | state and actions in the code |
|---|---|---|
| `EffectLedger` | the pure rules: states and transitions, observations and settlements, `ClassifyObservation`, `ClassifyDurable`, ledger events, the triggers and the verifiers as predicates | functions of `V1/executor.py`, `DUR/settlement.py`, `V1/receipts.py`, `DUR/schema.py`, `DUR/verify.py` |
| `EffectProvider` | the provider: `history` (applied correlations per target), `settlement`, `queued`, `calls` | one action per provider transaction: `Effect`, `Enqueue`, `Reject`, `Deliver`, `SettleAbsent`, `LogCall` |
| `EffectExecutor` | processes and threads over one ledger: `progress`, `ledger`, `active`, `worker` | one action per transaction, provider interaction or access to `_active` |
| `EffectPromise` | abstract specification: what the owner of an admission is promised | none; `called`, `effect`, `answer` |
| `EffectRefinement` | the mapping of the executor's state to the promise | `calls`, the applied history and settlement, the terminal states |
| `EffectInvariant` | the inductive invariants of the proofs, in named parts: `IInv` for the calls and answers, `LedgerInv` for the events, `ActiveInv` for `_active` | |
| `AdmissionFence` | `admit` against the owner's transactions | one action per statement that reads, locks or ends the transaction |
| `RecoverySweep` | the sweep against admissions that appear and resolve | `StartSweep` and `NextPage` are the two transactions of `next_page` |
| `PointerOutbox` | outbox rows, publishers, requests in flight, the broker, a clock; the mapping to its promise | one action per outbox transaction, broker request or answer, and per test of a lookup |
| `OutboxPromise` | abstract specification: what the owner of a pointer is promised | none; `stored`, `outcome` |
| `ActorLifecycle` | the actor aggregate, the parent rows and the bindings, their row locks, episodes and issuers; the mapping to its promise | one action per row lock, draft, guard, COMMIT and read-back |
| `LifecyclePromise` | abstract specification: the atomic steps of a task and of the rows of authority | none; `done`, `works`, `answers` |
| `ControlTree` | the project aggregate: tree, default, operations of a directive, validation | `MayCreate`, `MayEnd`, `MayTouch` and `After` are the branches of `_apply_project_operation` |
| `ControlPromise` | abstract specification of the context service: four atomic steps | none |
| `ControlState` | `bind_session`, `begin_event`, `complete_event` over project, sessions, events and row locks | one action per row lock, operation, and end of a transaction |
| `SensingEvidence` | frames, and the two stores as functions of their records | `_apply` of `DedupeCursor` and `SendLedger`, the three images of a `JsonlStore` |
| `SensingWorld` | the owner, the frames on the wire, the fault budget | a commit of the owner |
| `SensingSender` | threads that send | `Intend`, `Publish`, `Record` are the three sections of `send` |
| `SensingReceiver` | threads that receive | `_admit` is `NoteConflict`, `Surface` and `Admit`; `Resolve` the owner read, `Close` `_terminal` |
| `SensingRuntime` | the composition of the three, with its fairness; the mapping to its promise | |
| `SensingPromise` | abstract specification: sends, reads, verdicts and closures as atomic steps | none; `sent`, `reported`, `read`, `verdict`, `told` |
| `*Proofs` | the proofs about the component they are named after; `EffectLedgerProofs` adds those about what the executor writes | |
| `MC*` | constants of the small instances | |

Correspondence, for a reader with the code open.

Executor, fence, sweep:

* A **thread** of `EffectExecutor` is a record with a program point `pc`. The
  points of `execute` are `begin` (before `begin_attempt`), `reserved` (its
  commit is confirmed), `calling` (in `_active`), `inside` (in
  `provider.apply`), `returned`, `reread` (the read of `_after_call`), then the
  points of `_resolve`: `settle`, `observe`, `decide`, `close` (the second of
  two events), `after`. `recover` starts at `check` and joins at `settle`;
  `declare` is between the check of `_active` and the write. The remaining
  fields are the local variables those steps carry; they are reset as soon as
  the code cannot use them any more, which keeps the state space small.
* A **transaction** is atomic because every write of the store locks the
  progress row `FOR UPDATE` first. `Unconfirmed(write)` is `_tx` failing: the
  write happened or did not, and the caller goes the way of the exception.
* **Early answers** that change nothing (`NOT_FENCED`, `ADMISSION_EXPIRED`,
  `RECOVERY_NOT_APPLICABLE_TERMINAL`, a forged receipt) leave the state as it
  is and are therefore stutters: they appear as the guards of `ExecuteStart` and
  `RecoverStart`.
* **Evidence** is a record. `mark` is the length of the history when version and
  artifact were read: `_read` issues two statements under READ COMMITTED, so the
  history may be newer than the artifact. The readback may be missing, not
  authoritative, not authenticated or incomplete (`DegradedSettlements`,
  `DegradedObservations`).
* **Digests** stand for what they digest: two are equal iff the values are. The
  hash chain itself therefore cannot break in the model and no property speaks
  of it. The order, the edges and the evidence that the verifiers look at can.
* In `AdmissionFence` a row lock is a predicate on the program points
  (`SharesDelegation`, `SharesApproval`): the lock is held from the read to the
  end of the transaction. `KeyUndecided` is the wait of an INSERT for another
  transaction's uncommitted equal key.
* In `RecoverySweep` `due` and `listed` are history variables: what was
  unresolved at the mark and is so still, what this sweep has listed. `escaped`
  in `EffectExecutor` is a history variable as well.

Publisher:

* `token` is the uuid of the claim, here its number. `claimedAt` is read before
  the compare-and-set waits for its turn (`Stamp`, then `Claim`).
* `wire` holds requests that may land until their timeout, also after their
  sender gave up or died. `Land` is what `InMemoryStreamTransport.publish` does,
  which is the repository's own model of JetStream.
* The clock ticks between any two steps, except that three intervals are
  bounded: the timeout of a request, and two stalls (`WriteStall`, from reading
  the clock for `claimed_at` to the send; `ReplyStall`, from the broker's final
  answer of a lookup to the decision). The code bounds the first; it assumes the
  other two, and the second matters (section 6).
* Each test of a lookup is a step: state, one message at a time, state again,
  decision. A budget that runs out, a broker that cannot be reached and a
  missing message are all `Hold`.

Lifecycle:

* `holder` is the lock table. A fenced transition goes through `ready` (called),
  `locking` (actor locked, the parents being locked one by one), `drafted`,
  `committing` (the commit guard has passed), `readback`. `lost` and `told` are a
  transaction in doubt after its connection was lost: it keeps its locks until
  `Land` or `Drop`; in `told` the client has had its answer or is dead.
* Transitions that need no fence are one step, guarded by a free actor row: they
  lock that one row and read the others without a lock. The functions of
  `pm_binding` lock one row and are one step as well. Issuers lock two or three
  rows, one step each; the first lock is taken with the call.
* `marks` are the task's `consume_ref` and `start_ref`. The references of
  terminal, receipt and report are identified with the binding or the task they
  are for; a receipt stands for its outbox intent as well. Frontier and epoch
  change only with a reset and carry no information of their own.
* `ReportHistorical` happens once per task: a further report is a replay.
* `works`, `done` and `answers` are history variables. `answers` holds only
  read-backs that say *committed*.

Context service:

* `held` is the lock table, `tx` the calls under way with their drafts: `p` and
  `f` are project and session as the transaction has written them so far. `told`
  is a history variable. A call that waits for its first lock holds nothing and
  is not distinguished from one that has not been made.
* A directive is chosen when it is first used, at the session lock: nothing
  before depends on it. Its session operations are reduced to their net effect
  (focus, continuation binding), since the code applies them after the project
  operations and nothing reads the intermediate states.
* `life` is lifecycle and disposition together; `RETURNED` awaits its join,
  `JOINED` is between the join and the close within one directive. `hold` keeps
  of the control condition what validation looks at.
* Reads have no effect and are left out. Their answers are the stored rows.

Sensing runtime:

* A **frame** is a record of what the checks compare: event, referent, idempotency
  scope, fingerprint, revision, claimed sequence, and whether its content hash is
  the owner's (`sound`). Decoding, validation, applicability and TTL come first
  and leave no state; the frames of the model are those they let through.
* The owner's sequence of a referent is the number of its current revision.
* A **store** has three images: `mem`, what this process has applied; `log`, what
  a reader of every line handed to the file would rebuild; `disk`, the set of
  states a crash may leave. `JsonlStore._write` puts the line into a buffer before
  it can fail, so a failed record may surface with the next one, or be lost. Values
  that `check_evidence_value` refuses before the buffer is reached are left out.
* `Close` writes the verdict and tells the sink in one step, both under the lock.
  The sink may raise. A frame that is behind the highwater is claimed and closed
  under one hold of the lock (`stale`), with a crash possible in between.
* A **restart** replays the file and closes what it left open in one step: a
  construction that cannot write stops and is done again.
* `told` counts closures about the outcome of an event; duplicates have none, and
  the notice given with a first conflict is about the conflicting frame. A claim
  that could not be written is reported to the sink on every arrival: properties
  about `told` leave out events in `unsaved`.
* Frames of the modelled sender travel over `wire`; the others may arrive at any
  time. The flight recorder decides nothing and is left out.

The definitions whose names start with `Mutant` are plausible wrong versions of
the definition after them; the project uses them to show that each property
notices.

## 3. What the runs check

Twelve runs; `PROJECT.json` names the properties of each.

| run | instance | shows |
|---|---|---|
| `executor_processes` | 2 processes with a thread each, 1 admission, 1 fault (a crash, a failed or unconfirmed transaction, a bad readback) | the safety properties and the refinement below |
| `executor_threads` | 1 process, 2 threads, the second one also the owner's; an expiry; no fault | `ActiveIsExact` |
| `executor_recovery` | 1 thread, also the owner's, fairness; 1 batch and 2 faults, or 2 batches on one target and no fault | the liveness properties |
| `fence` | 3 requesters in 2 scopes, 2 batches with one key, 1 owner mutation of any kind | the fence |
| `sweep` | 3 admissions, pages of 2, 1 restart, fairness | the sweep |
| `outbox` | 2 publishers, 1 pointer, 1 crash, a foreign writer, a stream of 2 messages that expires, 3 ticks, fairness | the publisher |
| `lifecycle` | 2 sessions, 1 owner, 1 actor, 1 task, 2 bindings, a line of 3 parents, 1 lost connection or crash | the lifecycle |
| `control_state` | 2 calls at once, 2 sessions of one principal, 4 requests, 3 contexts, 5 directives, fairness | the context service and its refinement |
| `sensing` | six worlds of 2 or 3 frames, 2 threads on each side, a sequence up to 2, 1 failed write, 1 restart, fairness | the sensing runtime |
| `finding_*` | see section 6 | statements of the repository that the code does not keep |

The executor:

* `AtMostOneCall`: the provider's own log shows at most one call per admission,
  and none before the reservation is durable.
* `NoCommitIsFinal`: a recorded `NO_COMMIT` means the effect is absent *and* the
  provider can never apply it, whatever is still queued or under way.
* `CommittedIsApplied`: a recorded `COMMITTED_READBACK` means the effect is there.
* `LedgerVerifies`: what the executors write always passes
  `verify_provenance_durable` and `verify_projection`.
* `LedgerIsHonest`: "the result was never recorded" is written only when no
  result precedes it, and two consecutive events never repeat a verdict. Both
  rest on the sequence number that a decision expects.
* `TriggersAccept`: the PL/pgSQL guards accept every write of the Python store.
* `ActiveIsExact`: `_active` holds the running calls of the process, no more
  (nothing refuses recovery for ever) and no fewer (nothing is declared lost by
  mistake because another thread returned).
* `ImplementsPromise`: all of it refines `EffectPromise`: one call, an effect only
  because of that call, an answer only when the provider's state warrants it and
  never changed.
* `InFlightIsLeft`, `SettledIsClosed`, `AppliedIsReported`: section 4.

The fence: `FenceIsCurrent` (whatever becomes durable is still allowed by the
owner's rows at that step), `OneAdmissionPerKey`, and `AnswersAreTrue` (a caller
told `FENCED_ONCE` or `EXACT_REPLAY` has its own batch in its own scope; a
refused key is somebody else's, never the caller's own unconfirmed commit).

The sweep: `SweepIsComplete`, `SweepIsBounded`, `EveryUnresolvedIsListed`.

The publisher: `AtMostOneCopy` (the stream never held two copies of a pointer,
whatever the broker's duplicate window), `RefusedIsAbsent` (a refused pointer is
neither in the stream nor on its way), `OutcomesAreFinal` (a superseded or late
publisher writes nothing), `AmbiguousIsAnswered`, and `KeepsPromise`, the refinement
of `OutboxPromise`: a pointer enters the stream only after its commit, once and
behind what entered before; "published" names that entry, "refused" excludes it for
ever, and neither is said otherwise later. That "published" is true
(`PublishedIsStored`) is part of it and is not checked apart.

The lifecycle: `AuthorityAtCommit` (the whole line of parents and the binding are
active at every fenced COMMIT, also one that lands after its client was cut off),
`WorkDoneOnce` (over superseded bindings, second runners, reports and resets),
`NoWaitCycle` (workers and issuers never deadlock), and `KeepsPromise`, the
refinement of `LifecyclePromise`: a task goes from CONSUME over START, its work and
FINISH to CLOSE under one binding, each step at one instant at which the line and
the binding are active; FINISH says that the work was done. An answer is given only
of what happened, so that `AnswersAreTrue` (a read-back that says committed is right)
is part of it and is not checked apart.

The context service: `HistoryIsLinear` (every revision was made by one event that
was begun on the one before), `AnswersAreDurable` (what a client was told is
stored, and every retry is told the same), `NoBranchIsLost` (nothing open or
awaiting its join is left below an ended context), `FocusIsNotEndedByPeer`,
`OpenEventsSurvive` (rehydration and other sessions do not take an open event's
basis away), `CallsEnd`, and `ServesPromise`, the refinement of `ControlPromise`:
begin, complete and bind are atomic.

The sensing runtime: `ReadOnce` and `ScopeReadOnce`
(one owner read per event, and per announced change unless the owner refuted the
first), `GenuineIsNotStale` (a frame with a sequence it has no right to cannot make
the receiver drop the owner's own), `ToldOnce` (one outcome of an event, or one
recovered hold, never both), `VerdictIsRemembered` (no frame or restart changes a
verdict), `ClaimsAreClosed` (no claim stays open), and `KeepsPromise`, the refinement of
`SensingPromise`: only what the owner has committed is sent, and once, over restarts,
failed outcomes and concurrent calls (`SentAtMostOnce`, which is not checked apart);
what the ledger reports of a send is so; a verdict follows the one read and is what the
owner's state warrants: a frame is acknowledged only if it is sound and its revision
was committed, held as a conflict only if it is not the owner's own, stale only if the
owner has passed its revision or its sequence. `ToldOnce`, `VerdictIsRemembered` and
the promise except events for which a write failed from what is remembered and told
once, as the code does.

### Bounds, and why they are enough

* One admission in `executor_processes` and `executor_threads`: the store's
  transactions touch one admission's rows, and admissions meet only at the
  provider's target. The safety properties are proved for any number of them
  (section 5), and so is what the provider owes them there, `PreconditionHeld`.
* `executor_recovery` is about more than one, because a batch decides what the
  readback of another finds: the artifact on their common target. Two batches and
  two faults at once are out of TLC's reach with liveness, so the run starts in
  two states that `Init` reaches (`MCEffectExecutor`): in one the second batch has
  been rejected and closed and the first meets every fault; in the other the
  faults are spent and both batches, each with its own artifact, write the target
  in either order, at once or from the slow queue. Every behaviour of the run is
  the rest of a behaviour of `FairSpec`. What is not checked is a fault between two
  batches in one behaviour.
* Two threads: the races are between a caller and one recovery, one second
  caller or one declaration. A third thread can only repeat one of these parts;
  for the properties that are proved (section 5) the number is arbitrary.
* `MaxFaults` 1 for safety with two processes, 2 for recovery with one thread:
  the second fault is the one that hits the recovery from the first. Faults are
  counted together, so one of each kind is reachable.
* `MaxTicks` 1 in `fence`: a request races one owner transaction; the second
  batch names the revision that an amendment produces, so both "the owner moved
  before" and "after" are admissible orders.
* `Limit` 2 with 3 admissions: a full page, a tail, an exactly full last page,
  a mark of 0 and an admission that appears below the cursor all occur.
* `outbox`: `PublishTimeout` 1 and `ClaimStale` 2 are the smallest values that
  `config.validate` admits. `DuplicateWindow` 1 makes the broker forget before a
  retry is allowed, `MaxAge` 3 and `MaxMsgs` 2 make it remove and refuse, and
  three ticks (`MaxTime`) are one attempt, one retry and the expiry. Both stalls
  are 0; `finding_second_copy` has `ReplyStall` 2.
* `lifecycle`: one task with two bindings, so that one supersedes the other; two
  sessions, so that two runners, or a runner and a late release, meet; a line of
  rights, delegation and decision, the longest there is.
* `control_state`: the first two requests are two keys of one session, the third
  is an id under the wrong key, the fourth is the other session's. The
  directives create, hold, release, return, join, close, derive and cancel; one
  of them moves the focus. Requests are finite, so no counter needs a bound.

* `sensing`: the worlds are the first announcement with, in turn, its successor, a
  second announcement of the same change, the same event with other content, that
  content under another event, and a sequence it has no right to; the sixth has
  both false frames and the second revision. Every pair of branches of `_admit`
  meets in one. `MaxConflicts` 1 reaches the flood limit (the code's is 4, and
  10 000 over all). One failed write and one restart occur in either order; the
  run was also made once with two of each.

Symmetry is used where only safety is checked and nothing tells the members
apart: the two processes of `executor_processes`, the sessions and the bindings
of `lifecycle`. `sweep` and `control_state` check for deadlock. The other runs
switch it off: a system whose admissions are resolved, whose fault budget is
spent, whose clock has stopped and whose owner has made its last mutation has
stopped rightly.

## 4. Fairness

Safety runs have none. The other five:

`executor_recovery`:

* weak fairness of `Continue(w)`, per thread: a call that is under way goes on.
  Each of its steps is a database transaction with a lock and a statement
  timeout, or a provider call, which returns or raises. A crash ends the call.
* strong fairness of "some thread starts `recover(a)`", per admission: the
  recovery sweep documents that its caller repeats it while unresolved work may
  appear, and threads are busy in between, so the start is enabled again and
  again rather than for ever.

Nobody is obliged to start an `execute`, to declare an attempt lost, or to make
the provider settle, deliver or answer well. The faults are bounded, so a
readback is good in the end. Under these assumptions:

* `InFlightIsLeft`: an attempt does not stay `IN_FLIGHT`;
* `SettledIsClosed`: an `UNKNOWN_EFFECT` without a recorded ack is closed as
  `NO_COMMIT` once the provider has settled it absent. With a recorded ack it
  stays `UNKNOWN_EFFECT` for ever, by design;
* `AppliedIsReported`: in the end every effect that was applied, however late, is
  reported: as committed, or, when another batch's artifact stays on the target, as
  an `UNKNOWN_EFFECT` whose last event is `READBACK_APPLIED_BUT_ARTIFACT_MISMATCH`.
  It is not promised that such an effect is ever committed: without the exception
  the run finds two batches that commit one after the other before the first is
  recovered, and the first is `UNKNOWN_EFFECT` for ever (section 6). Which of the
  two answers an overwritten effect gets depends on whether a readback came first.

`sweep`: weak fairness of the caller's `next_page`, so that
`EveryUnresolvedIsListed`.

`outbox`: strong fairness of "some process begins with this row"
(`reconcile_once` takes every row in turn and the owner keeps calling it), weak
fairness of a publisher's next step, of a request's landing or loss, and a clock
that reaches `MaxTime`. Then an ambiguous row is settled, or held for an
operator to see.

`control_state`: strong fairness of a call's next step, since PostgreSQL grants
row locks in the order of the requests and no waiter is overtaken for ever, and
weak fairness of the deadlock detector. Nothing obliges a call to fail. Then
every call ends (`CallsEnd`), which is false without the detector.

`sensing`: weak fairness of each receiver thread's owner read and close. The
resolver owns the deadline of its read (`SV/receiver.py:165` waits for nothing
else), and who holds the lock never waits. Sending, committing and delivery are
not fair: a lost frame stays lost.

The lifecycle states no liveness: its safety form, `NoWaitCycle`, needs no
fairness and is proved.

## 5. What is proved

TLAPS checks the following for all values of the constants under their stated
assumptions, which TLC evaluates in the runs: `ConstantsAssumption`,
`PreconditionAssumption` and `ExecutorAssumption` (functions between the declared
sets, at least one admission), `FenceAssumption`, `SweepAssumption`,
`ConfigAssumption` (what `config.validate` requires), `LineAssumption` and
`RowAssumption` (a line of parents extends the line above it; kinds of rows are
disjoint), `ContextAssumption`, `ServiceAssumption`, `FramesAssumption` (equal
fingerprints mean equal content) and `WorldAssumption`.

| theorem | says |
|---|---|
| `EffectExecutorProofs!TypeCorrect`, `InvariantHolds` | `Spec => []TypeOK`, `[]IInv` |
| `EffectExecutorProofs!CalledAtMostOnce`, `NoCommitCorrect`, `CommittedCorrect` | `[]AtMostOneCall`, `[]NoCommitIsFinal`, `[]CommittedIsApplied` |
| `EffectExecutorProofs!PreconditionsHold` | `[]PreconditionHeld` |
| `EffectExecutorProofs!ExecutorKeepsPromise` | `Spec => ImplementsPromise`, the refinement |
| `EffectLedgerProofs!LedgerInvariant`, `LedgersVerify`, `LedgersHonest`, `TriggersAgree` | `[]LedgerInv`, `[]LedgerVerifies`, `[]LedgerIsHonest`, `TriggersAccept` |
| `EffectLedgerProofs!ActiveInvariant`, `ActiveExact` | `[]ActiveInv`, `[]ActiveIsExact` |
| `AdmissionFenceProofs!InvariantHolds`, `KeyAdmittedOnce`, `FenceIsAtomic`, `AnswersTrue` | `[]IInv`, `[]OneAdmissionPerKey`, `FenceIsCurrent`, `[]AnswersAreTrue` |
| `RecoverySweepProofs!InvariantHolds`, `CompleteSweep`, `BoundedSweep` | `[]IInv`, `SweepIsComplete`, `SweepIsBounded` |
| `PointerOutboxProofs!OutboxInvariant`, `NoSecondCopy`, `PublishedWasStored`, `RefusedIsNotStored`, `OutcomesStay`, `OutboxKeepsPromise` | if `StallsAreShort`: `[]IInv`, `[]AtMostOneCopy`, `[]PublishedIsStored`, `[]RefusedIsAbsent`, `OutcomesAreFinal`, `KeepsPromise` (a refinement) |
| `ActorLifecycleProofs!LifecycleInvariant`, `WorkOnce`, `AnswersTrue`, `AuthorityHolds`, `NoDeadlock` | `[]IInv`, `[]WorkDoneOnce`, `[]AnswersAreTrue`, `AuthorityAtCommit`, `[]NoWaitCycle` |
| `ActorLifecycleProofs!PromiseInvariant`, `LifecycleKeepsPromise` | `[]PromiseInv`, `Spec => KeepsPromise`, the refinement |
| `ControlStateProofs!ControlInvariant`, `HistoryLinear`, `ToldIsStored`, `NoBranchLost`, `CurrentFocusOpen` | `[]IInv`, `[]HistoryIsLinear`, `[]AnswersAreDurable`, `[]NoBranchIsLost`, `[]CurrentFocusIsOpen` |
| `ControlStateProofs!PeerFocusKept`, `OpenEventsStay` | `FocusIsNotEndedByPeer`, `OpenEventsSurvive` |
| `ControlStateProofs!ServiceKeepsPromise` | `Spec => ServesPromise`, the refinement |
| `SensingRuntimeProofs!RuntimeInvariant`, `TypeCorrect`, `SentOnce`, `LedgerTrue` | `[]IInv`, `[]TypeOK`, `[]SentAtMostOnce`, `[]LedgerIsTrue` |
| `SensingRuntimeProofs!PromiseInvariant`, `RuntimeKeepsPromise` | `[]PromiseInv`, `Spec => KeepsPromise`, the refinement |
| `SensingRuntimeProofs!ReadOnceHolds`, `ScopeRead`, `NotStale`, `ToldOnceHolds`, `VerdictRemembered` | `[]ReadOnce`, `[]ScopeReadOnce`, `[]GenuineIsNotStale`, `[]ToldOnce`, `VerdictIsRemembered` |

**The executor.** "At most one call" is not inductive: it must be known who may
call. `CallPart` says that exactly one thread stands between the reservation and
the provider's answer (`OneCallerInv`), that its admission has not been called
yet or is inside its only call, and that nothing of it is queued or applied
(`CallerInv`). A crash or an unconfirmed commit loses the thread but not the
durable attempt, so nobody can take its place. `ProviderPart` says that whatever
is queued or applied came from that call and that an applied correlation is not
settled. `AnswerPart` says that what a thread has read stays true: settlement is
irrevocable and the history only grows (`EvidenceInv`). A verdict is a function
of that evidence, so at the moment it is written, however late, it still holds.
The reading order, settlement first, is not needed for this argument: settlement
alone excludes a later effect, and an effect before the settlement is excluded
because the provider does not settle what it has applied. The observation adds
only that the executor refuses to decide when the provider contradicts itself.

`PreconditionHeld` (an effect applies on the version its batch was approved for,
whatever waited in the slow queue meanwhile) is inductive with the type
invariant: the only step that applies anything compares the version.

**The executor's promise.** `IInv` has what the simulation needs. A step of the
provider moves `called` or `effect`, a write of the store moves `answer`, and no step
moves both (`StoreOrProvider`). An effect that becomes applied or excluded was open
and, if applied, called (`EffectIsPromised`, from `ProviderPart`); an answer that is
written is warranted by the evidence of its writer (`WriteIsPromised`, from
`AnswerPart`) and replaces none, because no edge leaves a terminal state. All else
maps to a stutter.

**The ledger.** `LedgerVerifies` is inductive with the type invariant: what is
written takes a legal edge and is derived from the evidence that it carries
(`WriteIsLegal`), and a verified ledger extended by such an event is verified
(`ProvenanceExtends`, `ProjectionExtends`). `TriggersAccept` follows: what the
triggers demand of a write is what those lemmas use. Of `LedgerIsHonest` the two
halves differ. That no verdict is repeated is the comparison with the head, since
only `UNKNOWN_EFFECT` may follow itself. That "never recorded" is true rests on the
sequence number: a writer decided on a snapshot read transactions ago, and the store
compares only `seq`. `SnapshotInv` says that equal numbers mean equal rows, and
`ResultInv` that a row in flight without an ack has no result behind it.

**`_active`.** An admission is entered after its reservation and discarded at the
return, by the thread itself; the set would be wrong if two threads of a process
ran one admission's call. `HolderInv` excludes it: who is past `begin_attempt` of an
`execute` won the reservation, and a reservation lost with its thread is never
handed on (`StartedInv`).

**The fence.** `LockInv`: what a transaction has read equals the owner's row as
long as it holds the lock, and once checked it allows the batch. The proof that
the owner's step preserves it is the lock conflict. `KeyInv`: a transaction that
has inserted a key is the only one, and no admission holds it. Hence a key has one
admission for ever (`HeldStays`). Every answer about a key is drawn from that
admission (`ReplySteps`), so what was true when it was said remains so.

**The sweep.** `CursorInv`: everything owed at or below the cursor is listed, and
everything listed is at or below it. A short page contains all that is pending,
so at the tail nothing is owed.

**The publisher.** `AttemptInv`: at most one attempt of a pointer is exposed
(claimed, or with its request in flight), it is the row's current one, and it
ends within `WriteStall + PublishTimeout` of `claimedAt`. `SoundLookup`: a lookup
whose snapshot is still current, in a stream that lost nothing, whose last claim
was too old when the broker gave its final state, has proved that the pointer
was never stored and cannot be any more. A retry tests the age of the claim a
little later, at the decision; `StallsAreShort` (`WriteStall + PublishTimeout +
ReplyStall < ClaimStale`) is what makes the later test imply the earlier one. It
is an assumption about the machine, not a fact of the code, and without it the
theorem is false (section 6).

**The outbox's promise.** Three steps matter. A request that is stored is exposed, so
by `CopyInv` its pointer was never stored, and its row is neither settled by a
refusal nor by a publication (`LandIsPromised`). A row is moved by a publisher only
from an unsettled state, and to an outcome that its knowledge supports
(`PublisherIsPromised`, from `WorkerInv`). A message entering behind all others is
`CopyInv`'s bound. The theorem has the assumption of its invariant.

**The lifecycle.** Transactions are two-phase: `TransactionInv` says that what a
transaction has locked is still its own and, among parents and past the guard,
still active. A COMMIT in doubt keeps its locks, so this holds for one that lands
late. `StartInv` and `WorkInv`: a task's START is either in the references of the
aggregate that has the task, or the task is closed and cannot be admitted again;
the session whose START was committed is the only one licensed to work. For
`NoDeadlock` every row gets a rank (actor 0, rights 1, delegation 2, decision 3,
binding 4); everyone waits only for rows of a higher rank than those it holds,
so in any group the one waiting highest waits for nobody of the group.

**The lifecycle's promise.** What a session may do next is in the aggregate, what it
has done is in the promise's `done`. `MarksInv` ties them: a task that is consumed or
started has that transition among its references, so a FINISH that the aggregate
permits has its START behind it and a CLOSE its FINISH. That the work comes between the
two is not in the aggregate but in the episode, which reaches its FINISH only through
its work: `EffortInv`. The authority that the promise asks for is `TransactionInv` at
the COMMIT (`CommitIsPromised`); that one binding only is started is `StartInv`.

**The context service.** Every commit holds the project's row and the rows it
writes. `CallOK` therefore says of each call what it tested under these locks
(basis, peers, key) and how far its draft is from the stored project (`Drafted`).
What the operations do to the tree is proved apart, for any project
(`OperationKeepsBranches`, `OperationContinues`, `OperationEnds`): a child is a
descendant, so an end that leaves nothing unresolved below it leaves no branch
behind. Two such facts together give that a completion is one abstract step, the
core of `ServiceKeepsPromise`.

**The sensing runtime.** The invariants speak of *every state a crash may leave*.
For the ledger: once an event may be on the wire, each of them holds an intent or
a final outcome, since the intent is written before the publish and `NOT_SENT` is
only written for what was not (`WrittenInv`, `SendingInv`); hence the restart
cannot reopen a send. For the cursor: each of them has every claim of the memory
(`Knows`), because a claim that cannot be written is not made; and work done or
under way holds its scope in each of them until it is refuted (`HoldsScopes`).
A highwater never exceeds the owner's own sequence (`IsCurrent`), since only a
confirmed read raises it, so what is found behind it is behind the owner.
`LedgerIsTrue`, which no run checks by itself, says that `ACCEPTED` and `NOT_SENT` are
true in every such state.

**The sensing runtime's promise.** Between a check and the step that it is for, the
owner may commit, threads may run and the process may die; five facts carry over.
`AnnounceInv`: what a thread sends stays committed, because the owner's sequence only
rises. `WarrantInv`: for the same reason a verdict that was warranted at the read is
warranted when it is written, however late (`ResolveWarrants`, `CloseIsPromised`).
`FadingInv`: of a claimed event no state a crash may leave has another verdict than
the memory, only an open claim; hence a restart turns verdicts into the recovered hold
and nothing else. `ArrivedInv` and `EntryInv`: claims are of frames that arrived, and
entries of the ledger of frames of their event.

### Only model-checked

* liveness (`InFlightIsLeft`, `SettledIsClosed`, `AppliedIsReported`,
  `EveryUnresolvedIsListed`, `AmbiguousIsAnswered`, `CallsEnd`, `ClaimsAreClosed`):
  beyond the prover.

Every other property of a passing run is stated by a theorem.

The inductive invariants (`IInv`, `LedgerInv`, `ActiveInv`, `PromiseInv`) were checked by TLC before
they were proved and are not repeated as properties of the runs.

## 6. Disagreements between the code and its texts

Three runs are expected to find a counterexample.

* `finding_raises`: `execute` promises not to raise on storage trouble after the
  provider call (`DUR/executor_pg.py:87`). `_after` asserts that its re-read
  succeeded (`:261`) and has no fallback when the write did: an
  `AssertionError` leaves `execute`.
* `finding_declared_inside`: "never declare a call lost while this executor is
  still inside it" (`V1/executor.py:113`). The durable version checks `_active`
  first and writes later, and `execute` enters `_active` after the reservation:
  a declaration that checks in between is written during the call.
* `finding_second_copy`: "never a blind second publish, whatever the broker
  duplicate window" (`D1/publisher.py:11`). The age of the last claim is measured
  after the lookup. A process that stalls between the broker's final stream state
  and the decision takes a claim for stale that was not when the state was taken;
  an attempt that landed in between is published again, and once the duplicate
  window has passed the stream holds two copies.

Further differences, noted while modelling and not given a run:

* `ARCHITECTURE.md:45` of the durable executor lets a readback that finds the
  correlation end in `COMMITTED_READBACK`. When a second batch has overwritten the
  artifact the verdict is `READBACK_APPLIED_BUT_ARTIFACT_MISMATCH`, on every later
  recovery too (`V1/executor.py:36-39`). The notes of V0.1 give this case
  (`tests/v01_regression/original/ARCHITECTURE.md`, section 5: applied, but another
  artifact version, is `INDETERMINATE`), and its tests expect it, so the code is
  taken at its word: `AppliedIsReported` excepts overwritten targets, and only them.
* The owner's currentness is called monotonic (`V1/views.py:43`). The synthetic
  owner draws it before it holds the row, so two mutations may write theirs in
  the other order.
* `NAL/README.md:140` calls the answer of a read-back "proven no commit". While
  the transaction is in doubt the read-back says `NO_COMMIT_PROVEN`
  (`NAL/lifecycle.py:520`) and the COMMIT may land afterwards. The retry that
  follows waits for the actor's row and is then a replay, so nothing is done
  twice; this is why `AnswersAreTrue` speaks of the answer *committed* only.
* `standards/control-context-hierarchy.yaml:177` says that every session's active
  context is open. `_assert_no_other_session_invalidated` looks at sessions of
  the same principal only; the focus of another principal's session may end. The
  next `begin_event` of that session moves it. `FocusIsNotEndedByPeer` and
  `CurrentFocusIsOpen` are what the code keeps.

* `docs/ARKITEKTUR.md:36` of the sensing runtime says that a failed write of a
  verdict, a surfaced mark or a conflict is counted in
  `IngressResult.evidence_error`. `_terminal` compares the counter from its own
  start (`SV/receiver.py:230`), and the other two are written before it is called
  (`:133`, `:223`): only a failed verdict is reported. The model has no such
  result field; the failed writes themselves are in it.

None of them makes an answer untrue. The properties of section 3 hold as they are
stated there, which for `AppliedIsReported`, `AnswersAreTrue` and
`FocusIsNotEndedByPeer` is less than these texts say.

## 7. What is not modelled

Of the executor: the static refusals of `admit` (a function of the request
alone), the text checks of the triggers (column against canonical JSON, digest of
the canonical spec), grants and the writer key (capabilities inside one Python
process, modelled as "the thread that minted it"), `BatchSpec` validation,
canonical JSON, the libpq driver, the listing's integrity flags. The V0.1
in-memory executor is represented by the functions V0.2 takes from it.

Of the D1 adapter: outbox bytes that were tampered with, the wake callback (it
changes nothing), the receiver with its journal and turn lease, the production
runtime and its tokens. The NATS transport is external; the stream is modelled
from the in-memory transport.

Of the actor lifecycle: the in-memory store, tasks without provenance, expiry
dates of parents, and the fields that digest or describe. A task whose binding
is revoked before it is consumed keeps its actor: no transition leaves that
state, and the contract calls for owner intervention.

Of the context service: default bindings of a principal (`bind_default_project`,
`set_default_project`), bootstrap and commissioning, projects that are not
active, revisions of continuation bindings, reads without locks (a torn one is
caught by the fingerprint), and the tables of roles, generations, claims and
custody in the same schema. `lease_expires_at` of an event is stored and never
compared: an open event whose basis is gone stays open, in the code and in the
model.

Of the sensing runtime: everything that leaves no state (decoding, validation,
applicability, TTL), the flight recorder, activation decisions, the limit of
10 000 conflicts over all events, two frames of one event that differ in
provenance only, a file that is damaged other than at its tail (opening it
refuses), several receivers on one file (nothing in the code allows it), and its
other parts: A7 learning, the BK07 read front, context slices, adapters.

Of the repository (each is a row of "components" in `PROJECT.json`):

* owner state slots, assurance permits (`tooling/owner_state`,
  `tooling/assurance`): small compare-and-set and one-time use protocols;
  planned;
* SignalVev client, episode verifier, capsule tool, return
  bridge, hosts, validators, control-plane scripts, engines, modules, deployment,
  documents: sequential document processing, I/O and wiring, or policy text. They
  are most of the repository's lines; nothing in them interleaves, and a TLA+
  module could only repeat their tests.

## 8. Plan

Done, in this order: the executor with its ledger, provider, promise and
refinement; the fence; the sweep; the publisher; the lifecycle; the context
service with its promise and the proof of the refinement; the sensing runtime; the
proofs about the ledger and of the executor's refinement; the promises of the outbox,
the lifecycle and the sensing runtime, with their refinements.

Worth adding next:

1. The receiver of the D1 adapter: durable disposition before ACK, redelivery,
   one materialisation per closure key, the lease of the turn boundary; composed
   with `PointerOutbox` through the stream.
2. The roles, generations and claims of the context service's schema.
3. `OwnerState` and `AssurancePermit`.
4. Proofs: that the sweep implements a listing that is complete at one instant, and a
   promise of the fence over many keys composed with that of the executor.

## 9. Running it

    tlc -workers 2 -config ExecutorProcesses.cfg MCEffectExecutor.tla
    tlapm EffectExecutorProofs.tla

`ExecutorProcesses` has 731 thousand distinct states, `Outbox` 218 thousand,
`ControlState` 168 thousand and `Sensing` 124 thousand with liveness; each of these, and `Lifecycle`,
`Fence` and `ExecutorRecovery`, takes one to two minutes, the other runs seconds.
The proofs take a few minutes each from nothing.
