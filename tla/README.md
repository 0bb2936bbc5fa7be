# The triage agent, in TLA+

A verification project for `ai-k8s`: a worker that reads Security Command Center
findings from Pub/Sub, settles each one against a compiled corpus and, where the
rules do not match, with a model, records the verdict in a create-only ledger, and
emits a log entry the owner is alerted by. Paths are relative to `src/`.

Contents: [the system](#the-system), [the modules](#the-modules),
[the runs](#the-runs), [bounds](#bounds), [fairness](#fairness),
[what is proved](#what-is-proved), [disagreements](#where-docs-and-code-disagree),
[what is not modelled](#what-is-not-modelled), [the plan](#the-plan).

## The system

| Component | Source | State | Operations | What makes it correct |
| --- | --- | --- | --- | --- |
| Verdict ledger | `internal/ledger` | objects `<key>/<state>.json` | Write (create only), Furthest, Read | append-only; the furthest state never runs ahead of what it presupposes |
| Bucket adapter | `internal/gcp/storage.go` | the bucket | Create, Read, List | a create under the precondition; an error may hide a success |
| Triage worker | `internal/worker/worker.go` | the handling in progress, counters | Handle, triage, resume, recordFor, settle | nobody is missed, inference is not repeated after a durable verdict |
| Crash drill | `internal/worker/crash.go` | the flag | crashIf | what is on record at each boundary, first delivery or not |
| Decide and the settler | `worker.go`, `internal/model/settle.go` | none but the call | Decide, Settle, anchored | the model never quiets a finding, nothing unresolved or unanchored becomes a verdict |
| Verdict contract | `internal/verdict` | none | Classify, Insufficient, Validate, ResolveCitations | every record validates |
| Spend ceiling | `internal/model/spend.go` | mutex, day, cached total; `spend/<day>/` | Reserve, load | the day's calls cost at most the ceiling |
| Model client | `internal/gcp/vertex.go`, `internal/model/model.go` | none | BuildPrompt, EstimateTokens, Generate | a reply that is odd is a reply, an answer that is not 200 an error |
| Verdict log | `internal/gcp/logging.go`, `internal/notify` | the buffer | Emit, Flush, Notifies | accepted is the only quiet verdict |
| Finding parser and keys | `internal/scc` | none | Parse, Key, InScope | two events share a key only when they are one |
| Counters | `internal/worker/counters.go` | one struct, a mutex | Add, Snapshot | calls and errors account for the money; what is reported never overstates the ledger |
| Corpus | `internal/corpus`, `cmd/corpusc` | the index, read only at run time | Compile, Add, Validate, Lookup, Resolve | a pairing cites only what exists |
| Health probes | `internal/health` | started, lastSeen | Started, Seen, Ready, Live | a wedged loop is noticed, an idle one is not killed too soon |
| Evaluation | `internal/eval`, `cmd/triage-eval` | the run's decisions, its reservations, the committed result | LoadSet, Validate, decideAll, Judge, Summarize, Check | a stale result is noticed, nothing else is; every run is counted once; the model silences nothing |
| Worker command | `cmd/triage-worker` | flags, the probe server, the context | run, serveProbes | one message in hand at a time; SIGTERM loses nothing |

The parts meet in the worker. Pub/Sub leases a message to a process, which parses
it, reads how far its key got on the ledger, settles it if no verdict is there
(rules, then reservation, then model), writes `received` and `classified`, then, if
the verdict notifies, `notification_attempted`, emits the entry and flushes,
acknowledges, and writes `acknowledged`. Between any two of these a call may
fail (having done its work or not), the process may die, the lease may be lost,
and another process may be handling another delivery of the same finding. Each
message is handled alone in a process (`MaxOutstandingMessages = 1`); processes
overlap in a rollout. Processes share nothing but the bucket and the
subscription. The mutexes of `spend.go` and `counters.go` cover handlers that
run concurrently all the same, which the code provides for (`worker.go:37`).

Every hazard this code is exposed to is listed with its line in `PROJECT.json`.

## The modules

| Module | Models | How |
| --- | --- | --- |
| `Ledger` | the ledger over the bucket | `ledger[k][s]` is an object or `None`; `Created` is the create-only put whose `ErrExists` every caller ignores; `Furthest` is the list and the order |
| `Triage` | nothing: the promise | a finding gets one verdict, the owner is told if it notifies, then it may close |
| `Decision` | nothing: the promise of Decide | `Rulings`, the verdicts and settlers a finding may get, by what was parsed, mapped and configured. `Worker` takes verdicts from it, `Settle` is checked against it |
| `Worker` | Handle and everything below it | one action per call that leaves the process and per early return; `pc[w]` names the next call |
| `Settle` | Decide, the rules and the settler | one action per call and early return; a reply is any member of `Reply` |
| `Spend` | Reserve and load | the steps under the mutex of each process; `reserved[d]` is the sum of the objects of day `d` |
| `Corpus` | the corpus compiler, the index, and the worker's reading of it | one action per line or entry a loader takes; what the file says is chosen as it is read |
| `Scc` | Parse, scope, Key and pathSafe | operators on a finding whose name, time and state are sequences of characters |
| `Counters` | what Handle counts, what is reported of it and what is lost | extends `Worker`: each of its actions with the counters it moves, and the snapshots beside them |
| `Deployment` | the worker in its Pod: `run`, the probes, the kubelet, the idle clock | extends `Worker` and `Scc`: processes that start, open, hang, are told to stop and are killed |
| `Score` | Judge and Summarize | operators on a case and its judged runs |
| `Eval` | `triage-eval`, the header of a result, and Check | one action per decision and per edit of the tree the result is held against |
| `WorkerProofs`, `SettleProofs`, `SpendProofs`, `CorpusProofs`, `EvalProofs` | | theorems and inductive invariants of each |
| `SoleProofs` | | what a worker that runs alone guarantees besides; extends `WorkerProofs` |
| `DeploymentProofs`, `CountersProofs` | | the two compositions on top of `Worker`; both extend `SoleProofs` |
| `MCWorker`, `MCCounters`, `MCDeployment`, `MCEval`, `MCSettle`, `MCSpend`, `MCCorpus` | | the small instances TLC checks |

`Worker` is the centre: `Ledger` and `Decision` are below it, `Counters` and
`Deployment` are compositions on top of it, `Settle` refines its `Decide`, `Corpus` supplies what
`Settle` resolves against, `Scc` the bodies it takes, and `Eval` calls the same `Rulings`. `Spend`
is what `Settle` asks for a reservation.

### Worker, action by action

| Action | Code |
| --- | --- |
| `Pull`, `Ack`, `Nack` | the receive loop, `main.go:181-197`, and the two outcomes of a message |
| `Expire`, `LoseLease`, `Requeue` | Pub/Sub: leases that run out, and the dead letter policy (after five attempts in production, `corpus/controls.yaml:55`) |
| `Refuse`, `Skip` | `worker.go:71-84`: unreadable bodies, vulnerabilities |
| `Resume`, `Drop` | `resume`, and the early return for a key already acknowledged |
| `Load` | `recordFor`, with a verdict on record |
| `Decide` | `settle`: any record of `Outcomes`, in one step (its own steps are in `Settle`) |
| `Receive`, `Classify` | the two writes of `recordFor`; the first only when nothing was on record when `resume` looked |
| `Attempt`, `StayQuiet` | the attempt write when this handling still has to make it; the quiet path |
| `Emit` | `VerdictLog.Emit` with its flush |
| `Acknowledge`, `Close` | `m.Ack()`, then the write whose failure is only logged |
| `Fail` | any call that returns an error, having done its work or not; Handle nacks |
| `Crash`, `Drill`, `Start` | the process dies anywhere, or at its drill boundary, and is restarted, under a drill flag or without; a start under a flag counts as a fault |

A message is its key, a digest and a form, which `MCWorker` has `Scc` parse from the finding it carries: *unreadable* (no
envelope or no canonical name), *vulnerability* (out of scope), *partial*
(Parse reports missing fields) or *complete*. A record is a verdict, which half
settled it, and the digest: what tells two records apart for the properties. The
digest read in `resume` moves the drift counter and a log line only, and is left out.
`emitted` has only entries that were flushed or delivered by a flush that failed.

Within one handling, writes are separate actions, because another worker or a crash
may come between. A list and the decision taken on it are one action: no other
state of the process changes between, and the ledger only grows.

### Settle, action by action

`Take` is the call, `Rule` the rules (`Classify`, `Insufficient`), `RefuseLong` the
estimate over budget, `Reserve`/`RefuseCeiling` the answer of `Spend` (`Spend.tla`
says which is given when), `Generate` the call, `Abort` an error from either,
`Read` all the checks on the reply in the order the code makes them (`WhyNot`,
`Objection`), `Check` the validation in Decide and the counters of `settle`.
A reply's `bill` is what its tokens cost, input, output and thought, within the worst case its call
was reserved at or beyond it. It does not depend on `over`, which is about the input: a reply may be
billed beyond the worst case by its output alone, since nothing compares that with a limit, and one with too
long an input may still be cheap. A record's `cost` is the stamp in its provenance; of the
stamp nothing else is kept.
Citations are a set of corpus ids and invented ones; an entry's `applies_to`
prefixes are the set of resources they cover. The index is one that passed
`corpus.Unmarshal`, so its pairings cite entries only. A record is valid by its
verdict; the fields `baseRecord` defaults are never blank and are left out. The
branch "even the refusal does not validate" is not modelled: `InsufficientSound`
proves that it cannot be reached.

### Spend

A caller is a handler; `Lock` takes the mutex and reads the clock, `Load` sums the
day's objects (objects are never changed, so what the list returned fixes the sum),
`Create` stores the reservation, `Grant` adds it to the cached total and returns true.
`Fail` is any storage error, after the object was stored or before. `Tick` moves the
day in either direction. A process starts with nothing cached. `granted[d]` is a history
variable: what was allowed on day `d`.

### Corpus, action by action

`Open` begins the next of the five sources, `Unreadable` is any path, read or decode
error. `Checkov`, `Row` and `Section`, `DecisionHeading` and `DecisionLine`, `Control`, and
`Map` take one entry or line; `End...` is the end of a file with the checks the loader
makes there. A line none of them describes changes nothing and has no action. An id is a
kind and a name; `Malformed` is any name `ParseID` refuses. `Blank` is what
`TrimSpace` makes empty. A heading without text and a second level heading both flush
and leave no heading, so both are `DecisionHeading(Blank)`. `lines` is what was read of
the current source: the bound, `LoadControls`'s emptiness check and the reference
definitions read it. An abandoned build keeps nothing, as Compile returns no index.
`SkippedDecisions` is a set, since only who is in it matters. `Write` is corpusc, `Damage` an index
file that lost an entry, `Serve` `Unmarshal` at the start of the worker. `Settle` starts from what is
served: `Mapping` there is `Resolve` here, and `PairingsPrice` with `ControlsAnchor`
are what its `CorpusAssumption` stands on.

### Counters

`Moves` has one disjunct for each call of `Worker` that moves a counter, `Silent` the rest. The
counters are in the memory of a process, and what leaves it are snapshots: `Report` is the ticker of
`main.go:223-237`, at any time, and `Stop` a SIGTERM that finds the worker idle, or idle again, which logs a last one
(`main.go:199-200`). `Vanish` is every other end (a kill, the drill, a `Receive` that fails by itself): what was counted
after the last snapshot is gone. `published` and `unlogged` are history variables, read by the property only:
the last snapshots of the processes that are gone, added up, and whether one of them had counted more than it
logged.

`count` is in the step that writes `classified`, since nothing can come between; when that write
stored its object and reported an error, the verdict is never counted, which is why `CountsMatchLedger` allows
one uncounted verdict per fault. A process that vanishes may take any number of verdicts with it; then, and
for good, the reports may fall short of the ledger by as many, and the property says no more than that they never
exceed it. For two overlapping workers they may even exceed it, as both count a verdict of which one was
stored; the property is about a worker that runs alone.

### Deployment, action by action

| Action | Code |
| --- | --- |
| `Boot`, `Open` | `main.go:103-191`: the probe server starts first, `Started` comes once the clients are open |
| `Deliver` | `main.go:192-194`: `Seen`, then `Handle` |
| `Work`, `Falter` | the actions of `Worker`: a call that returns, one that fails, a crash |
| `Hang` | a call that never returns |
| `Terminate`, `Cancel`, `CloseUnrecorded`, `Exit` | SIGTERM: the context is cancelled and the probe server shut down; calls under way return an error, having done their work or not, or succeed; the close of an acknowledged message may go unrecorded; `Receive` and `run` return |
| `LoseServer` | `main.go:255-257`: the probe server stops and only a log line says so |
| `Kill` | the kubelet, on a liveness probe that fails or goes unanswered |
| `Tick` | the clock, for `Live` |

`age[w]` is the time since `lastSeen`, capped at the limit. A tick is a fraction of
`-idle-limit`, a day in the deployment: longer than any call with a deadline, so `Tick` waits for
handlers that are not stuck. `lastSeen` before `Started` is the zero time, which is older than any limit;
`Live` does not look at it then. `Raw[m]` is the finding of message `m`: `RawAssumption` says that what
`Worker` acts on is what `Scc` parses from it.

### Eval, action by action

The tree is what a result depends on: cases, findings library, this repository's half of the
corpus, k8-lab's half, the compiled-in instruction and schema, and the parameters. `Edit`
changes one part at any time. `Load` is everything `run` does before the first
decision, `DecideOne` one call of `decideOne` with its `Judge` (`Unreadable`, `Uncalled`,
`Called`), `Midnight` the UTC day of the reservations, `Finish` the scoring and
the commit. The rules alone are deterministic and make no call, so they are computed at once
(`Rules`). A body is a function from dotted paths to values; `derive` applies `set` and
`delete` as `walk` does, the objects made and left empty included. A digest is what it is a digest of.
`committed.of` is a history variable: the tree the result came from.

## The runs

| Run | Question | Bounds |
| --- | --- | --- |
| `WorkerSingle` | Does one worker keep every promise through redelivery, drift, failures, crashes and drills? What is on record at each drill boundary? How far can the reported counters be from the ledger? | 2 findings, one delivered twice, with another body and a field gone; a vulnerability; snapshots at any time; 2 faults, 3 delivery attempts, all boundaries |
| `WorkerOverlap` | Do two workers of one image, every interleaving? | 2 workers, 2 findings, one with two bodies, 1 fault, symmetric; by `VIEW`, states that differ in the counters alone are one, since no action reads those |
| `DeploymentLive` | Does every finding settle, whatever hangs, stops or is killed, and an unreadable body survive? Does a probe ever end a worker at work? Do two events of one finding stay apart? | 1 worker, 2 events of one finding, 1 vulnerability, 1 unreadable body; idle limit of 2 ticks; fewer faults than deliveries |
| `CorpusBuild` | What becomes an entry, which builds fail, what is served? | files of 1, 3, 4, 1 and 1 lines of any content; 2 names, 4 headings, 3 pairings |
| `SettleModel` | What may become a verdict, against every reply? | 2 findings in a row, all 1296 replies |
| `EvalRun` | Does a result that passes the check describe the tree? Is only what matters stale? Do the scores add up? | 4 cases decided twice, one call a day under the ceiling, 2 edits at any time, among 15 versions of 6 parts |
| `SpendOne` | Does the ceiling hold for processes one after the other? Is every caller answered? | 2 processes, 3 handlers, 2 days, a ceiling that 2 calls meet exactly, 2 faults |
| `WorkerRollout`, `WorkerDrift`, `EvalParams`, `SpendOverlap`, `CorpusDecisions` | Where a comment or the README says more than the code does | see below |

`CHECK_DEADLOCK FALSE` in the worker, settle, eval and corpus runs: the worker stops when every message
is acknowledged or dead and the faults are spent, Decide when no finding is left, an evaluation
when it is committed and the edits are spent, and a build when it has failed or its index is
served. `DeploymentLive` checks deadlock: a process in a Pod never has nothing left to do.

Each property has a mutant: a definition changed as a plausible bug would change
it, placed beside the original with a `Mutant:` comment, under which TLC finds the
property violated.

### Properties worth a word

- `NoMissedNotification`: the contract of `worker.go:6`. Closing is either an acknowledged
  message or `acknowledged` on record; both must imply a verdict, and an entry if it notifies.
- `KeepsPromise`: the refinement of `Triage`. `verdict` maps to the record under
  `classified`, `told` to whether anything was emitted, `closed` to `Closed`.
- `EmittedAsRecorded`: holds for a sole worker. It fails for two, where the loser of the race for
  `classified` emits its own record.
- `DeliveriesAccounted`: a message that can be keyed is delivered once plus once per
  fault, so nothing reaches the dead letter topic of the worker's own doing.
- `VerdictStands` and `Rulings` tie `Settle` to `Worker`: the atomic `Decide` of
  the latter is everything the former can produce.
- `DecisionsAsWritten`, `FindingsRowsOnly`: the loaders' automata against declarative definitions of
  what a file says, over every file within the bounds.
- `PairingsPrice`: relates what the worker serves to what was reviewed, across a file
  that may have changed in between.
- `CallsCounted`: a call is counted, as completed or failed, before Decide returns.
- `OverrunsOnRecord`: a call may be billed beyond what was reserved for it. Refused or taken, it
  leads to a record that carries what it cost, and no other record carries a cost; for a taken one that is
  the only trace of the overrun. Of a call that returns an error there is none.
- `DrillBoundaries`: the drill exists to test recovery, so a boundary is also reached on a delivery that
  resumes what an earlier failure left. The property says what is on record, in the log and outstanding
  then: more than the comments at two of the boundaries allow (see below).
- `EveryFindingSettles` in `DeploymentLive`: through a call that hangs for ever, a SIGTERM between any two
  writes or a probe server that stopped, every finding is acknowledged with a verdict.
- `KillSparesWork`: the kubelet ends a process that answers its probe only when the loop runs
  and waits for a message longer than the limit, or hangs. That an idle worker is restarted is what the code does
  (`README.md:130`), and the property allows it.
- `EventsKeptApart`: relates what is acknowledged to what was ruled on, through the key: a
  finding is never closed on the verdict of another event.
- `FreshMeansSameQuestions`, `RulesReproduced`, `OthersStayOut`: the two directions of a digest.
  What passes the check is what would be asked and scored today, whatever was edited while
  the evaluation ran; what it does not draw on leaves the check as it was.
- `ModelSilencesNothing`: relates every run with the model to the run of the rules alone on the same case:
  if either accepts, they are one and the same, in every repeat, whatever label the case's answer gives
  it and whatever was refused or failed in between.
- `CountsMatchLedger`: relates what a worker logged, in any number of processes, to what is on the ledger.

## Bounds

`MaxFaults` counts failed calls, crashes, starts under a drill flag, lost
acknowledgements and leases lost under a handler. Two faults reach a failure during the recovery of a failure, which is what
the state on the ledger has to survive; each fault restarts the handling from the
ledger, so a third finds one of the same ledger states. `MaxDeliveries` bounds
redelivery as the subscription does. Two messages of one key are enough for a
duplicate and for a drift; `WorkerSingle` has two such keys so that handling of one
interleaves with the other's redelivery. Three handlers in two processes, with a
ceiling that two calls meet exactly, are enough for two waiters on one mutex and for a
restart with a day half spent. An idle limit of two ticks tells a message that has just come from one
whose time is up; one fault is a hang, a SIGTERM, a lost server, or one of `Worker`'s. The names in
`MCWorker` have a run of four dots, a double slash and a character pathSafe does not keep. Two
decisions per case make a case that wavers; one call a day makes a run that is refused for the
ceiling, and one that goes on after midnight. One category and two resources in `MCSettle` give a
finding that is priced, one that is not, a control that anchors and a decision
that does not. `MaxTurns` is two, so that nothing of one finding leaks into the next.
Four lines of decisions.md hold a
heading that flushes the one before it, and two Decision lines under one heading; three of the
threat model a row inside the table and one before it (one after it takes a fourth line, which
`FindingsRead` covers); one line each is enough for the
loaders that keep no state from entry to entry. The headings share an anchor, have one of their own, or none.
The theorems have no such bounds: they hold for every value of the constants.

## Fairness

`Deployment!DFairness`: the kubelet restarts what is down and kills what fails its liveness probe, a
process opens its clients, makes its next call unless it hangs, and exits when it was told to
stop; time passes; Pub/Sub expires abandoned leases. Weak fairness suffices for these: each
stays enabled until taken. A waiting message is delivered under strong fairness, since a restart, which the
idle deadline may cause again and again, disables delivery in between. No fairness on
`Fail`, `Crash`, `Hang`, `Terminate`, `LoseServer`, `LoseLease` or `Cancel`.
`EveryFindingSettles` needs `MaxFaults < MaxDeliveries`: with more
faults than deliveries a finding is dead lettered, as the subscription says. It also
rests on clients that open or fail to: while they open `Live` stays true, so nothing would
end a call that hangs there, and `Hang` leaves that case out. With `IdleLimit = 0` (`-idle-limit 0`) it
does not hold.

`Spend!Fairness`: weak fairness on a handler's steps under the mutex, strong
fairness on taking it, since a Go mutex in starvation mode hands over to a waiter of more
than a millisecond. The midnight tick may recur for ever.

## What is proved

Machine-checked with TLAPS, for any number of workers, messages, keys, faults,
corpora and prices. From the named assumptions on the constants, and nothing else unless it is
stated in the theorem.

| Theorem | States |
| --- | --- |
| `WorkerProofs!TypeCorrect` | `[]TypeOK` |
| `WorkerProofs!LedgerOrdered` | `[]LedgerShape` |
| `WorkerProofs!AttemptsRecorded` | `[]AttemptBeforeEmit` |
| `WorkerProofs!NothingMissed` | `AgreedPricing` implies `[]NoMissedNotification` |
| `WorkerProofs!DeliveriesPaid` | `[]DeliveriesAccounted`, for any number of workers |
| `WorkerProofs!PromiseKept` | `AgreedPricing` implies that `Worker` implements `Triage` |
| `SettleProofs!TypeCorrect`, `VerdictsStand`, `OnlyMappingQuiets`, `ContradictionsAnchored`, `CallsPaidFor`, `OverrunsShow`, `CallsAccounted` | the invariants of `Settle`, for any corpus and any reply |
| `SoleProofs!TellsTheRecord`, `DrillsHold`, `InferredOnce`, `ClosedIsQuiet` | `Alone` implies `[]EmittedAsRecorded`, `[]DrillBoundaries`, `NoInferenceAfterVerdict`, `ClosedStaysQuiet` |
| `SoleProofs!NothingMissedAlone`, `PromiseKeptAlone` | `Alone` implies `[]NoMissedNotification` and the refinement of `Triage`, without `AgreedPricing` |
| `CountersProofs!CountsAgree` | `[]CountsMatchLedger`, for a finite set of workers, through any number of processes and reports |
| `DeploymentProofs!PodMissesNothing`, `PodKeepsPromise` | `AgreedPricing \/ Alone` implies `[]NoMissedNotification` and the refinement, in the Pod |
| `DeploymentProofs!PodAlone` | `Alone` implies `[]EmittedAsRecorded`, `NoInferenceAfterVerdict` and `ClosedStaysQuiet`, in the Pod |
| `DeploymentProofs!PodDeliveriesPaid` | `[]DeliveriesAccounted`, in the Pod, for any number of workers |
| `DeploymentProofs!ProbeSparesWork` | `KillSparesWork`, for any idle limit and number of workers |
| `DeploymentProofs!EventsApart` | `KeysTellEvents` implies `[]EventsKeptApart` |
| `DeploymentProofs!KeysClean` | `FieldsSpelled` implies `[]KeysSafe`, for fields of any length |
| `CorpusProofs!TypeCorrect`, `PairingsResolve`, `ControlsApply`, `SourcesRead`, `FindingsRead`, `DecisionsRead`, `NothingReplaced` | the invariants of `Corpus` and its action property, for sources of any length and content |
| `EvalProofs!RulesHalfStands`, `FreshStands`, `RunsAddUp`, `NothingSilenced`, `OthersStand` | the invariants of `Eval` and its action property, for any cases, corpora, edits and number of repeats |
| `SpendProofs!TypeCorrect` | `[]TypeOK` with mutual exclusion in each process |
| `SpendProofs!RefusalsSound` | `RefusedOnlyAtCeiling`, overlapping processes included |
| `SpendProofs!CeilingKept`, `CallsReserved` | `~Overlap` implies the ceiling and the reservation |

The hypotheses some theorems state, and why each is needed:

- `AgreedPricing`: the images that run price each finding alike. `WorkerRollout` is what it excludes.
- `Alone`: no two workers, as with the Deployment's one replica outside a rollout. Its process may
  crash, restart and be delivered anything again, with another body. For two workers
  `EmittedAsRecorded`, `NoInferenceAfterVerdict` and `ClosedStaysQuiet` are false, by the race for `classified`.
- `KeysTellEvents`: two findings that arrive under one key are one event. `pathSafe` writes different names
  alike, so this is about the findings and not about the code.
- `FieldsSpelled`: the name, the time and the state of a complete finding have a letter or a digit each;
  a name that is one slash leaves an empty segment.

The argument for the worker has three layers. `TypeInv` says what is held in each phase.
`OrderInv` adds, for each worker, what its phase establishes about the ledger (after
`Classify` there is a verdict, before `Emit` an attempt) and that what `state[w]` names was
there: the ledger only grows, so no other worker can falsify it, which is why
`LedgerShape` and `AttemptBeforeEmit` need no assumption at all. The third layer is `TellsInv`: whoever is
about to close a finding has told of it, if the verdict on record notifies.
`NoMissedNotification` and the refinement both follow from it. Two inductive invariants give it:
`PricedInv`, by which whatever is on record or in hand agrees with the one pricing of the
finding, under `AgreedPricing`; and `AloneInv`, under `Alone`, by which a sole handler acts on the very
record under its key (`Knows`: nobody writes there while it is at work, so what `resume` read still
stands). `NoMissedNotification` by itself is not inductive: it speaks of closed findings only, and the step
that closes one needs to know what its worker holds.

All of these are proved over `Wider`, the steps of `Next` whether or not a fault is counted
for them. A SIGTERM that cancels a call is, to the ledger, a call that fails (`Errs`); a kill is a
process that ends (`Ends`); a tick is no step. So `PodWider`, by which each step of `Deployment` is
one of `Wider`, carries every one of these invariants over to the Pod.
`HealthInv` adds that a handler that is not stuck has an age of zero: the clock waits for it. `OriginInv`
adds that every verdict on record or in hand was reached for a message of that very key.

`KeysClean` is about sequences of any length, without induction: `Keeping` is defined by the rank
of each position kept, `Enumeration` says that the ranks number the positions in order (an injection between
finite sets of one size), and then two neighbours in what `Collapse` keeps have nothing between them.

For the deliveries, `PaidFor(S)` counts what each message has had, what it is due, and the processes
of `S`, whose end will cost one more, against the faults. For `Worker`, `S` is the processes a drill
will still stop (`Armed`). For the Pod it is `Marked`: those too, and the ones that hang, have no
probe server, or are told to stop with a message in hand, since the fault that did it comes before the delivery it
costs. `HealthInv` says that the probe adds nobody to them. `LoadingInv` is there because a `Load` that found nothing would refuse the
delivery at no fault. For the counters, `CountedInv` ties what can be known of a count, logged
or in memory, to a set on the ledger. A step moves one count with what it stores (`Moved`), stores
under a fault, or leaves what is known as it is (`Kept`): a snapshot does, and so does the end of a
process that logged all it had; an end that did not is `unlogged` from then on.

For the drills, `DrillInv` follows a sole handler from `resume` on: the ledger of its finding is as far as
it was read (`Reached`), then as far as the handler took it. No attempt is on record
for a verdict that does not notify, since only a handler that notifies writes one.

For `Settle`, the invariant `Inv` carries that a finding beyond the rules is unmatched and
complete, and that a record after the ruling is `Sound`; `BookInv` knows which call is
still on its way to the counters. For `Spend`, the cached total of a
running process is at most what the bucket holds (`CacheInv`), and without overlap
covers what was granted and what is being granted (`GrantInv`).

For `Corpus`, `BuildInv` says of a build that has not failed what each source it passed
left behind, and `SourcesPresent` follows at the end; a collision can only be told
at the step that adds, which is why `NothingReplaced` is an action property. What the scans compute is an
invariant of the lines read so far. `ThreatScan`: the flag is set exactly in the table, and what is loaded
is the findings of those lines. `DecisionScan`: all but the last heading are dealt with
as written, and what is in hand is the last one (`Held`). The induction over the file is
the one over the steps.

For `Eval`, `Inv` says that a committed result carries the header and the rules' half of the one
valid tree it was loaded from, whatever was edited meanwhile, and that each run is among what
`decideOne` may return on its case. The rest is about operators: two trees with one digest of
the cases have the same derived bodies, and the rules read this repository's half alone. For
`NothingSilenced`, accepted is exactly what is said of a matched body, with the model or without, and such a
run has one outcome, in which nothing is called (`AcceptedRun`). For `RunsAddUp`,
the runs are finitely many, each is `Scored` (right, or one kind of mistake) and of one kind of case, and
`Tally` adds up a set from its parts: a bijection glued from one for each part, again without induction.

Only model-checked: liveness (`EveryFindingSettles`, `UnreadableIsKept`,
`EveryAskAnswered`), which the prover does not reach. Every invariant and every action property of the
passing runs is a theorem.

## Where docs and code disagree

| Run | Said | Done |
| --- | --- | --- |
| `WorkerRollout` | `worker.go:6`: no missed notification; `storage.go:33`: two workers are safe; `ledger.go:67-68`: a loser reads the one object | the loser ignores `ErrExists` and acts on its own record: one with a corpus that accepts the finding acknowledges it, while the winner dies before emitting |
| `WorkerDrift` | `worker.go:151`: drift is recorded without inference | with only `received` on record the moved body is settled, by the model too |
| `EvalParams` | `README.md:168-169`: CI fails when the parameters moved since a result ran | the check digests the prompt with the result's own parameters, and compares them with nothing |
| `CorpusDecisions` | `markdown.go:149`: a decisions.md that carries no Decision line is an error | the check looks for an empty index, which it never is under Compile (`SourcesRead` is why): the file compiles to no decisions. A defect; the loader called by itself has the check |
| `SpendOverlap` | `spend.go:28`: the ceiling holds across restarts | two processes alive at once each spend against their own total |

More have no run of their own:

- `worker.go:192` and `README.md:98` call `received` the first thing written; it is, but only after the
  model has been paid, so a crash during the call leaves no trace of the delivery.
- `counters.go:21` calls a model error a call that did not complete, while a reservation that
  fails (`worker.go:245-247`) counts as one with no call made.
- `README.md:47` gives "resolution matched" as a condition of `contradicts_decision`; the model's
  contradictions have `corpus_match: none`, as `record.go:144-145` says.
- `worker.go:189` and `:241-242` say that nothing is on record yet. `received` is, when a receipt
  survived a crash or a failed write and the finding is settled again, at the drill's boundary as well.
- `worker.go:111` says that nothing has been notified yet. A verdict read back from the ledger may have
  its attempt on record, and an entry out, when the drill stops there. `DrillBoundaries` says what holds.
- `spend.go:28-29` has spend at most what is reserved. A reply that reports more input than the budget is
  refused after it was billed (`settle.go:88-91`). One billed for more output, thought tokens
  included (`vertex.go:132-134`), is compared with nothing and refused by nothing: the cost on its
  record is all there is to tell. The bill of a call that does not return is nowhere.
- `finding.go:111-112` collapses empty segments; a partial finding without `eventTime` or `state` gets
  a key with an empty one, and two such events of one finding share it.
- `main.go:66` of triage-eval calls the ceiling the most a run may reserve; reservations are by UTC
  day, so a run over midnight may reserve it twice.
- A result of the rules alone has no prompt digest and is stale whenever it is checked.
- Runs refused for the ceiling are judged as abstentions, and unreadable bodies as failed calls.
- `PromptDigest` covers the instruction, the schema and the parameters, and neither the text around
  the two blocks (`model.go:145-150`) nor the input budget, on which an answer depends as well.
- `Set` is a Go map, so two of its paths of which one is above the other are applied in either order,
  under one digest. `EvalAssumption` excludes such cases; the committed ones have none.
- `worker.go:37` says the client calls Handle concurrently; `main.go:186` allows one message.
- A verdict whose write reported an error after it was stored is never counted; two workers
  that race count two.

## What is not modelled

JSON and YAML decoding, `Anchor`, and the encoding of records and prompts are text
handling; an anchor is given per heading, and a prompt is what it shows. Labels, severity and the
monitored resource are layout, as are flags and
the tables `triage-eval` prints. Amounts are integers: rounding of `float64` is not modelled.
Characters are a small set of letters, the punctuation pathSafe keeps, and anything else; the digest of
a body is a label. Concurrent settling within one process is modelled for `Spend` only. Clients that
fail to open are a crash. The count by verdict and the drift counter, `Modal`, latencies, tokens
and costs of an evaluation are left out: nothing is decided on them.

`Settle`, `Spend` and `Worker` are not composed into one state space. What each takes from
the other is an interface both are checked against: `Rulings` between `Worker` and `Settle`, the
answer of `Reserve` between `Settle` and `Spend`.

## The plan

1. Done: `Ledger`, `Triage`, `Worker`, `Decision`, `Settle`, `Spend`, `Corpus`, `Scc`,
   `Counters`, `Deployment`, `Score`, `Eval`, their runs, and the proofs above.
2. Done: a theorem for every invariant and every action property the passing runs check.
3. Done: the deliveries counted in the Pod as well, where a hang, a SIGTERM or a lost probe server pays in
   advance for the delivery that ends with the process.
4. Next: the ceiling under `Settle`, with the answer of `Reserve` given by `Spend` call by call.
