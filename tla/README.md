# Verification of the microgrid dispatch service

TLA+ models of the Go service `ejina-microgrid` (the dispatch backend of a
microgrid: inspections, repairs, black start and grid synchronisation), the TLC
configurations that check them on small instances, and proofs of their main
properties for every value of the constants.

Every definition is translated from the Go code; `PROJECT.json` maps it to the
lines it stands for. Paths below are relative to `src/`.

## 1. The system

One process, all state in memory. HTTP handlers run on a goroutine per request
and call one method of `app.Service` each; a scheduler goroutine calls three
methods on every tick; `main` waits for a signal and shuts the HTTP server
down. `Service.mu` is meant to make every multi-step method atomic; the store
has a lock of its own, taken for each single call; an SMS deliverer and a
backup-team notifier are function hooks called under `Service.mu`.

| component | state | operations | interacts with |
|---|---|---|---|
| Black start and synchronisation (`internal/app/blackstart.go`) | `store.blackStarts`, `store.gridConns` | Initiate, Start, RestoreBus, RequestGridConnection, Sign, SynchronizeGrid, Complete, ReportNetworkInterrupt, RestoreNetwork, FailExpired | outbox (every step sends), loads (a request sheds), clock (deadline), scheduler |
| SMS outbox (`internal/app/sms.go`) | `store.smsMessages`, links in the black start | enqueue, resend | black starts, deliverer hook, scheduler |
| Loads (`internal/domain/load.go`) | `store.loads` | seed, register, shed | grid-connection request |
| Repair closed loop (`internal/app/repair.go`) | `store.workOrders` | dispatch, accept, start, worsen, complete, cancel, escalate | inspections and reports open orders, notifier hook, clock, scheduler |
| Inspections and reports (`internal/app/inspection.go`) | `store.inspections` | create, record a result, report an anomaly | work orders, cabins |
| Battery cabins (`internal/app/service.go`, `internal/domain/entity.go`) | `store.batteryCabins` | register, telemetry | thermal rule; a report evaluates it as well |
| Power stations, diesel generators | write-once registries | register | none |
| Service lock and hooks (`internal/app/service.go`) | `Service.mu` | lock, unlock | everything above |
| Scheduler (`internal/scheduler`) | ticker, cancellation | loop, tick | the three sweeps |
| Process (`cmd/server/main.go`) | signal context | start, shutdown | scheduler, HTTP server |
| Domain rules (`internal/domain`) | none | three transition tables, predicates | all workflows |
| Store, identifiers, clock | the maps; a counter; time | Save, Put, Get, List; Next; Now | all workflows |
| HTTP transport (`internal/transport/http`) | none | decode, call, encode | Service |
| Configuration (`internal/config`) | none after start | defaults, file, environment | read by `main` at start; constants of the others |

### What is hard, and what makes each part correct

- **Two writers, one outage.** Dispatchers, the scheduler and late operators
  act on the same black start: at most one may be active, a bus restored after
  the deadline may not count, and every step sends its instruction once.
- **Two records, one fact.** A black start and its grid connection refer to
  each other and are closed together, while a second request may supersede the
  first connection and leave it open.
- **Statuses computed past the table.** Signing, acceptance, escalation and
  dispatch assign a status without asking the transition table.
- **Delivery that fails.** A message stays pending until a retry succeeds, and
  only an immediate success is linked to the black start.
- **Acceptance against escalation.** Both may happen once the timeout has
  passed, never before, and the first acceptance is final.
- **Worsening.** It can repeat and nest; each one owes an associated order and
  a call to the backup team.
- **Latching alarms.** A cool reading must not undo an alarm.
- **One lock.** Nobody may be starved by it, leave it locked, or keep shutdown
  from ending.
- **Readers outside the lock.** Reads, registrations and the clock do not wait
  for `Service.mu`: between two store calls of a method they may see half of it,
  and what they see must still make sense.
- **Answers.** A call that repeats an earlier one is answered with success from
  the record alone. What the method returns must be true at its return; by the
  time the handler has written the answer the record may have moved on.
- **Durations.** Seconds from the configuration file are multiplied to
  nanoseconds and may overflow.

`PROJECT.json` lists these and more as `hazards`, each with its line and the
properties aimed at it.

## 2. The modules

| module | models | proofs |
|---|---|---|
| `Store` | a collection as a function from identifiers to records; fresh identifiers | |
| `Domain` | transition tables, deadline, signatures, shedding, thermal and charge rules | `DomainProofs` |
| `Outage` | abstract: what a response to an outage promises | |
| `BlackStart` | black starts, grid connections, outbox, loads; implements `Outage` | `BlackStartProofs`, `OutageProofs` |
| `BlackStartSteps` | the same calls one store call at a time, from the handler's call to its return; implements `BlackStart` | `BlackStartStepsProofs` |
| `Callout` | abstract: what a called-in repair job promises | |
| `RepairLoop` | cabins, inspections, reports, work orders; implements `Callout` | `RepairLoopProofs`, `CalloutProofs` |
| `Config` | how defaults, file and environment make a configuration | `ConfigProofs` |
| `Server` | request goroutines, scheduler, `main`, `Service.mu` | `ServerProofs` |
| `MCBlackStart`, `MCBlackStartSteps`, `MCRepairLoop` | the values of constants that a `.cfg` cannot write | |
| `MCServer` | `Server` with the configuration it starts with | |

**From code to model.** A store map is a function from the identifiers saved so
far to records; a Go zero value is a named constant (`NoGridConn`,
`NoWorkOrder`, `Nobody`) or 0 for a zero time (the clock starts at 1). A method
that holds `Service.mu` from its first line to its last is one action, with
everything it writes: `RequestGridConnection` files the connection, moves the
black start, sheds all loads, enqueues and perhaps delivers the message. That
one step is justified by `Server`, where `OneInside` is proved, and by
`BlackStartSteps`, which takes the same method store call by store call and
implements `BlackStart` (below). Methods that do
not take the lock (`RegisterBatteryCabin`, `CreateInspection`, `RegisterLoad`)
make a single store call. A call that returns without writing is a stuttering
step and has no disjunct. The order in which two records are written inside a
method is not visible at this granularity; for black starts it is in
`BlackStartSteps`.

**Three levels of the black start.** `Outage` speaks of responses, connections
and approvals only; `BlackStart` has the program's statuses, records and outbox,
one step for each method; `BlackStartSteps` has two goroutines that lock
`Service.mu`, make their store calls one by one, and return a record and the HTTP
status their handler will answer with, while readers (who see the state after
every step), `RegisterLoad` and the clock do not wait. `Return` is the return of
the method with its deferred `Unlock`; `writeJSON` runs after it, on the returned
copy, and is not a step.

- `ImplementsOutage` maps the six statuses to stages (`StageOf`) and the
  signatures to approvals. `Outage.Close` needs both approvals and nothing of the
  response: what the code permits for a superseded connection is part of the
  promise.
- `MethodsAreAtomic` maps a half-done method to the state after it (the writes
  ahead are already decided), or to the state before it as long as
  `RequestGridConnection` has not listed the loads: what it sheds depends on
  registrations that the lock does not keep out. `Undecided`, `Ahead` and the
  `Effective...` operators are that mapping.

**Two levels of the repair loop.** In `Callout` a job is waiting, manned, worse,
finished or called off, and a leader is handed exactly those that wait too long.
A job becomes worse in the step that puts its backup job to waiting
(`CallBackup`), and may become worse again once work is resumed (`Resume`).
`ImplementsCallout` maps eight statuses to these stages: escalation leaves an
order waiting, worsening leaves it with its team. Who finishes a job is not part
of the promise: `CompleteWorkOrder` takes no assignee.

**Start-up.** `Server` begins with `main` loading the configuration, which may
fail; then the scheduler's loop and the listener start. `Config.Load` is a pure
function, so it has no state of its own: its lemmas are evaluated as assumptions
of `MCServer` and proved in `ConfigProofs`. A text that does not parse counts as
an unset variable, and the two settings that are floating-point numbers are
integers. `SMSResendInterval` is loaded and never used by the program.

Each method reads the clock under the lock, so `now` is constant during an
action; `Tick` lets any number of calls happen at one instant. A choice the
code leaves to its environment is an existential: whether a delivery succeeds,
which messages a retry gets through, what telemetry reports, what a client puts
in the body of a registration or an acceptance (including an empty name).

Left out of the records: names, descriptions, attempt counters and the time
stamps that no rule reads.

**Wrong variants.** A definition that follows a line beginning `Mutant:` is a
plausible mistake in the definition after it. No action uses it; exchanging the
two makes the property it is meant for fail, which shows that the property
depends on that code.

## 3. The runs

`tlc -config <cfg> <module>`. All identifiers are model values.

| run | configuration | what it shows |
|---|---|---|
| `blackstart_sequence` | `BlackStartSequence.cfg` | `TypeOK`; one active black start; no late restoration; one message for each step; links only to delivered messages; statuses follow their tables; `BlackStart` implements `Outage` |
| `blackstart_connections` | `BlackStartConnections.cfg` | signatures and status agree; references agree; joint completion; one message for each request and synchronisation; loads by priority; `Outage` implemented with a superseded connection as well |
| `blackstart_liveness` | `BlackStartLiveness.cfg` | overdue black starts fail; pending messages are delivered |
| `blackstart_steps` | `BlackStartSteps.cfg` | `TypeOK`; each method has the effect of one step of `BlackStart`; readers find what they are referred to, see no status go back and lose no link; instructions follow the records, the notice of a synchronisation its connection; a connection is closed after its black start; shedding darkens the least important loads first; no double delivery; successes are true when the method returns |
| `repair_orders` | `RepairLoopOrders.cfg` | escalation only when late; each worsening, repeated ones included, opens one associated order and makes one call; table; one team for each order; timed-out orders leave the queue; `RepairLoop` implements `Callout` |
| `repair_anomalies` | `RepairLoopAnomalies.cfg` | `TypeOK`; every anomaly has its own order; alarms latch |
| `server` | `Server.cfg` (`MCServer`) | mutual exclusion; the lock is lost only to telemetry for an unknown cabin, and for good; reads and writes return; sweeps keep coming; the process ends; beforehand the assumptions on `Config` |

**Bounds.** They are named in the configurations and appear as guards
(`MaxTime`, `HasFresh`).

- *Two black starts in succession* are enough for `AtMostOneActive` to be at
  stake and for an old record to be confused with a new one; *one with two
  connections* is enough for a connection to be superseded. The two are
  separate runs because together they only multiply.
- *Outbox.* A black start with one connection sends at most four messages, with
  two connections six, and without a connection two: no run lacks an identifier
  for a message.
- *Clock.* A deadline of 1 and `MaxTime` 3 put a call before, at and after the
  deadline; two black starts in succession take a deadline of 0 (restored in the
  tick of the outage or too late) and `MaxTime` 3, so that both can miss theirs.
  The connection run keeps the clock still: a black start with a connection has
  met its deadline. `WorkOrderAcceptTimeout` 1 and `MaxTime` 3 do so for an
  original order and for an associated order dispatched one tick later.
- *Work orders.* Three are enough for an order to worsen twice or for its
  associated order to worsen in turn. Two suffice for the anomaly run, where
  two inspections and reports compete for them.
- *Cabins.* 45 and 46 are the last temperature that is tolerated and the first
  that is not, 10 and 80 a charge on either side of the minimum of 15; one cabin
  suffices because no rule relates two.
- *Loads.* One of each priority; the tertiary one is registered while the
  program runs and in any state.
- *Store calls.* Two threads are enough for one to be inside while the other
  waits or finds the lock open: whoever else waits would behave like the second,
  and they are interchangeable, hence the symmetry. With one black start, one
  connection and four messages every method can run to its end, be repeated and
  be refused; superseded connections and a second black start are left to the runs
  of `BlackStart`. The load that is registered late can come between any two
  steps of the shedding, and a deadline of 0 lets the clock pass it at any store
  call. Readers need no thread: an invariant is what any reader may see.
- *Configuration.* `Half` is 4096 and `Second` 2 instead of 2^63 and 10^9: small
  enough to have files that overflow to a negative number, to zero and once round
  to a positive one.
- *Workers.* Two compete with each other and with the scheduler; mutual
  exclusion is proved for any number.

Deadlock is checked in `blackstart_steps`, where a lock that is never released
would leave nobody able to move. Elsewhere it is not: operators may stop calling, the clock and the
identifiers are bounded, and in `Server` the process ends.

### Fairness

Operators, clients and signals owe nothing: none of their actions is fair.

- `BlackStart` and `RepairLoop` assume that a sweep with work to do is
  eventually made. `SweepsKeepComing` of `Server` is what this rests on: every
  sweep is entered again and again, whatever the load, until the process is
  stopped or the lock is lost. The two modules therefore speak of a process in
  which `Service.mu` has not been left locked.
- `InstructionsDelivered` further assumes that the deliverer does not reject
  one message for ever (weak fairness of a sweep that delivers it). The default
  deliverer never rejects.
- `Server`: a goroutine that can run does (weak fairness); `sync.Mutex` hands
  the lock to a starved waiter and `select` chooses with equal odds among ready
  cases, so both are strongly fair. A locked method is assumed to return; this
  includes the hooks it calls.

### Runs that end in a violation

Each checks one sentence of a document or comment which the code contradicts.

| run | sentence | what the counterexample shows |
|---|---|---|
| `server_unknown_cabin` | the unknown-cabin test: such a request "leaves the service able to serve later write operations" (`internal/app/telemetry_unknown_cabin_test.go:13`) | the error branch returns with `Service.mu` locked; every later locked method and every sweep waits for ever. `WritesReturnUnlessLeftLocked` shows this is the only way |
| `blackstart_late_sync` | completion "finalises the black-start sequence after grid synchronization is complete" (`internal/app/blackstart.go:242`) | a superseded connection is signed and synchronized after its black start was completed with the newer one |
| `repair_alarm_reply` | telemetry "Returns true when an alarm was raised or is already active" (`internal/app/service.go:98`) | an alarmed cabin reports 45 degrees and the answer is false |
| `anomaly_report_soc` | a report "evaluates the thermal/SOC rules for battery cabins" (`internal/app/inspection.go:78`, also `README.md:16`) | a report about a cabin at 10 % (the minimum is 15 %) leaves on cabin and order what the thermal rule leaves, and nothing else; `CanOperateOffGrid` has no caller |
| `server_shutdown` | the scheduler "supports graceful shutdown" (`README.md:110`) | `main` returns after the loop has taken a tick and before its first call is made: `Start` returns a cancel function, which `main` discards, and nothing waits for the loop |

## 4. The proofs

TLAPS checks every theorem for all values of the constants that satisfy the
named assumptions (`BlackStartAssumption`, `RepairLoopAssumption`,
`ServerAssumption`, `ConfigAssumption`, `StepsAssumption`): the empty
identifiers are not identifiers, the seeded loads are loads, priorities,
temperatures and times are numbers, goroutines have distinct names; a free lock
is held by no thread, and `None` is no identifier. No identifier set is
assumed finite.

**`BlackStartProofs`.** `TypeInv` is `TypeOK` with the fact that references
point at records that exist; without it a step through a connection could file
a black start that is no record. Under it, `StepCases` reduces `Next` to what a
step does to the variables: a black start is initiated, is moved with a message,
a connection is requested, signed or synchronized, the sequence is completed, or
messages are delivered. `SafetyInv` is the inductive invariant: `TypeInv` with
seven of the properties, which need each other. `CompletedTogether` needs
`ConnectionsBelong` (a syncing black start has a connection to complete);
`OutboxRecordsProgress` needs the references (a new black start has no messages
yet). From it follow `OneActive`, `BusRestoredInTime`,
`SignaturesDecideStatus`, `ReferencesAgree`, `CompletionIsJoint`,
`LinksAreDelivered`, `OneMessagePerStep` and, as an action property,
`TablesFollowed`. `LoadsServed` and `OneMessagePerConnection` have invariants of
their own; the latter counts messages, and needs that the outbox and the
connections are finite, which is proved along the way.

**`BlackStartStepsProofs`.** For any number of threads, and any interleaving of
their store calls with `RegisterLoad` and the clock. `StepsInv` is the inductive
invariant, in these parts:

- `LockHeld`: whoever is in a method owns `Service.mu`. So at most one call is at
  work (`AtWork`), and the rest of the invariant speaks of that call.
- `AtHand`: for every store call that call still has before it (`Todo`; the
  sequences a method can have left are `Plans`), what the store and the local
  copies hold: before `LinkSMS` the message is saved and delivered, before
  `PutLoad` the copies are those of registered loads, and so on. This is what a
  reader never sees and each next store call relies on.
- `SyncingConnected` and `ConnectedSyncing`: a black start names a connection, one
  of its own, exactly when it is syncing or completed; every connection is of
  such a black start, except one whose request has saved it and not yet moved its
  black start.
- `SignaturesFit`, `MessagesBelong`, `SeedsKept`: signatures and status of a
  connection fit, a message is of a black start that exists, a seeded load is
  energized or shed, and shed only if it may be.

One lemma for each store call and one for each method's first step show that it
is kept. From it follow the readers' invariants (`ReadersFindReferences`,
`DeliveredOnce`, `ConnectionClosesLast`, `LeastImportantShedFirst`), the first half
of `InstructionsFollowFacts` (`InstructionsEarned`: the black start has got as far
as its instructions say), `AnswersHold` (what a method returns, while it still
holds the lock) and the action property `ReadersSeeProgress`: no status goes back
and no linked message is dropped, which is why `LinkSMS` must reread the record.

The second half, `InstructionsCovered`, ties requests and notices to connections:
never more requests than stored connections of the black start, nor more notices
than synchronized ones. It is a statement about numbers, and inductive only with
what the call at work still owes: `CoveredInv` counts an instruction as told from
the write of its connection on, until it is filed, and adds that the outbox and
the connections are finite.

`MethodsAtomic` proves the refinement: `BlackStartSteps` implements `BlackStart`.
`AtomicInv` adds to `StepsInv` that the collections are functions (`Maps`), and
that the identifiers which a request has drawn are still the next free ones when
it lists the loads (`RequestsFresh`), which is where it takes effect. TLC finds
`AtomicInv` invariant on the instance of run `blackstart_steps`.
Every other method takes effect when it enters: its lemma shows that the
effective store moves as the action of `BlackStart` says. Every other store call
is shown to stutter, since it writes what the mapping had counted already.

**`RepairLoopProofs`.** `OrderSteps` describes what a step does to an order:
left alone, advanced, accepted, escalated, opened. `EscalationIsLate` rests on
`AcceptanceInv`: `EscalatedOnlyWhenLate` is not inductive, since nothing in it
says that a dispatched or escalated order has no acceptance time yet;
`WaitingIsUnaccepted` adds this. `AnomalyHasItsOrder` is inductive with `TypeOK`.
`NoSilentWorsening`, `OrderTableFollowed`, `FirstAcceptanceWins` and
`AlarmsAreForGood` are action properties. The first is about each worsening, not
each order; that the backup team was never called with the new order before needs
`WorseningsRecorded`: it was called with the associated orders that exist and
with no other.

**`OutageProofs`.** `PromiseKept`: `BlackStart` implements `Outage`. The nine
kinds of step of `StepCases` are taken one by one: each is one action of `Outage`
or leaves its variables alone. `SafetyInv` is needed where a step of `Outage` asks
more than the code's guard says: a new response needs all others to be over,
`Close` needs every approval (the code looks at the signatures, and
`StatusMatchesSignatures` ties them to the status), and a black start is concluded
through a closed connection that was proposed for it (`ConnectionsBelong`).

**`CalloutProofs`.** `PromiseKept`: `RepairLoop` implements `Callout`. The sweep is
the hard case: it escalates orders that are dispatched and late, while `HandOver`
gives the leader every waiting job that is late. `LeaderNamed`, that an escalated
order names the leader and that no draft is left behind, closes the gap;
`WorseningsRecorded` says that every job it was alerted to is an order.

**`ConfigProofs`.** `LayersInOrder` (environment over file over defaults),
`LoadedUsable` (every setting positive unless a duration overflows) and
`TickerNeverPanics` (the interval is positive even then), for every file and
environment.

**`ServerProofs`.** `OneInside` alone is not inductive; that whoever is inside
owns the lock (`InsideOwnsTheLock`) is, also after the lock was left locked. The
action property `LockLostForGood` rests on it as well: only somebody inside
unlocks, and nobody is inside once the lock is lost. Together with the
counterexample of `server_unknown_cabin` it says that one such request ends the
escalations, the expiries and every other locked method of the process.

**`DomainProofs`** holds the tables of transitions entry by entry, the freshness
of identifiers and the thermal rule as lemmas the others cite.

**Only model-checked.** All liveness (it needs fairness and ENABLED, beyond the
prover): `OverdueFails`, `InstructionsDelivered`, `TimedOutLeavesQueue`,
`ReadsReturn`, `WritesReturnUnlessLeftLocked`, `SweepsKeepComing`,
`ShutdownEnds`. All safety properties of the passing runs, the three refinements
included, are proved.

## 5. Not modelled

- *HTTP transport*: request decoding, the listing handlers and the statuses of the
  repair and registration handlers. Worth knowing from reading them: the accept,
  worsen and initiate handlers ignore a body they cannot decode, so an order
  may be accepted by the empty name (the model allows it).
- *Power stations and diesel generators*: write-once records nothing reads.
- *The repair methods store call by store call.* A reader can see a draft order,
  or an inspection with an anomaly whose order does not exist yet; `RepairLoop`
  takes each locked method as one step.
- *The hooks' own lock* (`hookMu`), held while a pointer is read or set.
- *What "atomic" means to a reader.* `README.md:109` says that one mutex makes
  compound operations atomic. That holds among the methods that take it
  (`MethodsAreAtomic`); a reader may find a black start completed and its
  connection not yet, which `ConnectionClosesLast` bounds to this direction.
- *Links of late messages, order of delivery, children of closed orders,
  re-energizing loads*: the code promises nothing, see the notes in `hazards`.
- *The rejected status* of a grid connection is in the table and no method
  assigns it.
- *A crash* loses everything, since nothing is persisted: there is no recovery
  to model.

## 6. Plan

In order of what it adds:

1. The repair methods at the granularity of store calls, with the draft order and
   the two writes of an inspection between which a reader may look.
2. The black-start and the repair fairness derived from `Server` in one model
   of the scheduler with its sweeps.
3. The theorems about `BlackStart` restated at the level of `BlackStartSteps`. They
   carry over by `MethodsAtomic`, to the effective store always and to the store
   itself whenever the lock is free; this step is argued here and not checked,
   since the prover takes no theorem from a module instantiated by substitution.
