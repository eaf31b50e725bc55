# A TLA+ model of the Jinko bridge

The bridge (`src/bridge`, Go) polls one photovoltaic inverter, over the local
Modbus bus or over one of two vendor clouds, and optionally Shelly meters. It
publishes what it reads to Home Assistant over MQTT and to Prometheus, mails
alerts, and pushes alarms to a phone. Little of it is hard to read, much of it
is hard to test: rotating OAuth credentials that must survive a crash between
any two lines, a poll and two background workers that share clouds, retained
MQTT messages that outlive the process, mails that must be neither repeated
nor forgotten, and a process that is started again with another configuration
over the files and retained messages its predecessor left.

This directory holds models of those parts (`*.tla`), instances that TLC checks
(`MC*.tla`, `*.cfg`), and proofs checked by TLAPS (`*Proofs.tla`,
`JinkoTokenSafety.tla`). `PROJECT.json` lists every part of the program, run,
theorem and hazard, and for each definition the lines of source it models.

    tlc -workers 2 -config MCSourceGate.cfg MCSourceGate
    tlapm SourceGateProofs.tla

Paths below are relative to `src/bridge/internal`.

## 1. The system

| Component | State it keeps | Operations | Hard because of | Correct when |
|---|---|---|---|---|
| Jinko client (`source/jinko/client.go`, `token_state_*.go`) | token pair, pending pair, pause flag, refresh gate, floor; the state file | `Fetch`, `RunBackground`, `refresh`, `persistPendingTokenState`, `New` | two goroutines rotate one credential; every POST may be consumed without an answer; crash, failed write, shutdown | a refresh token is used once, a rotated pair is never lost or used before it is durable |
| Fetch gate (`sourceFetchGate` in `source/alert_correlation.go`) | `active`, `normalWaiters`, `cancelDiagnostic`, a wake-up channel | `fetchNormal`, `fetchDiagnostic`, `release` | callers wait outside the mutex for a channel they read inside it | one Fetch at a time, the poll first, nobody sleeps for ever |
| Alert correlation (`source/alert_correlation.go`, `app/alert_correlation.go`) | alarm state, a channel of capacity one | `observe`, `enqueueLatestLocked`, `RunBackground`, `process` | poll and worker race on the channel and on both clouds | the last push tried is the last decision, the poll never waits for diagnostics |
| MQTT publisher (`hamqtt/*.go`) | cache, shape, verdict, owed offline, manifest file | `OnPollSuccess`, `OnPollFailure`, `onConnect`, `Close` | a transaction of several publishes, each may be lost; the broker keeps what the process forgot | what the broker shows as available is current and accounted for |
| Poll runner (`poller/poller.go`) | last outcome, readiness | `pollOnce`, `recordFailure`, the no-successful-poll monitor | monitor beside a Fetch that may hang; observers that panic | state, alerts and observers tell one story |
| Alerts (`alert/*.go`) | active conditions, reservations, last delivery per key | `NotifyActive`, `Resolve`, the rules | two senders, slow sends, an answer lost after delivery | no repetition inside the cooldown, no condition forgotten |
| Source priority (`source/priority.go`) | the primary's metric surface | `Fetch` with failover and projection | the surface was learned from a poll that is long gone | one inverter and one surface, whoever answers |
| Modbus client (`source/modbus/*.go`) | one session, cached profile gates and metadata | `Fetch` | a 32-bit value is read in two transactions | every published value existed |
| Validation evidence (`source/modbus_validation_evidence.go`) | milestones seen, last recorded status, budget | `observe` | a rate and a budget over changing data | a bounded log in which a lasting change is not lost |
| Solarman client (`source/solarman/client.go`) | token, discovered serial, time of the last request | `Fetch`, `ensureToken`, `resolveDeviceSN`, `doJSON…` | 401 renewal, retry and quota nest | a fetch ends |
| Discovery manifest (`hamqtt/discovery_state.go`, half of `publisher.go`) | the schema file, its copy, the retained entities | `mergeSnapshot`, `persistDiscoveryState`, `loadDiscoveryState` | the sources take turns, and the file, the memory and the broker outlive one another | an entity is on record before it is shown, keeps its meaning, and belongs to who may own it |
| Serve lifecycle (`app/app.go`, `Run` in `poller/poller.go`) | which goroutines run, the context | `runServe`, signal, joins, exit | a stop meets whatever is under way; a start may fail anywhere | every stop ends and cuts nothing |
| Configuration (`config/config.go`) | none | `FromCLI`, `validate`; the constructors' own checks | two layers refuse settings, and the second one runs late | what the first accepts the second accepts |
| Shelly meters (`source/shelly/*.go`) | none that outlives a call | `Fetch` | a stream of its own beside the inverter | see publisher |
| Parsers, Prometheus, HTTP, cards | none that outlives a call | | | not modelled, section 7 |

How they interact. `app.runServe` starts one poll runner for the inverter and
one for each meter. The inverter's runner calls `Priority.Fetch`, which asks the
configured sources in order through their gates; a snapshot that passes is shown
to the validation observer and to the correlation worker, and then to the rules
and the observers of the runner (MQTT, Prometheus). Beside the polls run the Jinko
token keeper, the correlation worker, the no-successful-poll monitor, and the
MQTT client's own goroutines. They share state through the mutexes and channels
named in the table. At shutdown the pollers and workers are joined before
the publisher says goodbye.

## 2. The modules

| Module | Lines of code it stands for | Uses |
|---|---|---|
| `JinkoToken` | the credential life cycle of the Jinko client with its state file, the OAuth server and the operator | |
| `SourceAccess` | the abstract gate: what the comment at `sourceFetchGate` promises | |
| `SourceGate` | the gate statement by statement between unlocks; implements `SourceAccess` | `SourceAccess` |
| `LatestJob` | the abstract mailbox between poll and worker: one place, the newest job wins | |
| `AlertCorrelation` | the poll and the worker, over the abstract gates of both clouds; implements `LatestJob` | `SourceAccess`, `LatestJob` |
| `Publisher` | the publisher, the connection, the wire and the broker | |
| `PollAlerts` | poll runner, monitor, manager and rules | |
| `ModbusSession`, `SolarmanClient` | one fetch of each client, for composition | |
| `SourceChain` | `Priority` over both clients, with the validation observer | `ModbusSession`, `SolarmanClient` |
| `Configuration` | what is accepted and refused, and by whom: operators only | |
| `EntityRegistry` | the abstract manifest: on record before it is shown, and never another meaning | |
| `Discovery` | manifest, entities and values, over file, memory and broker | |
| `Serve` | the process over its configurations and publications; implements `EntityRegistry` | `Configuration`, `Discovery`, `EntityRegistry` |

`AlertCorrelation` does not repeat the gate: it uses the actions of
`SourceAccess` in the place of each cloud's gate, and `SourceGate` is proved to
implement them. `Publisher` takes the outcome of polls as input and `PollAlerts`
produces it; they share no state besides. `Discovery` and `Publisher` look at the same
handlers twice: `Publisher` at each publish, the wire and the availability, with
the entities as plain sets; `Discovery` at what the entities mean and who owns them, with the
publishes of a handler as one step that succeeds or breaks off anywhere.

Definitions keep the program's names. A definition called `X_Something` beside
`X`, marked "wrong variant", is what a plausible bug would make of `X`: for every
property that passes there is one that breaks it (`mutants` in `PROJECT.json`).

### JinkoToken

Tokens and times are numbers, 0 is Go's zero value. `client` holds the fields
under `tokenMu`, `file` the state file, `tx` the local variables of a rotation,
`spent` (history) the refresh tokens that were POSTed and not shown to be still
valid. One action is one stretch between two points where another goroutine or
a crash may come in: the gate, a file write, the POST, its answer, taking the
bearer token. A failed write leaves the old or the new file, since it can fail
after the rename. The server may accept a request whose sender is gone, may or
may not rotate the refresh token, and may state no lifetime. The operator
recovers while the bridge is stopped, by replacing the file or by configuring a
new pair and removing the file, as `docs/configuration.md` asks.

Left out: alert mails and the notices that accompany them (poll and keeper send them themselves,
so `ShutdownEnds` and the liveness of the keeper assume that no mail hangs, see `PollAlerts`), the request jitter,
the bound on retries, an unreadable state file at the start, an operator file
without `updated_at`, a wall clock that runs backwards.

### SourceGate and SourceAccess

`woken` is the set of callers whose channel has been closed: a caller reads the
channel under the mutex (`Park`) and waits for that one, whatever replaced it
since. `fetchDiagnostic` reads the cause of its context once, after Fetch
returned (`DiagnosticReturns`), and leaves later: between the two a
preemption changes nothing. The refinement maps `queued`, `inside`, `spoiled` and
`yielded` to control points, causes and results.

### AlertCorrelation

`observe` holds `w.mu` until its job is in the channel; `TrySend`, `Drain` and
`Resend` are the three channel operations, between which the worker may take. A
job is (kind, signature, time). The push may fail or panic; whether it was
delivered is nobody's business here: `pushed` is what was tried last, whatever the phone shows. A
failed push is not retried: that is the program's design, and `PushesCatchUp`
speaks of attempts. Against `LatestJob` the three operations are one step: the job is posted when the
first send finds room, else at the drain, after which the offer counts as the content of the channel.

Left out: the contents of the evidence (a read is answered or aborted), a second
call of `RunBackground`, more than one device (the serial is configuration).

### Publisher

Every handler holds `p.mu` from first to last line, so `job` is the handler that
has the lock, and each publish is a step. A publish is accepted, refused, or times
out, and then may or may not still be written. At QoS 0, the default,
"accepted" says only that it was written: `wire` carries it to the
broker in order or loses it with the connection. The broker applies the will at a
loss, and may forget what it retained when it restarts. `NotPersisted`
covers a schema conflict, a failed write of the manifest, and a failed sync after
the rename. In `serve` the polls are joined before `Close`; the model lets them
race, as the type's own comments do.

Left out: payload texts, units and identities, the entities every shape has, a
manifest that cannot be read or belongs to another installation, a failed first
write in `Start` (the process does not come up), the buffer that `cachedState`
reuses. `docs/home-assistant.md:386` ("Failed state/discovery delivery also forces
shared availability offline") does not say whether it speaks of an installation
without independent meters; there the code (`publisher.go:466`) keeps the entities
available, and `OnlineIsCurrent` is stated for independent meters only.

### PollAlerts

`work` is what the poll still has to do, in the order of the code: four
rules and the observers after a success; the observers and the check for silence
after a failure, also one that a panic made of a success. Each sender (poll, monitor) is at "reserve", "send", "mute" or "quit" of one
mail. The rules are operators over abstract readings with their thresholds, and
their 5-point hysteresis in the code's numbers. Two history variables:
`mailbox`, when the mail server accepted each key last, and `troubled`, what the
snapshots say is wrong.

A mail is sent by the goroutine that decided on it, and need not end (`DialHangs`). `Notify` sets
its deadline only after `dial` has returned (`alert/smtp.go:80-88`); what `dial` reads itself, the greeting
(173, 185), the answers to EHLO and STARTTLS (191-199), has no deadline, and the context
ends the connect at most. A server that accepts a connection and says nothing therefore holds its sender for ever, with the key
reserved, although `docs/configuration.md:173` calls `SMTP_TIMEOUT` the "SMTP dial/send timeout". So
nothing can promise a mail about silence while this very mail hangs: `SilenceIsReported` assumes of each sender that it does not hang
for ever in the mail about silence, and no more. The poll may still hang in any other mail, or in Fetch: then the monitor
reports. Without the assumption for the poll TLC shows a poll that hangs in the dial of its own mail about silence, whose reservation
suppresses each of the monitor's mails.

Left out: mail texts, the reading of a metric from JSON, the failure mails
that the sources send through the same manager, the end of the process (the
manager's state is in memory, so a restart forgets it by design).

### SourceChain

`ModbusSession` is one TCP session over the code's read plan, shortened to one
read of each kind; the grid powers stand for all signed ones. At each read the inverter holds any power of `Powers`:
nothing observes it in between, so that is what a moving value looks like.
`sampled` (history) is the value its low word came from. `Coherent` is the
envelope of `decodeGridPowers` (`maximumGridPowerCoherenceW`, ±0x7FFF, high word 0 or 0xFFFF; the other decoders of signed powers have the same).
`Powers` is that envelope and its two ends, -`Half` to `Half`, and `PowerIsReal` assumes that the inverter measures nothing beyond: the low word
of 70 kW and the high word of a later small power would pass the envelope as 4464 W. The
supported ratings (up to 20 kW) stay inside; what an inverter passes through from the grid has no rating in the code. `SolarmanClient` is
a fetch as a list of requests still to send (`todo`) with the state of the retry
loops around the current one. Ages (`token`, `sinceSent`, `found.age`, `since`)
count up or down to their limit and stay there, so the clock needs no bound.

Left out: frames, CRC, decoding tables and the limits that reject
values beyond plausibility; blank serials and keys; identity fields a fallback
inherits; cancellation; the failure mails that the clients send inside Fetch (`PollEnds` assumes that they end, see `PollAlerts`). The total of the direct-load power has no envelope
against a torn sign, which the repository documents itself
(`docs/modbus-backlog.md:354`): `PowerIsReal` does not speak of it. Two limits of
the code the model makes visible: the client writes the bearer header before it
waits for its quota, so a token with a lifetime below the pacing interval
would never be accepted; and `lastRequestAt` and the Modbus profile live as long
as the process, so a restart sends at once, and an inverter exchanged behind the
same address is not profiled again.

### Configuration, Discovery and Serve

`install` is what stays while the operator changes the configuration: whether there is an
identity and a manifest. `Launch` makes `FromCLI`'s and the constructors' decisions in
the order of `runServe`; `StartFails` is the listener or the first write of the manifest.
A reading is a metric without its value (key, kind, meaning); a snapshot is a set of them. Fetch
answers with any snapshot of any configured source, because which source answers is
the subject of `SourceChain`. Runner and keeper send their mails themselves: a source its failures inside Fetch (`Mail`), the
runner what a snapshot says before the observers are told (`poller.go:183`, in `Mail` too), silence after them
(`poller.go:218`, "reporting"), the keeper its failures ("mailing"); none of them need ever end. `stopServeWorkers` joins both without a bound of its
own (`app.go:277-284`), so `ShutdownEnds` assumes, in its formula, that neither stays in a mail for ever; the monitor is not
joined, so its mails do not matter. `EndsWhole` and `ShutdownEnds` look at the joins, the other
properties at what successive processes leave on the disk and the broker. The refinement maps `record`
to the file (not to the copy in memory) and `shown` to the retained entities, so that a write
which failed after its rename is a step of the registry.

Left out: the texts and limits of the JSON file and the topic collisions of
`validateDiscoveryTopicNamespace`, a second meter, the metadata (its keys are
readings like others), availability messages and a broker that forgets (both in `Publisher`),
`runFetch`, the HTTP handlers. A setting that is only checked by itself is one bit of its section (`valid`).

Limits of the code that the model makes visible and no text of the repository contradicts:
the mail addresses of the alerts are parsed by `NewSMTPNotifier` only, so a bad one passes
`validate` (`StartsAsValidated` does not speak of it); a single source without a configured identity
becomes a second Home Assistant device when its serial changes (`OneDevice` does not speak of it); an alert entity is owned
with the schema first learned for its key, so another source that gives the key another
meaning cannot publish at all until the manifest is replaced; without a manifest, a shape that fails half way
leaves entities of two shapes on the broker.

## 3. Runs

| Run | Question | Result |
|---|---|---|
| `jinko_safety` | poll, keeper, crashes, failed writes, ambiguous POSTs, shutdown, restart, operator: is a token ever replayed, lost, or used early, the bridge locked out unknowingly, or a wake-up of the keeper missed? | holds |
| `jinko_liveness` | without a poll: does the keeper finish, stop, end? | holds |
| `jinko_precedence` | after a rotation whose token states no lifetime, is the old pair ever POSTed again? | violated, finding 1 |
| `source_gate` | two polls and two diagnostics on one source; implements `SourceAccess` | holds |
| `correlation` | poll, failover and worker: is a decision lost, does either wait for the other? Implements `LatestJob` | holds |
| `publisher` | is what the broker shows as available current, owned, and ended by a shutdown? | holds |
| `publisher_single` | without an independent meter: does an offline verdict reach the broker? | holds |
| `publisher_discovery` | is the shape of a poll complete on the broker after a reconnect? | violated, finding 2 |
| `poll_alerts` | are mails spaced, conditions remembered, and silence reported unless the mail server is mute to that very mail? | holds |
| `poll_alerts_quit` | the same spacing if QUIT may fail after acceptance | violated, finding 3 |
| `source_chain` | are reported powers real, the fallback the same inverter, a lasting change recorded, a poll finite? | holds |
| `serve` | over starts with changing configurations, failures and crashes: do values keep their meaning, entities their owner and device, is what was validated started, is every stop whole, and does it end if no mail hangs? | holds |

### Bounds, and why they are enough

- Jinko: three tokens (`MaxToken`) allow a rotation, a second one, and a
  recovery by the operator between them; `MaxTime` 2 with `MinInterval` and
  `RefreshBefore` 1 puts expiry, floor and refresh window on both sides of
  the clock. Lifetimes 0 (not stated) and 1 (due at once) are the two hard ones.
  All configured pairs (access, refresh, both) are initial states, with access tokens
  of unknown expiry (`StateOutranksConfig`, the normal case of the documentation;
  `jinko_precedence` leaves it). The liveness run has `MaxTime` 1 and one
  configuration: its argument does not depend on the clock moving.
- Gate: a normal call queues behind a normal call and behind a diagnostic, and a
  wake-up is taken by another caller of each kind, with two and two.
- Correlation: two signatures let an alarm change while it lasts; three
  decisions fill the job in work, the channel, and the one that replaces it.
- Publisher: one meter beside the inverter, two shapes of the inverter and
  one of the meter; two faults cover a fault in the repair of a fault. A window of one message
  (independent) or two (single stream) orders writes and loss. Both kinds of installation,
  with and without manifest, are initial states.
- PollAlerts: three installations use each rule alone and two together, with readings
  at thresholds, inside the bands, missing, and from two sources. `Cooldown` 1
  and `Window` 2 let a mail, its cooldown and silence overlap.
- SourceChain: four installations cover both orders, projection on and off,
  a configured and a discovered serial, a station that is configured and one that is looked up, and the observer. `Half` 2 makes registers of two bits, the
  smallest in which the two ends of the envelope, zero and a negative value differ. A budget of two
  changes, a minute of two ticks and two status vectors suffice for a change
  that is suppressed, lasts, and is recorded.

- Serve: four installations (without identity, with one, with a manifest as well, and
  without MQTT) and the configurations that may follow one another on each: one and several
  sources, both orders, a meter, duplicate and unknown sources, evidence (with and without its log level) and correlation in and out of place,
alerts on and off. Two units of one
  power, two meanings of one alert key, and a meter key that an inverter reports too are every
  kind of conflict the merge tells apart. One fault per behaviour: each property that
  a fault endangers is broken by a mutant with one.

State counts on two workers: 178,961 states for `poll_alerts` (about 30 s), 130,142 for `correlation` (26 s), 285,681 for `serve` (about 2 min), 2.5 million for
`publisher` (80 s), 154 thousand for `publisher_single` (23 s), 267,180 for
`source_chain` (76 s); the others are smaller.

### Fairness

Safety needs none. Liveness runs use a `FairSpec` that asks of the environment only
what the code arranges:

- goroutines that can run are run (weak fairness of their steps), tickers and
  deadlines fire, HTTP requests, publishes and Modbus reads end by their timeouts; in `PollAlerts` nothing is
  assumed of Fetch, whose hanging is the point of `SilenceIsReported`;
- Jinko: a goroutine gets the gate when it is free again and again (a Go channel
  serves waiters in order), a transaction ends by its hard timeout, and a disk that is
  tried again and again takes a write in the end. No poll, crash, tick or operator is fair;
- `SourceGate`: nobody need ever call and no context need ever end; a running Fetch returns;
- `Publisher`: during an outage failing polls recur, and a waiter for `p.mu` is not starved (Go
  mutexes hand over), the network delivers and reconnects;
- `PollAlerts`: a mail past its dial ends by its deadline, a dial need not end (no fairness in "mute"); an outage of the mail server ends (strong fairness of
  the silence mail's acceptance, per sender);
- `Serve`: the main goroutine, `RunBackground` and the MQTT handler run when they can (weak fairness, one each), Fetch returns if it sends no mail, no mail need end, and
  the `select` in `Run` does not prefer its ticker for ever when the context is done (strong fairness of `RunReturns`: Go
  chooses among ready branches at random);
- `SourceChain`: weak fairness of the poll's steps and of time. `SettledChangeIsRecorded` adds its own
  assumptions in the formula: the status settles, and Modbus fetches succeed again and again.

`CleanQuit` is a constant of the environment: `TRUE` says that the mail server answers QUIT after
accepting; `poll_alerts_quit` shows what happens without it. Deadlock is checked in every run.

## 4. Findings

Each is a run with one violated property; `PROJECT.json` quotes code and text in full.

1. `jinko_precedence` / `NoReplay` (`source/jinko/client.go:1400`). After a rotation
   whose access token has no known expiry, a restart prefers a configured token with a
   known one, and with it the configured refresh token, which the rotation consumed.
   The comment at `client.go:1051` and `docs/configuration.md:33` say it is never replayed.
2. `publisher_discovery` / `DiscoveryIsRepublished` (`hamqtt/publisher.go:450`). A topic counts as published
   for the life of the process, and a reconnect replays only the cached shape: what
   the broker lost of an earlier shape is not published again when it returns (comment at `publisher.go:536`).
3. `poll_alerts_quit` / `MailsSpaced` (`alert/smtp.go:112`). A mail the server accepted
   counts as failed if QUIT fails, sets no cooldown, and is sent again by the next poll
   (`docs/alerts.md:43`).

Not a finding: the alarm state of the correlation is in memory, so a restart
between a detection and the all-zero vector sends no recovery push. The text at
`docs/home-assistant.md:340` ("a later complete all-zero Modbus vector sends the recovery
push") is read here as speaking of one process.

## 5. Theorems

Proved by TLAPS from the named assumptions on the constants, for all their values:
any number of tokens and ticks, callers, inverters, installations, any register width and budget.

**JinkoToken.** `TypeCorrect` (`JinkoTokenProofs`): the type invariant needs `TaskOK`, which says for what a goroutine in the
gate wants it, or `Resume` could send it nowhere. `ShutdownDescends`: `ShutdownRank` orders the control points, and every step of a
goroutine after the signal goes down in it; with the fairness of the steps, which stays with TLC, that is `ShutdownEnds`. `JinkoTokenSafety` then builds three layers, each inductive relative to those below:

- `GateInv` (being under the gate and holding it are the same) and `DownInv` (a stopped process has no memory) give `GateCorrect`;
- `PauseInv` adds what the file and the rotation's material say at each point: the marker is written before the POST and
  removed only with the new pair; a pending pair excludes a rotation. It gives `MarkerCorrect`, `PauseIsDurable` and `PendingCorrect`;
- `SpentInv` follows refresh tokens: where a spent one may still be found (in a paused client, under a marker, in a rotation that has its
  successor), and that every pair the client or the file holds outranks the configured one. It gives `NoReplayCorrect`, under the explicit
  assumption `StateOutranksConfig`: every lifetime the server states exceeds those of configured tokens, or no configured token has a known
  one. Without it the theorem is false, which is finding 1.

`PendingIsKept` is the action property from the same layers. A fourth layer, `MaterialOK`, needs no such assumption: a rotation speaks of the pair
in use until it is answered (`MaterialInv`), no stamp lies in the future and the floor lies `MinInterval` above it (`StampInv`), and the
token in use would survive a crash or its successor is on disk (`DurableInv`). It gives `NeedCorrect`, `SpinCorrect` and `DurableCorrect`. Two more layers close the protocol from the other side:

- `LiveInv`: every refresh token the client, the file or a pending pair holds is one the server accepts or one in `spent` (`Accounted`), so by
  `SpentInv` an unpaused bridge holds an accepted one. It gives `AcceptedCorrect`, under `StateOutranksConfig` like `NoReplayCorrect`: a restart
  that goes back to a configured pair (finding 1) is locked out as well;
- `KeeperInv`: a pair that became pending behind the back of the keeper, before it parks, has left a wake-up in its channel, and a keeper that ended
  had nothing to wait for. It gives `KeeperCorrect`, without which `PendingBecomesDurable` and `DueIsRotated` would fail whatever is fair.

**SourceGate.** `IInv` joins the type, which points each kind of caller may be at, the occupant (`active` and `cancellable` describe who is
inside), and the four properties, which need each other: no wake-up is lost because the counter is right, and the preemption is told because the occupant is known.
`GateImplementsAccess`: with `ResultInv` (a diagnostic that has not settled has no result), every step of the gate is a step or a stutter of `SourceAccess`.

**SourceChain.** `TornPair` is the arithmetic heart: the low word of one value of `Powers` and the high word of any other are accepted by the envelope
only if together they spell the first value. With `SampledOK` (the words read so far belong to the sampled value) it gives `PowerCorrect`.
`TypeCorrect` is proved in parts (session, requests, chain). `InverterCorrect` needs that the learned surface is that of the first source's last snapshot
(`SurfaceOK`), over failed polls and an account that changes. `EvidenceCorrect` counts: each record is paid by a milestone not seen before or by a unit of the budget,
and the record that announces exhaustion is the one that spends the last unit (`EvidenceOK`).
Two safety halves of liveness: `DriftCorrect` (after each observed snapshot the last record holds its status, or the rate or the budget forbade it) and
`PollCorrect`, by the measure `PollLeft`: 45 for each source still to ask, then the requests, tries, renewals and reads the one being asked can still make.
Every step of the poll lowers it and only the next poll raises it, so nothing keeps a poll from its end but not being run, or a clock that stands still
while a request is paced.

**AlertCorrelation.** `TypeCorrect`; `GateInv` says, for each cloud, who may be queued or inside at which point of the poll and the worker, and gives
`JoinsCorrect` and the refinement `AccessCorrect`, which completes the chain gate, worker, poll. `LatestInv` numbers the decisions: while the poll
enqueues, its offer is newer than what is in the channel and what the worker has taken, so emptying a full channel loses only an older
job (`LatestCorrect`). From it, `MailboxCorrect`: every step of the poll and the worker is a step or a stutter of `LatestJob`, the three channel
operations together one post. `PushInv` carries that on to what was pushed last (`PushCorrect`).

**Publisher.** `TypeCorrect` needs `KnownOK` (a stream that is up has a snapshot). `OwnInv` bounds cache, job, wire and broker by the schema in memory and
that by the file; bounding them by the file alone is not inductive, for the next write replaces it (`OwnedCorrect`). `GoodbyeInv` follows the offline of
`Close` over the wire (`GoodbyeCorrect`). `OnlineCorrect` argues about what the broker *will* say once the wire is delivered: an online verdict is about the
cached payload (`VerdictInv`), whoever publishes while the verdict is online owes an offline when it fails (`JobInv`), and on an open
connection whose replay is through the state precedes the verdict (`ReachInv`). `NothingAssumption` only says that the absent value is no verdict and no payload.

**PollAlerts.** `TypeCorrect` needs `WorkOK` (rules before observers, and only with a snapshot). `ToldInv`: whoever was told something else is still to be told
(`ObserversCorrect`). `HeldCorrect` needs no `CleanQuit`: `HeldInv` says that the keys in flight are those of the senders under way, and that two senders never
have the same. Under `CleanQuit`, without which finding 3 stands: `SpacedInv` relates reservation, mailbox and the
manager's clock (`SpacedCorrect`), and `TroubleInv` says of each condition between which two steps memory and trouble may differ (`ActiveCorrect`).

**Serve.** `StepDoes` sorts all steps by what they bring to file, memory and broker: nothing, a loaded manifest, its first write, or a poll. The invariants
then need few cases each. `TypeCorrect` (with `Kept`: what a poll falls back to is a snapshot of its source); `LifeInv`, the order of the joins, for
`EndsWholeCorrect`; `DeviceInv` for `OneDeviceCorrect`; `SchemaInv` for `PrimaryCorrect` and, with `ValidatedAccepted`, for `StartsCorrect`. `RegistryInv` is
the heart: with a manifest, all that is or may still come to be on the broker is within the schema on disk *and* within the one in memory. Both are
needed: after a write that failed behind the rename the file is larger than the memory, and the next poll replaces it by another successor of
the memory. From it, `RegistryImplemented`: every step is a step or a stutter of `EntityRegistry`. `ValuesCorrect` holds for installations
without a manifest under `AlertsMean`: each source uses an alert key for one meaning (the tables of the clients; tests cover them).

Only model-checked: the liveness properties and every fairness argument (outside the prover's reach): `PendingBecomesDurable`, `DueIsRotated` and `ShutdownEnds` of
`JinkoToken`, `PollGetsThrough`, `DiagnosticGetsThrough`, `PushesCatchUp`, `PollReturns`, `OfflineReaches`, `SilenceIsReported`, `SettledChangeIsRecorded`,
`PollEnds`, and `ShutdownEnds` of `Serve`. What they rest on that is safety is proved: `KeeperMissesNothing`, `ShutdownIsDirect`, `NoLostWakeup`,
`WaitersCounted`, `ImplementsMailbox`, `ReservationsAreHeld`, `DriftIsRecorded`, `PollIsBounded`.

Only proved, and in no run of the list (each was checked by TLC on the constants of its component's run before it was proved): `GateIsExclusive`, `MarkerCoversPost`,
`UncertainIsDurable`, `PendingIsCurrent` and `ShutdownIsDirect` of `JinkoToken`, `Exclusive` and `WaitersCounted` of `SourceGate`, `LatestIsKept` of
`AlertCorrelation`, `ReservationsAreHeld` of `PollAlerts`, `EvidenceIsBounded`, `DriftIsRecorded` and `PollIsBounded` of `SourceChain`, and the modules' `TypeOK`s.

A correction the proofs brought: `CASE` with overlapping arms means an arbitrary arm, so TLC's choice of the first was more than the formula said
(`ContextDone` of `JinkoToken`, three rules of `PollAlerts`). They are conditionals now, in the order of the code.

## 6. Plan

Done, in this order, by what a mistake would cost: credentials, gate, correlation, publisher, alerts, source chain; then the manifest with its
registry, the configuration and the life of the process; and the proofs of every safety property that a passing run checks, of the mailbox between poll and worker, and of the safety that the liveness properties rest on. Worth doing next:

1. `Publisher` with a single stream: a property that says for how long an old payload may be shown (`publisher.go:466`), once the code promises one.
2. A refinement of `Publisher` to `Discovery`: they are compared by hand today (section 2).
3. A measure for the poll of `PollAlerts`, as `SourceChain` has one: the rules and observers a poll still owes.
4. A manifest shared by two processes; the code assumes one.

## 7. Not modelled

- **Shelly clients**: two stateless HTTP reads a poll and the decoding of their answers. What their constructors refuse is in
  `Configuration`, what their polls do to MQTT in `Publisher` and `Discovery`.
- **Settings that are checked by themselves** (addresses, ranges, patterns, files and flags that are read): `Configuration` has them as one bit for each section.
- **Jinko parser and schema, Modbus register tables, model types, build information**: functions of their input without later
  state; tables are data, for which tests against recorded answers are the better tool.
- **Prometheus collector**: reads the last outcome, keeps none.
- **HTTP endpoints**: readiness and health read the poll state; pure I/O besides.
- **Home Assistant cards** (TypeScript): rendering in a browser.
- **Memory-level sharing** of the cached payload buffer: a payload is a value here.
- **A failed state publish with a single stream** (`publisher.go:466`) leaves the old payload available: the step is in `Publisher`, and the code means it so.
- **A mail server that is mute for ever**: the step is in `PollAlerts`, `Serve` and their assumptions; neither silence nor a shutdown can be promised against it
  as `smtp.go` is written.
- **A monitor's mail overtaken by a success**: the interleaving is in `PollAlerts`; the code promises nothing about it, so no property does.
