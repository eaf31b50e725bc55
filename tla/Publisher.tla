------------------------------ MODULE Publisher ------------------------------
(***************************************************************************)
(* The MQTT publisher (hamqtt/publisher.go, hamqtt/grid_load.go) between   *)
(* the poll runners, the MQTT client's connection goroutines and the       *)
(* broker that keeps the retained messages Home Assistant reads.           *)
(*                                                                         *)
(* Every handler of the publisher holds p.mu from its first line to its    *)
(* last, and publishes several messages one after the other: job is the    *)
(* handler that holds the lock, and each of its publishes is a step, so    *)
(* the connection, the broker and the process may fail between any two.    *)
(*                                                                         *)
(* A publish is accepted (the client reports no error, which at the        *)
(* default QoS 0 only means it was written), refused (not connected), or   *)
(* times out, in which case it may or may not still be written.  What is   *)
(* written reaches the broker in order, or is lost with the connection.    *)
(*                                                                         *)
(* Data: a discovery payload is its topic; the signature of a shape is the *)
(* set of its topics; a snapshot is the set of topics it has values for,   *)
(* and a state payload says which snapshot of each stream it shows.        *)
(***************************************************************************)
EXTENDS Naturals, Sequences

CONSTANTS
    Inverter,        \* the stream of the priority source
    Meters,          \* the Shelly streams that may be independent
    Shapes,          \* stream -> the sets of topics its snapshots may have
    BrokerForgets,   \* may a restart of the broker lose retained messages?
    MaxFaults,       \* bound: timeouts, losses, failed writes, crashes
    Window,          \* bound: messages written and not yet at the broker
    Nothing          \* model value: never set, never published, or forgotten

Streams == {Inverter} \cup Meters
Topics == UNION UNION {Shapes[s] : s \in Streams}

ASSUME PublisherAssumption ==
    /\ Inverter \notin Meters
    /\ DOMAIN Shapes = Streams
    /\ BrokerForgets \in BOOLEAN
    /\ MaxFaults \in Nat
    /\ Window \in Nat \ {0}

Online == "online"
Offline == "offline"

\* Nothing is no verdict and no payload.
ASSUME NothingAssumption ==
    /\ Nothing \notin {Online, Offline}
    /\ Nothing \notin [Streams -> (SUBSET Topics) \cup {Nothing}]

VARIABLES
    meters,      \* the independent streams of this installation (GridLoadObserver, ...)
    manifest,    \* is mqtt-discovery-state-file configured?
    disk,        \* the topics the manifest owns
    run,         \* "running", "closing", "closed" or "dead"
    pub,         \* the fields of Publisher guarded by p.mu
    job,         \* the handler that holds p.mu
    open,        \* client.IsConnectionOpen
    hooks,       \* onConnect goroutines that wait for p.mu
    wire,        \* messages written and not yet at the broker
    broker,      \* what the broker retains
    goodbye,     \* history: was the offline of a shutdown written for good?
    faults

config == <<meters, manifest>>
link == <<open, hooks>>
vars == <<config, disk, run, pub, job, link, wire, broker, goodbye, faults>>

independentMeters == meters # {}

\* A handler: who runs, for which stream, what it would roll back to, and
\* what it still has to publish.
Handler(who, s, previous) ==
    [who |-> who, stream |-> s, previous |-> previous, pc |-> "start", topics |-> {}]
None == Handler("none", Inverter, Nothing)
Idle == job = None

\* The topics of a snapshot, and a state payload of the broker or of the cache:
\* Nothing for a stream that is down.
Snapshots == (SUBSET Topics) \cup {Nothing}
Payloads == [Streams -> Snapshots] \cup {Nothing}
Verdicts == {Online, Offline, Nothing}

Publishers ==
    [lastAvailability : Verdicts, offlinePublishPending : BOOLEAN,
     cachedDiscovery : SUBSET Topics, cachedState : Payloads,
     discoveryPayloads : SUBSET Topics, discoveryShapeSig : Snapshots,
     discoveryState : SUBSET Topics,
     snapshot : [Streams -> Snapshots], up : [Streams -> BOOLEAN]]
Handlers ==
    [who : {"none", "success", "failure", "connect", "close"}, stream : Streams,
     previous : Snapshots, pc : {"start", "discovery", "availability", "offline"},
     topics : SUBSET Topics]
Messages ==
    [topic : {"availability"}, value : {Online, Offline}]
    \cup [topic : {"state"}, value : Payloads] \cup [topic : {"discovery"}, value : Topics]

\* NewPublisher: a process starts from its manifest and an empty cache.
Fresh == [lastAvailability |-> Nothing, offlinePublishPending |-> FALSE,
          cachedDiscovery |-> {}, cachedState |-> Nothing,
          discoveryPayloads |-> {}, discoveryShapeSig |-> Nothing,
          discoveryState |-> disk,
          snapshot |-> [s \in Streams |-> Nothing], up |-> [s \in Streams |-> FALSE]]

TypeOK ==
    /\ meters \subseteq Meters /\ manifest \in BOOLEAN /\ disk \subseteq Topics
    /\ run \in {"running", "closing", "closed", "dead"}
    /\ pub \in Publishers /\ job \in Handlers
    /\ open \in BOOLEAN /\ hooks \in Nat
    /\ wire \in Seq(Messages) /\ Len(wire) <= Window
    /\ broker \in [availability : Verdicts, state : Payloads, discovery : SUBSET Topics]
    /\ goodbye \in BOOLEAN /\ faults \in 0 .. MaxFaults

Init ==
    /\ meters \in SUBSET Meters /\ manifest \in BOOLEAN
    /\ disk = {} /\ run = "running" /\ job = None
    /\ pub = Fresh
    /\ open = FALSE /\ hooks = 0 /\ wire = <<>>
    /\ broker = [availability |-> Nothing, state |-> Nothing, discovery |-> {}]
    /\ goodbye = FALSE /\ faults = 0

-----------------------------------------------------------------------------
(* One publish: publishBytes.                                              *)

Message(topic, value) == [topic |-> topic, value |-> value]

Fault == faults < MaxFaults /\ faults' = faults + 1

Sent(m) ==
    /\ open /\ Len(wire) < Window
    /\ wire' = Append(wire, m) /\ UNCHANGED faults

NotSent(m) ==
    \/ ~open /\ UNCHANGED <<wire, faults>>
    \/ /\ open /\ Len(wire) < Window /\ Fault
       /\ wire' \in {wire, Append(wire, m)}

Applied(b, m) ==
    CASE m.topic = "availability" -> [b EXCEPT !.availability = m.value]
      [] m.topic = "state"        -> [b EXCEPT !.state = m.value]
      [] OTHER                    -> [b EXCEPT !.discovery = @ \cup {m.value}]

-----------------------------------------------------------------------------
(* The transaction of a poll: publishSnapshotLocked.                       *)

\* publishIndependentLocked: what one combined snapshot of p's streams holds.
Shown(p) == IF independentMeters THEN {s \in {Inverter} \cup meters : p.up[s]} ELSE {Inverter}
Shape(p) == UNION {p.snapshot[s] : s \in Shown(p)}
buildStatePayload(p) == [s \in Streams |-> IF s \in Shown(p) THEN p.snapshot[s] ELSE Nothing]

\* The availability that goes with it.
availabilityOf(p) ==
    IF independentMeters /\ \A s \in {Inverter} \cup meters : ~p.up[s] THEN Offline ELSE Online

\* The topics of this transaction (the entities every shape has, such as the
\* device's identity, are left out): the whole manifest, or a shape that is not
\* the one published last; those already published are skipped.
Candidate(p) == p.discoveryState \cup Shape(p)
ShapeIsNew(p) == manifest \/ Shape(p) # p.discoveryShapeSig
Owned(p) == IF manifest THEN Candidate(p) ELSE Shape(p)
discoveryMessages(p) == IF ShapeIsNew(p) THEN Owned(p) \ p.discoveryPayloads ELSE {}

\* From the commit of the schema to the first publish.
Cached(p) ==
    [p EXCEPT !.discoveryState = IF manifest THEN Candidate(p) ELSE @,
              !.cachedDiscovery = IF ShapeIsNew(p) THEN Owned(p) ELSE @,
              !.cachedState = buildStatePayload(p),
              !.lastAvailability = availabilityOf(p),
              !.offlinePublishPending = FALSE]

\* persistDiscoveryState, when the snapshot taught the schema something.
Persisted(p) ==
    /\ disk' = IF manifest /\ ~(Shape(p) \subseteq p.discoveryState) THEN Candidate(p) ELSE disk
    /\ UNCHANGED faults

\* The snapshot conflicts with the schema, or the file is not replaced, or it
\* is replaced and syncing its directory fails.
NotPersisted(p) ==
    /\ manifest /\ Fault
    /\ \/ UNCHANGED disk
       \/ ~(Shape(p) \subseteq p.discoveryState) /\ disk' = Candidate(p)

\* markPublicationFailureLocked, up to its publish.
MarkedFailed(p) == [p EXCEPT !.lastAvailability = Offline, !.offlinePublishPending = TRUE]

\* The deferred function of OnPollSuccess, up to its publish.
Invalidated(p) ==
    [p EXCEPT !.lastAvailability = Offline,
              !.offlinePublishPending = @ \/ p.lastAvailability = Online]

\* The snapshot of a failed transaction is taken back.
RolledBack(p, j) ==
    IF j.who = "success" /\ independentMeters
    THEN [p EXCEPT !.snapshot[j.stream] = j.previous, !.up[j.stream] = FALSE]
    ELSE p

\* What a handler does with the error of its transaction.
AfterError(p, j) ==
    IF j.who = "success" /\ j.stream = Inverter
    THEN Invalidated(RolledBack(p, j))
    ELSE MarkedFailed(RolledBack(p, j))

GoesOffline(p, j) ==
    /\ pub' = AfterError(p, j)
    /\ job' = IF pub'.offlinePublishPending THEN [j EXCEPT !.pc = "offline"] ELSE None

\* Wrong variant: the error is swallowed with independent streams too.
Abandon_Swallows(p) == pub' = p /\ job' = None

\* An error of a publish: without an independent stream it is logged and
\* swallowed, whoever published.
Abandon(p) ==
    IF independentMeters THEN GoesOffline(p, job) ELSE pub' = p /\ job' = None

\* Wrong variant: a failed write of the manifest is logged, and the poll goes on.
Transaction_GoesOn(p, j) ==
    /\ Persisted(p) \/ NotPersisted(p)
    /\ pub' = Cached(p)
    /\ job' = [j EXCEPT !.pc = "discovery", !.topics = discoveryMessages(p)]

Transaction(p, j) ==
    \/ /\ Persisted(p)
       /\ pub' = Cached(p)
       /\ job' = [j EXCEPT !.pc = "discovery", !.topics = discoveryMessages(p)]
    \/ NotPersisted(p) /\ j.who = "success" /\ GoesOffline(p, j)

-----------------------------------------------------------------------------
(* The handlers that take p.mu.                                            *)

Lock == Idle /\ run \in {"running", "closing"}

\* Wrong variant: a poll that ends during the shutdown still publishes.
OnPollSuccess_AfterClose(s, shape) ==
    /\ Lock
    /\ Transaction([pub EXCEPT !.snapshot[s] = shape, !.up[s] = independentMeters],
                   Handler("success", s, pub.snapshot[s]))
    /\ UNCHANGED <<config, run, link, wire, broker, goodbye>>

\* OnPollSuccess of the publisher and of a meter's observer.
OnPollSuccess(s, shape) ==
    /\ Lock /\ run = "running"
    /\ Transaction([pub EXCEPT !.snapshot[s] = shape, !.up[s] = independentMeters],
                   Handler("success", s, pub.snapshot[s]))
    /\ UNCHANGED <<config, run, link, wire, broker, goodbye>>

\* Wrong variant: an offline already decided is not published again.
OnPollFailure_Once(s) ==
    /\ Lock /\ run = "running"
    /\ IF independentMeters
       THEN Transaction([pub EXCEPT !.up[s] = FALSE], Handler("failure", s, Nothing))
       ELSE /\ pub' = IF pub.lastAvailability = Offline THEN pub ELSE MarkedFailed(pub)
            /\ job' = IF pub.lastAvailability = Offline THEN None
                      ELSE [Handler("failure", s, Nothing) EXCEPT !.pc = "offline"]
            /\ UNCHANGED <<disk, faults>>
    /\ UNCHANGED <<config, run, link, wire, broker, goodbye>>

\* OnPollFailure; a meter's snapshot with a foreign metric ends here too.
OnPollFailure(s) ==
    /\ Lock /\ run = "running"
    /\ IF independentMeters
       THEN Transaction([pub EXCEPT !.up[s] = FALSE], Handler("failure", s, Nothing))
       ELSE /\ pub' = MarkedFailed(pub)
            /\ job' = [Handler("failure", s, Nothing) EXCEPT !.pc = "offline"]
            /\ UNCHANGED <<disk, faults>>
    /\ UNCHANGED <<config, run, link, wire, broker, goodbye>>

\* onConnect: the whole cache again, or the last offline of a shutdown.
onConnect ==
    /\ Lock /\ hooks > 0
    /\ hooks' = hooks - 1
    /\ job' = CASE run = "running" ->
                       [Handler("connect", Inverter, Nothing) EXCEPT !.pc = "discovery",
                                                       !.topics = pub.cachedDiscovery]
                [] run = "closing" /\ open ->
                       [Handler("connect", Inverter, Nothing) EXCEPT !.pc = "offline"]
                [] OTHER -> None
    /\ UNCHANGED <<config, disk, run, pub, open, wire, broker, goodbye, faults>>

\* Close, up to its publish.
Close ==
    /\ Lock /\ run = "running"
    /\ run' = "closing"
    /\ pub' = [pub EXCEPT !.lastAvailability = Offline]
    /\ job' = IF open THEN [Handler("close", Inverter, Nothing) EXCEPT !.pc = "offline"] ELSE None
    /\ UNCHANGED <<config, disk, link, wire, broker, goodbye, faults>>

-----------------------------------------------------------------------------
(* The publishes of the handler that holds the lock, in their order.       *)

PublishDiscovery ==
    \E t \in job.topics :
        LET m == Message("discovery", t) IN
        /\ job.pc = "discovery"
        /\ \/ /\ Sent(m)
              /\ pub' = [pub EXCEPT !.discoveryPayloads = @ \cup {t}]
              /\ job' = [job EXCEPT !.topics = @ \ {t}]
           \/ NotSent(m) /\ Abandon(pub)
        /\ UNCHANGED <<config, disk, run, link, broker, goodbye>>

\* The shape is complete on the broker: the state follows.
ShapePublished ==
    IF job.who = "connect" /\ pub.cachedState = Nothing THEN pub
    ELSE [pub EXCEPT !.discoveryShapeSig = IF job.who = "connect" THEN pub.cachedDiscovery
                                           ELSE Owned(pub)]

PublishState ==
    LET m == Message("state", pub.cachedState) IN
    /\ ~Idle /\ job.pc = "discovery" /\ job.topics = {}
    /\ \/ /\ pub.cachedState = Nothing \* only before the first poll, in onConnect
          /\ pub' = ShapePublished
          /\ job' = [job EXCEPT !.pc = "availability"]
          /\ UNCHANGED <<wire, faults>>
       \/ /\ pub.cachedState # Nothing /\ Sent(m)
          /\ pub' = ShapePublished
          /\ job' = [job EXCEPT !.pc = "availability"]
       \/ pub.cachedState # Nothing /\ NotSent(m) /\ Abandon(ShapePublished)
    /\ UNCHANGED <<config, disk, run, link, broker, goodbye>>

PublishAvailability ==
    LET m == Message("availability",
                     IF pub.lastAvailability = Nothing THEN Offline ELSE pub.lastAvailability)
    IN  /\ ~Idle /\ job.pc = "availability"
        /\ \/ /\ Sent(m)
              /\ pub' = [pub EXCEPT !.offlinePublishPending = FALSE]
              /\ job' = None
           \/ NotSent(m) /\ Abandon(pub)
        /\ UNCHANGED <<config, disk, run, link, broker, goodbye>>

\* The offline of a failed poll, of a failed transaction or of a shutdown.
PublishOffline ==
    LET m == Message("availability", Offline) IN
    /\ ~Idle /\ job.pc = "offline"
    /\ \/ /\ Sent(m)
          /\ pub' = IF run = "running" THEN [pub EXCEPT !.offlinePublishPending = FALSE] ELSE pub
          /\ goodbye' = (goodbye \/ run = "closing")
       \/ NotSent(m) /\ UNCHANGED <<pub, goodbye>>
    /\ job' = None
    /\ UNCHANGED <<config, disk, run, link, broker>>

Publish == PublishDiscovery \/ PublishState \/ PublishAvailability \/ PublishOffline

-----------------------------------------------------------------------------
(* The connection, the broker and the process.                             *)

Deliver ==
    /\ wire # <<>>
    /\ broker' = Applied(broker, Head(wire)) /\ wire' = Tail(wire)
    /\ UNCHANGED <<config, disk, run, pub, job, link, goodbye, faults>>

\* connectUntilReady, and the client's own reconnects after that.
Connect ==
    /\ ~open /\ run \in {"running", "closing"}
    /\ open' = TRUE /\ hooks' = hooks + 1
    /\ UNCHANGED <<config, disk, run, pub, job, wire, broker, goodbye, faults>>

Will == [broker EXCEPT !.availability = Offline]

\* The connection breaks: the broker publishes the will, at the latest when
\* the same client connects again.
ConnectionLost ==
    /\ open /\ Fault
    /\ open' = FALSE /\ wire' = <<>> /\ broker' = Will
    /\ UNCHANGED <<config, disk, run, pub, job, hooks, goodbye>>

\* The broker itself goes away: there is nobody to publish the will, and what
\* it retained may be gone.
BrokerRestarts ==
    /\ Fault
    /\ open' = FALSE /\ wire' = <<>> /\ goodbye' = FALSE
    /\ \/ UNCHANGED broker
       \/ /\ BrokerForgets
          /\ broker' = [availability |-> Nothing, state |-> Nothing, discovery |-> {}]
    /\ UNCHANGED <<config, disk, run, pub, job, hooks>>

\* Disconnect: the broker reads everything up to the DISCONNECT packet and
\* drops the will, or the socket breaks first.
Disconnect ==
    /\ run = "closing" /\ job.who # "close"
    /\ run' = "closed" /\ open' = FALSE /\ wire' = <<>>
    /\ \/ wire = <<>> /\ UNCHANGED broker
       \/ open /\ broker' = Will
    /\ pub' = Fresh /\ job' = None /\ hooks' = 0  \* nothing of them can reach the broker
    /\ UNCHANGED <<config, disk, goodbye, faults>>

Crash ==
    /\ run \in {"running", "closing"} /\ Fault
    /\ run' = "dead" /\ pub' = Fresh /\ job' = None
    /\ open' = FALSE /\ hooks' = 0 /\ wire' = <<>> /\ goodbye' = FALSE
    /\ broker' = IF open THEN Will ELSE broker
    /\ UNCHANGED <<config, disk>>

\* NewPublisher and Start in a new process.
Start ==
    /\ run \in {"closed", "dead"}
    /\ run' = "running" /\ goodbye' = FALSE
    /\ UNCHANGED <<config, disk, pub, job, link, wire, broker, faults>>

Poll(s) ==
    /\ s \in {Inverter} \cup meters
    /\ OnPollFailure(s) \/ \E shape \in Shapes[s] : OnPollSuccess(s, shape)

Next ==
    \/ \E s \in Streams : Poll(s)
    \/ onConnect \/ Close \/ Publish
    \/ Deliver \/ Connect \/ ConnectionLost \/ BrokerRestarts
    \/ Disconnect \/ Crash \/ Start

Spec == Init /\ [][Next]_vars

\* An outage: polls recur and fail again and again, whatever succeeds between
\* them.  A waiter is never denied p.mu for ever (Go's mutexes hand over to a
\* starving waiter); the client and the network go on.
FairSpec ==
    /\ Spec
    /\ SF_vars(\E s \in {Inverter} \cup meters : OnPollFailure(s))
    /\ SF_vars(onConnect)
    /\ WF_vars(Publish) /\ WF_vars(Deliver) /\ WF_vars(Connect)

-----------------------------------------------------------------------------
(* What the publisher promises to whoever reads the broker.                *)

\* Nothing is on its way: no handler runs or waits, every byte has arrived.
Settled == Idle /\ run = "running" /\ open /\ hooks = 0 /\ wire = <<>>

\* With independent streams, whatever was interleaved, lost, timed out or
\* rolled back on the way: once settled, entities that the broker shows as
\* available show the streams exactly as the publisher knows them, at least
\* one of them up; or else the publisher still knows it owes an offline
\* (publishIndependentLocked, markPublicationFailureLocked, onConnect).
OnlineIsCurrent ==
    independentMeters /\ Settled /\ broker.availability = Online
        => \/ pub.offlinePublishPending
           \/ /\ \E s \in Streams : pub.up[s]
              /\ broker.state = buildStatePayload(pub)

\* With a manifest, no entity reaches the broker, or the wire to it, before
\* the file owns it, over crashes and failed writes (persistDiscoveryState in
\* publishSnapshotLocked): a restarted bridge can always account for it.
PublishedIsOwned ==
    manifest =>
        /\ broker.discovery \subseteq disk
        /\ \A i \in 1 .. Len(wire) : wire[i].topic = "discovery" => wire[i].value \in disk

\* The offline written by a shutdown is the last word of the process: no poll
\* and no late connection makes the broker say online after it (Close and the
\* closing branches of onConnect and of the observers).
GoodbyeIsFinal == run = "closed" /\ goodbye => broker.availability = Offline

\* An offline verdict reaches the broker, or a later poll supersedes it,
\* however the publish of it failed: the next poll or connection retries it
\* (offlinePublishPending, OnPollFailure, onConnect).
OfflineReaches ==
    run = "running" /\ broker.availability = Online /\ pub.lastAvailability = Offline
        ~> \/ broker.availability # Online
           \/ pub.lastAvailability = Online
           \/ run # "running"

\* Once settled with its state up to date on the broker, a poll's entities are
\* all there too: "Home Assistant may miss retained discovery/state writes
\* during broker restarts, so replay the cached shape and state on every
\* reconnect" (onConnect).
DiscoveryIsRepublished ==
    Settled /\ broker.availability = Online /\ broker.state = pub.cachedState
            /\ pub.cachedState = buildStatePayload(pub)
        => Shape(pub) \subseteq broker.discovery

=============================================================================
