------------------------------ MODULE Discovery ------------------------------
(***************************************************************************)
(* Which entities the publisher creates in Home Assistant, who may own     *)
(* them, and which values it shows under them (hamqtt/discovery_state.go   *)
(* and the discovery half of hamqtt/publisher.go), over the file, the      *)
(* broker and the memory of one process.  Serve composes these actions     *)
(* with the life of the process.                                           *)
(*                                                                         *)
(* Publisher has the availability of all entities and every publish as a   *)
(* step.  Here the publishes of one handler are one step that succeeds, or *)
(* breaks off anywhere.                                                    *)
(*                                                                         *)
(* Data: a reading is a metric without its value: its state key, its kind  *)
(* (which category owns it: "ordinary", "alert" or "meter") and its schema *)
(* (group, key, name, unit).  A snapshot is a set of readings.  Metadata   *)
(* keys are ordinary readings of the primary source.                       *)
(***************************************************************************)
EXTENDS Naturals, FiniteSets, Sequences

CONSTANTS
    Sources,     \* the inverter sources
    Meter,       \* the Shelly meter
    Reports,     \* Sources and Meter -> the snapshots it may return
    Serial,      \* Sources -> the identity its snapshots carry
    DeviceID,    \* the identity an operator configures
    MaxFaults,   \* bound: failed writes and publishes, lost connections, crashes
    Nothing      \* model value: absent

VARIABLES
    conf,        \* the configuration of the process, Nothing without a process
    disk,        \* the manifest file, or Nothing
    mem,         \* the fields of Publisher, Nothing without a publisher
    job,         \* the handler that holds p.mu, or Nothing
    link,        \* is the connection open, and does an onConnect wait?
    broker,      \* the retained entities and states
    faults

Readings == UNION UNION {Reports[s] : s \in Sources \cup {Meter}}
Keys == {r.key : r \in Readings}
Of(kind, R) == {r \in R : r.kind = kind}

\* What the files, the memory and the broker hold of them.
Devices == {DeviceID} \cup {Serial[s] : s \in Sources}
Manifests == [primary : Sources, ordinary : SUBSET Readings, meter : SUBSET Readings,
              alerts : [Sources -> SUBSET Readings]]
Snapshots == [source : Sources, readings : SUBSET Readings]
Entities == [device : Devices, key : Keys, reading : Readings, domains : SUBSET Sources]
States == [device : Devices, domain : Sources, values : SUBSET Readings]
Signatures == (Devices \X Snapshots) \cup {Nothing}
Publishers ==
    [discoveryState : Manifests \cup {Nothing},
     discoveryPayloads : SUBSET Entities, discoveryShapeSig : Signatures,
     cachedDiscovery : SUBSET Entities, cachedDiscoverySig : Signatures,
     cachedState : States \cup {Nothing},
     inverterSnapshot : Snapshots \cup {Nothing}, inverterUp : BOOLEAN,
     meterReadings : SUBSET Readings, meterUp : BOOLEAN]

\* A meter reports meter readings only, and Nothing is nothing of the above.
ASSUME DiscoveryAssumption ==
    /\ Meter \notin Sources
    /\ \A r \in Readings : r.kind \in {"ordinary", "alert", "meter"}
    /\ \A r \in UNION Reports[Meter] : r.kind = "meter"
    /\ MaxFaults \in Nat
    /\ Nothing \notin Readings /\ Nothing \notin Manifests /\ Nothing \notin Snapshots
    /\ Nothing \notin States /\ Nothing \notin Devices \X Snapshots
    /\ Nothing \notin Publishers

\* One key means one thing.
Agree(R) == \A r, q \in R : r.key = q.key => r = q

Fault == faults < MaxFaults /\ faults' = faults + 1

-----------------------------------------------------------------------------
(* The manifest: discoveryState.                                           *)

newDiscoveryState(primary) ==
    [primary |-> primary, ordinary |-> {}, meter |-> {}, alerts |-> [s \in Sources |-> {}]]

allMetrics(m) == m.ordinary \cup m.meter \cup UNION {m.alerts[s] : s \in Sources}

alertMetricDomains(m, r) == {s \in Sources : r \in m.alerts[s]}

\* Wrong variant: whoever answers first owns the ordinary entities.
mergeSnapshot_Anyone(m, snapshot) ==
    LET R == snapshot.readings IN
    [m EXCEPT !.ordinary = @ \cup Of("ordinary", R),
              !.meter = @ \cup Of("meter", R),
              !.alerts[snapshot.source] = @ \cup Of("alert", R)]

mergeSnapshot(m, snapshot) ==
    LET R == snapshot.readings IN
    [m EXCEPT !.ordinary = IF snapshot.source = m.primary THEN @ \cup Of("ordinary", R) ELSE @,
              !.meter = @ \cup Of("meter", R),
              !.alerts[snapshot.source] = @ \cup Of("alert", R)]

\* A category would get a second meaning for a key, or a fallback reports an
\* owned ordinary entity with another meaning.
mergeConflicts(m, snapshot) ==
    LET c == mergeSnapshot(m, snapshot) IN
    \/ ~Agree(c.ordinary) \/ ~Agree(c.meter) \/ ~Agree(c.alerts[snapshot.source])
    \/ ~Agree(m.ordinary \cup Of("ordinary", snapshot.readings)) /\ snapshot.source # m.primary

\* Across the categories too, and across the alert sources.
validateDiscoveryState(m) == Agree(allMetrics(m))

\* NewPublisher: the manifest of this installation, or a new one.
loadDiscoveryState(primary) == IF disk = Nothing THEN newDiscoveryState(primary) ELSE disk

loadRefuses(primary) == disk # Nothing /\ disk.primary # primary

-----------------------------------------------------------------------------
(* The messages.                                                           *)

independentMeters == conf.meter

\* device: the configured identity, or the one the snapshot carries.
device(snapshot) == IF conf.deviceID THEN DeviceID ELSE Serial[snapshot.source]

Entity(dev, r, domains) == [device |-> dev, key |-> r.key, reading |-> r, domains |-> domains]

\* Wrong variant: an alert entity is available whoever reports.
discoveryMessages_AnyDomain(p, snapshot) ==
    IF p.discoveryState # Nothing
    THEN {Entity(device(snapshot), r, IF r.kind = "alert" THEN Sources ELSE {}) :
             r \in allMetrics(p.discoveryState)}
    ELSE {Entity(device(snapshot), r, IF r.kind = "alert" THEN Sources ELSE {}) :
             r \in snapshot.readings}

\* With a manifest the whole schema, else the entities of the snapshot; an alert
\* entity is available while one of its domains reports.
discoveryMessages(p, snapshot) ==
    IF p.discoveryState # Nothing
    THEN {Entity(device(snapshot), r, alertMetricDomains(p.discoveryState, r)) :
             r \in allMetrics(p.discoveryState)}
    ELSE {Entity(device(snapshot), r, IF r.kind = "alert" THEN {snapshot.source} ELSE {}) :
             r \in snapshot.readings}

discoverySignature(snapshot) == <<device(snapshot), snapshot>>

metricOwnedByDiscoveryState(p, source, r) ==
    p.discoveryState # Nothing =>
        LET m == p.discoveryState
            owned == CASE r.kind = "alert" -> m.alerts[source]
                       [] r.kind = "meter" -> m.meter
                       [] OTHER            -> m.ordinary
        IN  \E q \in owned : q.key = r.key

buildStatePayload(p, snapshot) ==
    [device |-> device(snapshot), domain |-> snapshot.source,
     values |-> {r \in snapshot.readings : metricOwnedByDiscoveryState(p, snapshot.source, r)}]

-----------------------------------------------------------------------------
(* The memory of the publisher, and the transaction of a poll.             *)

\* NewPublisher and Start.
FreshPublisher(c, state) ==
    [discoveryState |-> IF c.discoveryStateFile THEN state ELSE Nothing,
     discoveryPayloads |-> {}, discoveryShapeSig |-> Nothing,
     cachedDiscovery |-> {}, cachedDiscoverySig |-> Nothing, cachedState |-> Nothing,
     inverterSnapshot |-> Nothing, inverterUp |-> FALSE, meterReadings |-> {}, meterUp |-> FALSE]

\* publishIndependentLocked: one snapshot of both streams, as far as they are up.
combined(p) ==
    [source |-> IF p.inverterSnapshot = Nothing THEN conf.sourcePriority[1]
                ELSE p.inverterSnapshot.source,
     readings |-> (IF p.inverterUp THEN p.inverterSnapshot.readings \ Of("meter", Readings)
                   ELSE {})
                  \cup (IF p.meterUp THEN p.meterReadings ELSE {})]

Handler(who, stream, previous) ==
    [who |-> who, stream |-> stream, previous |-> previous, messages |-> {}, sig |-> Nothing]

\* An error: the stream of a failed success gets its last snapshot back, and is
\* down.  Without an independent meter nothing is kept that could go back.
AfterError(p, j) ==
    IF j.who # "success" \/ ~independentMeters THEN p
    ELSE IF j.stream = Meter THEN [p EXCEPT !.meterReadings = j.previous, !.meterUp = FALSE]
    ELSE [p EXCEPT !.inverterSnapshot = j.previous, !.inverterUp = FALSE]

GivesUp(p, j) == mem' = AfterError(p, j) /\ job' = Nothing

\* From the committed schema to the first publish.
Cached(p, snapshot, j) ==
    LET sig == IF p.discoveryState = Nothing THEN discoverySignature(snapshot) ELSE Nothing
        new == p.discoveryState # Nothing \/ sig # p.discoveryShapeSig
        messages == IF new THEN discoveryMessages(p, snapshot) ELSE {}
    IN  /\ mem' = [p EXCEPT !.cachedDiscovery = IF new THEN messages ELSE @,
                            !.cachedDiscoverySig = IF new THEN sig ELSE @,
                            !.cachedState = buildStatePayload(p, snapshot)]
        /\ job' = [j EXCEPT !.messages = messages \ p.discoveryPayloads, !.sig = sig]

\* Wrong variant: a failed write is logged, and the poll is published.
OwnedTransaction_GoesOn(p, snapshot, j) ==
    LET m == p.discoveryState
        c == mergeSnapshot(m, snapshot)
        fits == ~mergeConflicts(m, snapshot) /\ (c # m => validateDiscoveryState(c))
    IN  \/ ~fits /\ GivesUp(p, j) /\ UNCHANGED <<disk, faults>>
        \/ fits /\ c = m /\ Cached(p, snapshot, j) /\ UNCHANGED <<disk, faults>>
        \/ /\ fits /\ c # m /\ Cached([p EXCEPT !.discoveryState = c], snapshot, j)
           /\ \/ disk' = c /\ UNCHANGED faults
              \/ Fault /\ disk' \in {disk, c}

\* publishSnapshotLocked with a manifest: the schema is on disk before any
\* message.  A write fails before the file is replaced, or after.
OwnedTransaction(p, snapshot, j) ==
    LET m == p.discoveryState
        c == mergeSnapshot(m, snapshot)
        fits == ~mergeConflicts(m, snapshot) /\ (c # m => validateDiscoveryState(c))
    IN  \/ ~fits /\ GivesUp(p, j) /\ UNCHANGED <<disk, faults>>
        \/ fits /\ c = m /\ Cached(p, snapshot, j) /\ UNCHANGED <<disk, faults>>
        \/ /\ fits /\ c # m
           /\ \/ disk' = c /\ Cached([p EXCEPT !.discoveryState = c], snapshot, j) /\ UNCHANGED faults
              \/ Fault /\ disk' \in {disk, c} /\ GivesUp(p, j)

\* Without one: two meanings of one key are one topic twice.
FreeTransaction(p, snapshot, j) ==
    LET new == discoverySignature(snapshot) # p.discoveryShapeSig IN
    /\ IF new /\ ~Agree(snapshot.readings) THEN GivesUp(p, j) ELSE Cached(p, snapshot, j)
    /\ UNCHANGED <<disk, faults>>

Transaction(p, snapshot, j) ==
    IF p.discoveryState # Nothing THEN OwnedTransaction(p, snapshot, j)
    ELSE FreeTransaction(p, snapshot, j)

-----------------------------------------------------------------------------
(* The handlers that take p.mu.                                            *)

Lock == mem # Nothing /\ job = Nothing

OnPollSuccess(stream, snapshot) ==
    LET p == IF ~independentMeters THEN mem
             ELSE IF stream = Meter
             THEN [mem EXCEPT !.meterReadings = snapshot.readings, !.meterUp = TRUE]
             ELSE [mem EXCEPT !.inverterSnapshot = snapshot, !.inverterUp = TRUE]
        j == Handler("success", stream,
                     IF ~independentMeters THEN Nothing
                     ELSE IF stream = Meter THEN mem.meterReadings ELSE mem.inverterSnapshot)
    IN  /\ Lock
        /\ Transaction(p, IF independentMeters THEN combined(p) ELSE snapshot, j)
        /\ UNCHANGED <<link, broker>>

\* With a single stream only the availability goes offline.
OnPollFailure(stream) ==
    LET p == IF stream = Meter THEN [mem EXCEPT !.meterUp = FALSE] ELSE [mem EXCEPT !.inverterUp = FALSE]
    IN  /\ Lock
        /\ IF independentMeters THEN Transaction(p, combined(p), Handler("failure", stream, Nothing))
           ELSE UNCHANGED <<mem, job, disk, faults>>
        /\ UNCHANGED <<link, broker>>

onConnect ==
    /\ Lock /\ link.hook
    /\ link' = [link EXCEPT !.hook = FALSE]
    /\ job' = [Handler("connect", Nothing, Nothing) EXCEPT
                  !.messages = mem.cachedDiscovery, !.sig = mem.cachedDiscoverySig]
    /\ UNCHANGED <<disk, mem, broker, faults>>

\* A retained message replaces the one of its topic.
Retained(S, new) == {e \in S : \A m \in new : <<m.device, m.key>> # <<e.device, e.key>>} \cup new

Arrived(b, messages, state) ==
    [entities |-> Retained(b.entities, messages),
     states |-> IF state = Nothing THEN b.states
                ELSE {s \in b.states : s.device # state.device} \cup {state}]

\* What the publisher remembers of accepted messages.
Remembered(p, acked) ==
    [p EXCEPT !.discoveryPayloads = Retained(@, acked),
              !.discoveryShapeSig = IF acked = job.messages /\ job.sig # Nothing THEN job.sig ELSE @]

Publish ==
    /\ job # Nothing /\ link.open
    /\ broker' = Arrived(broker, job.messages, mem.cachedState)
    /\ mem' = Remembered(mem, job.messages)
    /\ job' = Nothing
    /\ UNCHANGED <<disk, link, faults>>

\* Not connected: the first publish fails.
PublishRefused ==
    /\ job # Nothing /\ ~link.open
    /\ GivesUp(Remembered(mem, {}), job)
    /\ UNCHANGED <<disk, link, broker, faults>>

\* A publish times out, and may arrive all the same.
PublishTimesOut ==
    /\ job # Nothing /\ link.open /\ Fault
    /\ \E acked \in SUBSET job.messages :
           /\ GivesUp(Remembered(mem, acked), job)
           /\ \/ broker' = Arrived(broker, acked, Nothing)
              \/ \E late \in job.messages \ acked :
                     broker' = Arrived(broker, acked \cup {late}, Nothing)
              \/ acked = job.messages /\ broker' = Arrived(broker, acked, mem.cachedState)
    /\ UNCHANGED <<disk, link>>

\* The connection takes with it what it had accepted, perhaps all of it.
PublishLost ==
    /\ job # Nothing /\ link.open /\ Fault
    /\ link' = [link EXCEPT !.open = FALSE]
    /\ \E acked \in SUBSET job.messages : \E arrived \in SUBSET acked :
           /\ broker' = Arrived(broker, arrived, Nothing)
           /\ \/ GivesUp(Remembered(mem, acked), job)
              \/ acked = job.messages /\ mem' = Remembered(mem, acked) /\ job' = Nothing
    /\ UNCHANGED disk

Connect ==
    /\ mem # Nothing /\ ~link.open
    /\ link' = [open |-> TRUE, hook |-> TRUE]
    /\ UNCHANGED <<disk, mem, job, broker, faults>>

ConnectionLost ==
    /\ link.open /\ Fault
    /\ link' = [link EXCEPT !.open = FALSE]
    /\ UNCHANGED <<disk, mem, job, broker>>

=============================================================================
