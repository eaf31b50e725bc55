----------------------------- MODULE ServeProofs -----------------------------
(***************************************************************************)
(* Serve and Discovery, for any sources, snapshots, configurations and     *)
(* number of faults: type correctness, how a process ends, the one device, *)
(* the manifest (whose entities it owns, that it implements the registry   *)
(* and starts again), and the values shown.                                *)
(*                                                                         *)
(* The invariants say what a step may bring to the file, to the memory and *)
(* to the broker; StepDoes sorts the steps of the process into four kinds  *)
(* for that, and only a poll of those brings anything new.                 *)
(***************************************************************************)
EXTENDS Serve, SequenceTheorems, TLAPS

-----------------------------------------------------------------------------
(* What the operators of Discovery return                                  *)

LEMMA ReadingsKnown ==
    /\ \A s \in Sources \cup {Meter} : \A R \in Reports[s] : R \in SUBSET Readings
    /\ \A r \in Readings : r.key \in Keys
BY DEF Readings, Keys

LEMMA ManifestsTyped ==
    ASSUME NEW m \in Manifests
    PROVE  /\ allMetrics(m) \in SUBSET Readings
           /\ \A r \in Readings : alertMetricDomains(m, r) \in SUBSET Sources
           /\ m.primary \in Sources /\ m.ordinary \in SUBSET Readings
<1>1. \A s \in Sources : m.alerts[s] \in SUBSET Readings
  BY DEF Manifests
<1>2. UNION {m.alerts[s] : s \in Sources} \in SUBSET Readings
  BY <1>1
<1>3. QED
  BY <1>2 DEF Manifests, allMetrics, alertMetricDomains

LEMMA FreshManifest ==
    ASSUME NEW primary \in Sources
    PROVE  newDiscoveryState(primary) \in Manifests /\ allMetrics(newDiscoveryState(primary)) = {}
<1>1. newDiscoveryState(primary) \in Manifests
  BY DEF newDiscoveryState, Manifests
<1>2. UNION {[x \in Sources |-> {}][s] : s \in Sources} = {}
  OBVIOUS
<1>3. QED
  BY <1>1, <1>2 DEF newDiscoveryState, allMetrics

\* A merge adds the readings of the snapshot, each to its category.
LEMMA MergeDoes ==
    ASSUME NEW m \in Manifests, NEW snapshot \in Snapshots
    PROVE  LET c == mergeSnapshot(m, snapshot)
               R == snapshot.readings
           IN  /\ c \in Manifests /\ c.primary = m.primary
               /\ c.ordinary = IF snapshot.source = m.primary THEN m.ordinary \cup Of("ordinary", R)
                               ELSE m.ordinary
               /\ c.meter = m.meter \cup Of("meter", R)
               /\ \A s \in Sources : c.alerts[s] = IF s = snapshot.source
                                                   THEN m.alerts[s] \cup Of("alert", R) ELSE m.alerts[s]
               /\ allMetrics(m) \subseteq allMetrics(c)
<1> DEFINE c == mergeSnapshot(m, snapshot)
           R == snapshot.readings
<1>1. snapshot.source \in Sources /\ R \in SUBSET Readings
      /\ \A kind \in {"ordinary", "meter", "alert"} : Of(kind, R) \in SUBSET Readings
  BY DEF Snapshots, Of
<1>2. /\ c.primary = m.primary
      /\ c.ordinary = IF snapshot.source = m.primary THEN m.ordinary \cup Of("ordinary", R) ELSE m.ordinary
      /\ c.meter = m.meter \cup Of("meter", R)
      /\ c.alerts = [m.alerts EXCEPT ![snapshot.source] = @ \cup Of("alert", R)]
  BY DEF mergeSnapshot, Manifests
<1>3. \A s \in Sources : c.alerts[s] = IF s = snapshot.source THEN m.alerts[s] \cup Of("alert", R)
                                       ELSE m.alerts[s]
  BY <1>1, <1>2 DEF Manifests
<1>4. [m.alerts EXCEPT ![snapshot.source] = @ \cup Of("alert", R)] \in [Sources -> SUBSET Readings]
  BY <1>1 DEF Manifests
<1>5. c \in Manifests
  <2> DEFINE o == IF snapshot.source = m.primary THEN m.ordinary \cup Of("ordinary", R) ELSE m.ordinary
             g == m.meter \cup Of("meter", R)
             l == [m.alerts EXCEPT ![snapshot.source] = @ \cup Of("alert", R)]
  <2>1. o \in SUBSET Readings /\ g \in SUBSET Readings /\ l \in [Sources -> SUBSET Readings]
    BY <1>1, <1>4 DEF Manifests
  <2>2. c = [m EXCEPT !.ordinary = o, !.meter = g, !.alerts = l]
    BY DEF mergeSnapshot, Manifests
  <2> HIDE DEF o, g, l
  <2>3. [m EXCEPT !.ordinary = o, !.meter = g, !.alerts = l] \in Manifests
    BY <2>1 DEF Manifests
  <2>4. QED
    BY <2>2, <2>3
<1> HIDE DEF c, R
<1>6. allMetrics(m) \subseteq allMetrics(c)
  <2>1. \A s \in Sources : m.alerts[s] \subseteq c.alerts[s]
    BY <1>3
  <2>2. QED
    BY <1>2, <2>1 DEF allMetrics
<1>7. QED
  BY <1>2, <1>3, <1>5, <1>6 DEF c, R

LEMMA MessagesTyped ==
    ASSUME NEW p \in Publishers, NEW snapshot \in Snapshots
    PROVE  /\ device(snapshot) \in Devices
           /\ discoveryMessages(p, snapshot) \in SUBSET Entities
           /\ \A e \in discoveryMessages(p, snapshot) :
                  e.device = device(snapshot) /\ e.key = e.reading.key
           /\ buildStatePayload(p, snapshot) \in States
           /\ discoverySignature(snapshot) \in Signatures
<1>1. device(snapshot) \in Devices
  BY DEF device, Devices, Snapshots
<1>2. \A r \in Readings : \A D \in SUBSET Sources :
          LET e == Entity(device(snapshot), r, D)
          IN  e \in Entities /\ e.device = device(snapshot) /\ e.key = e.reading.key /\ e.reading = r
  BY <1>1, ReadingsKnown DEF Entity, Entities
<1>3. /\ discoveryMessages(p, snapshot) \in SUBSET Entities
      /\ \A e \in discoveryMessages(p, snapshot) : e.device = device(snapshot) /\ e.key = e.reading.key
  <2>1. CASE p.discoveryState # Nothing
    <3>1. p.discoveryState \in Manifests
      BY <2>1 DEF Publishers
    <3>2. \A r \in allMetrics(p.discoveryState) :
              r \in Readings /\ alertMetricDomains(p.discoveryState, r) \in SUBSET Sources
      BY <3>1, ManifestsTyped
    <3>3. QED
      BY <1>2, <2>1, <3>2 DEF discoveryMessages
  <2>2. CASE p.discoveryState = Nothing
    <3>1. \A r \in snapshot.readings :
              r \in Readings /\ (IF r.kind = "alert" THEN {snapshot.source} ELSE {}) \in SUBSET Sources
      BY DEF Snapshots
    <3>2. QED
      BY <1>2, <2>2, <3>1 DEF discoveryMessages
  <2>3. QED
    BY <2>1, <2>2
<1>4. buildStatePayload(p, snapshot) \in States
  BY <1>1 DEF buildStatePayload, States, Snapshots
<1>5. discoverySignature(snapshot) \in Signatures
  BY <1>1 DEF discoverySignature, Signatures
<1>6. QED
  BY <1>1, <1>3, <1>4, <1>5

-----------------------------------------------------------------------------
(* What a transaction does                                                 *)

\* A snapshot reports what its source may report, but for the meter's readings.
Genuine(snapshot) ==
    /\ snapshot \in Snapshots
    /\ \A r \in snapshot.readings : r.kind # "meter" => r \in UNION Reports[snapshot.source]

Metered(R) == R \in SUBSET Readings /\ \A r \in R : r.kind = "meter"

\* What the publisher keeps of the last polls, and what a poll goes back to.
Kept(p) ==
    /\ p \in Publishers
    /\ p.inverterSnapshot # Nothing => Genuine(p.inverterSnapshot)
    /\ p.inverterUp => p.inverterSnapshot # Nothing
    /\ Metered(p.meterReadings)

PreviousOK(who, stream, previous) ==
    who = "success" /\ independentMeters =>
        IF stream = Meter THEN Metered(previous) ELSE previous # Nothing => Genuine(previous)

JobOK(j) ==
    /\ j.who \in {"success", "failure", "connect"} /\ j.stream \in Streams \cup {Nothing}
    /\ j.messages \in SUBSET Entities /\ j.sig \in Signatures
    /\ PreviousOK(j.who, j.stream, j.previous)

\* q is p but for what the polls left.
SameSchema(p, q) ==
    /\ q.discoveryState = p.discoveryState /\ q.cachedDiscovery = p.cachedDiscovery
    /\ q.cachedState = p.cachedState

LEMMA AfterErrorKeeps ==
    ASSUME NEW p, Kept(p), NEW j, PreviousOK(j.who, j.stream, j.previous)
    PROVE  Kept(AfterError(p, j)) /\ SameSchema(p, AfterError(p, j))
<1>1. p \in Publishers
  BY DEF Kept
<1>2. CASE j.who # "success" \/ ~independentMeters
  <2>1. AfterError(p, j) = p
    BY <1>2 DEF AfterError
  <2>2. QED
    BY <2>1 DEF SameSchema
<1>3. CASE j.who = "success" /\ independentMeters /\ j.stream = Meter
  <2>1. AfterError(p, j) = [p EXCEPT !.meterReadings = j.previous, !.meterUp = FALSE] /\ Metered(j.previous)
    BY <1>3 DEF AfterError, PreviousOK
  <2>2. QED
    BY <1>1, <2>1 DEF Kept, SameSchema, Publishers, Metered
<1>4. CASE j.who = "success" /\ independentMeters /\ j.stream # Meter
  <2> DEFINE q == [p EXCEPT !.inverterSnapshot = j.previous, !.inverterUp = FALSE]
  <2>1. AfterError(p, j) = q /\ (j.previous # Nothing => Genuine(j.previous))
    BY <1>4 DEF AfterError, PreviousOK
  <2>2. j.previous \in Snapshots \cup {Nothing}
    BY <2>1 DEF Genuine
  <2>3. q \in Publishers /\ q.inverterSnapshot = j.previous /\ q.inverterUp = FALSE
        /\ q.meterReadings = p.meterReadings /\ SameSchema(p, q)
    BY <1>1, <2>2 DEF Publishers, SameSchema
  <2>4. QED
    BY <2>1, <2>3 DEF Kept
<1>5. QED
  BY <1>2, <1>3, <1>4

LEMMA CombinedGenuine ==
    ASSUME NEW p, Kept(p), conf.sourcePriority[1] \in Sources
    PROVE  Genuine(combined(p))
<1> DEFINE u == p.inverterSnapshot
           a == IF p.inverterUp THEN u.readings \ Of("meter", Readings) ELSE {}
           b == IF p.meterUp THEN p.meterReadings ELSE {}
           v == IF u = Nothing THEN conf.sourcePriority[1] ELSE u.source
<1>1. combined(p) = [source |-> v, readings |-> a \cup b]
  BY DEF combined
<1>2. v \in Sources
  BY DEF Kept, Genuine, Snapshots
<1>3. Metered(b)
  BY DEF Kept, Metered
<1>4. a \in SUBSET Readings /\ \A r \in a : r.kind # "meter" => r \in UNION Reports[v]
  BY DEF Kept, Genuine, Snapshots
<1> HIDE DEF u, a, b, v
<1>5. QED
  BY <1>1, <1>2, <1>3, <1>4 DEF Genuine, Snapshots, Metered

LEMMA CachedDoes ==
    ASSUME NEW p, Kept(p), NEW snapshot, Genuine(snapshot),
           NEW who \in {"success", "failure"}, NEW stream \in Streams, NEW previous,
           PreviousOK(who, stream, previous), Cached(p, snapshot, Handler(who, stream, previous))
    PROVE  /\ Kept(mem') /\ mem'.discoveryState = p.discoveryState
           /\ mem'.cachedDiscovery \in {p.cachedDiscovery, discoveryMessages(p, snapshot)}
           /\ mem'.cachedState = buildStatePayload(p, snapshot)
           /\ JobOK(job') /\ job'.messages \subseteq discoveryMessages(p, snapshot)
<1> DEFINE sig == IF p.discoveryState = Nothing THEN discoverySignature(snapshot) ELSE Nothing
           new == p.discoveryState # Nothing \/ sig # p.discoveryShapeSig
           messages == IF new THEN discoveryMessages(p, snapshot) ELSE {}
           j == Handler(who, stream, previous)
           d == IF new THEN messages ELSE p.cachedDiscovery
           g == IF new THEN sig ELSE p.cachedDiscoverySig
           b == buildStatePayload(p, snapshot)
<1>1. p \in Publishers /\ snapshot \in Snapshots
  BY DEF Kept, Genuine
<1>2. sig \in Signatures /\ messages \in SUBSET Entities /\ d \in SUBSET Entities /\ g \in Signatures
      /\ b \in States
  <2>1. discoveryMessages(p, snapshot) \in SUBSET Entities /\ b \in States
        /\ discoverySignature(snapshot) \in Signatures
    BY <1>1, MessagesTyped
  <2>2. QED
    BY <1>1, <2>1 DEF Publishers, Signatures
<1>3. /\ mem' = [p EXCEPT !.cachedDiscovery = d, !.cachedDiscoverySig = g, !.cachedState = b]
      /\ job' = [j EXCEPT !.messages = messages \ p.discoveryPayloads, !.sig = sig]
  BY <1>1 DEF Cached, Publishers
<1>4. d \in {p.cachedDiscovery, discoveryMessages(p, snapshot)} /\ messages \subseteq discoveryMessages(p, snapshot)
  OBVIOUS
<1> HIDE DEF sig, new, messages, d, g, b
<1>5. /\ mem' \in Publishers /\ mem'.cachedDiscovery = d /\ mem'.cachedState = b
      /\ mem'.discoveryState = p.discoveryState /\ mem'.inverterSnapshot = p.inverterSnapshot
      /\ mem'.inverterUp = p.inverterUp /\ mem'.meterReadings = p.meterReadings
  BY <1>1, <1>2, <1>3 DEF Publishers
<1>6. Kept(mem')
  BY <1>5 DEF Kept
<1>7. /\ job'.who = who /\ job'.stream = stream /\ job'.previous = previous
      /\ job'.messages = messages \ p.discoveryPayloads /\ job'.sig = sig
  BY <1>3 DEF Handler
<1>8. JobOK(job')
  BY <1>2, <1>7 DEF JobOK
<1>9. QED
  BY <1>4, <1>5, <1>6, <1>7, <1>8 DEF b

\* The snapshot agrees with the schema, and so does what it teaches it.
Fits(m, snapshot) ==
    /\ ~mergeConflicts(m, snapshot)
    /\ mergeSnapshot(m, snapshot) # m => validateDiscoveryState(mergeSnapshot(m, snapshot))

\* The transaction goes on to its publishes with the schema of q ...
GoesOn(p, q, snapshot) ==
    /\ q \in Publishers /\ mem'.discoveryState = q.discoveryState
    /\ mem'.cachedDiscovery \in {p.cachedDiscovery, discoveryMessages(q, snapshot)}
    /\ mem'.cachedState = buildStatePayload(q, snapshot)
    /\ JobOK(job') /\ job'.messages \subseteq discoveryMessages(q, snapshot)
    /\ \/ p.discoveryState = Nothing /\ q.discoveryState = Nothing /\ disk' = disk
       \/ /\ p.discoveryState # Nothing /\ Fits(p.discoveryState, snapshot)
          /\ q.discoveryState = mergeSnapshot(p.discoveryState, snapshot)
          /\ disk' = q.discoveryState \/ (disk' = disk /\ q.discoveryState = p.discoveryState)

\* ... or gives up, having written it perhaps.
Stops(p, snapshot) ==
    /\ job' = Nothing /\ SameSchema(p, mem')
    /\ \/ disk' = disk
       \/ /\ p.discoveryState # Nothing /\ Fits(p.discoveryState, snapshot)
          /\ disk' = mergeSnapshot(p.discoveryState, snapshot)

LEMMA TransactionDoes ==
    ASSUME NEW p, Kept(p), NEW snapshot, Genuine(snapshot), disk \in Manifests \cup {Nothing},
           faults \in 0 .. MaxFaults,
           NEW who \in {"success", "failure"}, NEW stream \in Streams, NEW previous,
           PreviousOK(who, stream, previous), Transaction(p, snapshot, Handler(who, stream, previous))
    PROVE  /\ Kept(mem') /\ disk' \in Manifests \cup {Nothing} /\ faults' \in 0 .. MaxFaults
           /\ Stops(p, snapshot) \/ \E q : GoesOn(p, q, snapshot)
<1> DEFINE j == Handler(who, stream, previous)
           m == p.discoveryState
           c == mergeSnapshot(m, snapshot)
<1>1. p \in Publishers /\ snapshot \in Snapshots
  BY DEF Kept, Genuine
<1>2. PreviousOK(j.who, j.stream, j.previous)
  BY DEF Handler
<1>3. GivesUp(p, j) => Kept(mem') /\ SameSchema(p, mem') /\ job' = Nothing
  BY <1>2, AfterErrorKeeps DEF GivesUp
<1>4. ASSUME NEW q, Kept(q), Cached(q, snapshot, j)
      PROVE  /\ Kept(mem') /\ mem'.discoveryState = q.discoveryState
             /\ mem'.cachedDiscovery \in {q.cachedDiscovery, discoveryMessages(q, snapshot)}
             /\ mem'.cachedState = buildStatePayload(q, snapshot)
             /\ JobOK(job') /\ job'.messages \subseteq discoveryMessages(q, snapshot)
  BY <1>4, CachedDoes
<1> HIDE DEF j
<1>5. Fault => faults' \in 0 .. MaxFaults
  BY DiscoveryAssumption DEF Fault
<1>6. CASE m # Nothing
  <2>1. m \in Manifests
    BY <1>1, <1>6 DEF Publishers
  <2>2. c \in Manifests
    BY <1>1, <2>1, MergeDoes
  <2> DEFINE q == [p EXCEPT !.discoveryState = c]
  <2>3. Kept(q) /\ q.discoveryState = c /\ q.cachedDiscovery = p.cachedDiscovery
    BY <1>1, <2>2 DEF Kept, Publishers
  <2>4. OwnedTransaction(p, snapshot, j)
    BY <1>6 DEF Transaction, j
  <2> HIDE DEF q
  <2>5. \/ GivesUp(p, j) /\ UNCHANGED <<disk, faults>>
        \/ Fits(m, snapshot) /\ c = m /\ Cached(p, snapshot, j) /\ UNCHANGED <<disk, faults>>
        \/ Fits(m, snapshot) /\ disk' = c /\ Cached(q, snapshot, j) /\ UNCHANGED faults
        \/ Fits(m, snapshot) /\ Fault /\ disk' \in {disk, c} /\ GivesUp(p, j)
    BY <2>4 DEF OwnedTransaction, Fits, q
  <2>6. CASE GivesUp(p, j) /\ UNCHANGED <<disk, faults>>
    BY <1>3, <2>6 DEF Stops
  <2>7. CASE Fits(m, snapshot) /\ c = m /\ Cached(p, snapshot, j) /\ UNCHANGED <<disk, faults>>
    <3>1. GoesOn(p, p, snapshot) /\ Kept(mem')
      BY <1>1, <1>4, <1>6, <2>7 DEF GoesOn
    <3>2. QED
      BY <2>7, <3>1
  <2>8. CASE Fits(m, snapshot) /\ disk' = c /\ Cached(q, snapshot, j) /\ UNCHANGED faults
    <3>1. GoesOn(p, q, snapshot) /\ Kept(mem')
      <4>1. q \in Publishers
        BY <2>3 DEF Kept
      <4>2. QED
        BY <1>4, <1>6, <2>3, <2>8, <4>1 DEF GoesOn
    <3>2. QED
      BY <2>2, <2>8, <3>1
  <2>9. CASE Fits(m, snapshot) /\ Fault /\ disk' \in {disk, c} /\ GivesUp(p, j)
    BY <1>3, <1>5, <1>6, <2>2, <2>9 DEF Stops
  <2>10. QED
    BY <2>5, <2>6, <2>7, <2>8, <2>9
<1>7. CASE m = Nothing
  <2>1. FreeTransaction(p, snapshot, j)
    BY <1>7 DEF Transaction, j
  <2>2. (GivesUp(p, j) \/ Cached(p, snapshot, j)) /\ UNCHANGED <<disk, faults>>
    BY <2>1 DEF FreeTransaction
  <2>3. CASE GivesUp(p, j)
    BY <1>3, <2>2, <2>3 DEF Stops
  <2>4. CASE Cached(p, snapshot, j)
    <3>1. GoesOn(p, p, snapshot) /\ Kept(mem')
      BY <1>1, <1>4, <1>7, <2>2, <2>4 DEF GoesOn
    <3>2. QED
      BY <2>2, <3>1
  <2>5. QED
    BY <2>2, <2>3, <2>4
<1>8. QED
  BY <1>6, <1>7

-----------------------------------------------------------------------------
(* Type correctness                                                        *)

ConfOK ==
    stage # "off" =>
        \E c \in Configs : /\ FromCLI(c) /\ conf = Running(Defaulted(c))
                           /\ InstallationOf(Defaulted(c)) = install

MemoryOK ==
    /\ stage = "off" => conf = Nothing /\ mem = Nothing /\ keeper = "done"
    /\ stage \in {"off", "built"} => job = Nothing /\ \A s \in Streams : runner[s] = "finished"
    /\ stage # "off" /\ runner[Meter] # "finished" => conf.meter
    /\ mem # Nothing => Kept(mem)
    /\ job # Nothing => mem # Nothing /\ JobOK(job)

TypeInv == TypeOK /\ ConfOK /\ MemoryOK

LEMMA ConfigurationsValid ==
    ASSUME NEW c \in Configs, FromCLI(c)
    PROVE  LET d == Defaulted(c) IN
           /\ d \in Configurations /\ validate(d)
           /\ d.sourcePriority \in Seq(STRING) /\ d.sourcePriority # <<>>
           /\ Len(d.sourcePriority) \in Nat \ {0} /\ PrimarySource(d) \in Sources
           /\ Names(d.sourcePriority) \subseteq Sources
<1> DEFINE d == Defaulted(c)
           q == IF c.sourcePriority = <<>> THEN <<c.source>> ELSE c.sourcePriority
<1>1. c \in Configurations /\ validate(d)
  BY ServeAssumption DEF FromCLI
<1>2. q \in Seq(STRING) /\ q # <<>> /\ Len(q) \in Nat \ {0}
  <2>1. c.source \in STRING /\ c.sourcePriority \in Seq(STRING)
    BY <1>1 DEF Configurations
  <2>2. q \in Seq(STRING) /\ q # <<>>
    <3>1. <<c.source>> \in Seq(STRING) /\ <<c.source>> # <<>>
      BY <2>1
    <3>2. QED
      BY <2>1, <3>1
  <2>3. QED
    BY <2>2, EmptySeq
<1>3. d = [c EXCEPT !.sourcePriority = q]
  BY <1>1 DEF Defaulted, Configurations
<1> HIDE DEF q
<1>4. d \in Configurations /\ d.sourcePriority = q
  BY <1>1, <1>2, <1>3 DEF Configurations
<1> HIDE DEF d
<1>5. \A s \in Names(d.sourcePriority) : s \in Sources
  BY <1>1, ServeAssumption DEF validate, validateSources, validateSourceConfig
<1>6. PrimarySource(d) \in Names(d.sourcePriority)
  BY <1>2, <1>4 DEF PrimarySource, Names
<1>7. QED
  BY <1>1, <1>2, <1>4, <1>5, <1>6 DEF d

LEMMA ConfFacts ==
    ASSUME ConfOK, stage # "off"
    PROVE  /\ conf.sourcePriority[1] \in Sources /\ Names(conf.sourcePriority) \subseteq Sources
           /\ conf.deviceID = install.deviceID /\ conf.discoveryStateFile = install.discoveryStateFile
           /\ conf.mqtt /\ (conf.discoveryStateFile \/ conf.meter \/ Len(conf.sourcePriority) > 1)
                  => conf.deviceID
           /\ conf \in {Running(Defaulted(c)) : c \in Configs}
<1>1. PICK c \in Configs : /\ FromCLI(c) /\ conf = Running(Defaulted(c))
                           /\ InstallationOf(Defaulted(c)) = install
  BY DEF ConfOK
<1> DEFINE d == Defaulted(c)
<1>2. /\ validate(d) /\ PrimarySource(d) \in Sources /\ Names(d.sourcePriority) \subseteq Sources
  BY <1>1, ConfigurationsValid
<1>3. conf = Running(d) /\ InstallationOf(d) = install
  BY <1>1
<1>4. conf \in {Running(Defaulted(x)) : x \in Configs}
  BY <1>1
<1> HIDE DEF d
<1>5. /\ conf.sourcePriority = d.sourcePriority /\ conf.mqtt = d.mqtt /\ conf.deviceID = d.deviceID
      /\ conf.discoveryStateFile = d.discoveryStateFile /\ conf.meter = d.meter
  BY <1>3 DEF Running
<1>6. install.deviceID = d.deviceID /\ install.discoveryStateFile = d.discoveryStateFile
  BY <1>3 DEF InstallationOf
<1>7. d.mqtt /\ (d.discoveryStateFile \/ d.meter \/ Len(d.sourcePriority) > 1) => d.deviceID
  BY <1>2 DEF validate, validateMQTT
<1>8. QED
  BY <1>2, <1>4, <1>5, <1>6, <1>7 DEF PrimarySource

LEMMA PollDoes ==
    ASSUME TypeInv, NEW s \in Streams, FetchReturns(s)
    PROVE  /\ stage \notin {"off", "built"}
           /\ \/ UNCHANGED <<disk, mem, job, faults>>
              \/ /\ mem # Nothing /\ job = Nothing /\ Kept(mem')
                 /\ disk' \in Manifests \cup {Nothing} /\ faults' \in 0 .. MaxFaults
                 /\ \E snapshot : /\ Genuine(snapshot)
                                  /\ Stops(mem, snapshot) \/ \E q : GoesOn(mem, q, snapshot)
<1>1. stage \notin {"off", "built"} /\ (s = Meter => conf.meter)
  BY DEF FetchReturns, TypeInv, TypeOK, MemoryOK
<1>2. /\ conf.sourcePriority[1] \in Sources /\ Names(conf.sourcePriority) \subseteq Sources
  BY <1>1, ConfFacts DEF TypeInv
<1> DEFINE Concluded ==
              /\ mem # Nothing /\ job = Nothing /\ Kept(mem')
              /\ disk' \in Manifests \cup {Nothing} /\ faults' \in 0 .. MaxFaults
              /\ \E snapshot : /\ Genuine(snapshot)
                               /\ Stops(mem, snapshot) \/ \E q : GoesOn(mem, q, snapshot)
<1>3. ASSUME NEW p, Kept(p), SameSchema(mem, p), NEW snapshot, Genuine(snapshot),
             NEW who \in {"success", "failure"}, NEW previous, PreviousOK(who, s, previous),
             Transaction(p, snapshot, Handler(who, s, previous)), mem # Nothing, job = Nothing
      PROVE  Concluded
  <2>1. /\ Kept(mem') /\ disk' \in Manifests \cup {Nothing} /\ faults' \in 0 .. MaxFaults
        /\ Stops(p, snapshot) \/ \E q : GoesOn(p, q, snapshot)
    BY <1>3, TransactionDoes DEF TypeInv, TypeOK
  <2>2. Stops(p, snapshot) => Stops(mem, snapshot)
    BY <1>3 DEF Stops, SameSchema
  <2>3. ASSUME NEW q PROVE GoesOn(p, q, snapshot) => GoesOn(mem, q, snapshot)
    BY <1>3 DEF GoesOn, SameSchema
  <2>4. QED
    BY <1>3, <2>1, <2>2, <2>3
<1> HIDE DEF Concluded
<1>4. ASSUME NEW snapshot, OnPollSuccess(s, snapshot),
             s = Meter => Metered(snapshot.readings), s # Meter => Genuine(snapshot)
      PROVE  Concluded
  <2> DEFINE p == IF ~independentMeters THEN mem
                  ELSE IF s = Meter
                  THEN [mem EXCEPT !.meterReadings = snapshot.readings, !.meterUp = TRUE]
                  ELSE [mem EXCEPT !.inverterSnapshot = snapshot, !.inverterUp = TRUE]
             previous == IF ~independentMeters THEN Nothing
                         ELSE IF s = Meter THEN mem.meterReadings ELSE mem.inverterSnapshot
             shown == IF independentMeters THEN combined(p) ELSE snapshot
  <2>1. mem # Nothing /\ job = Nothing /\ Transaction(p, shown, Handler("success", s, previous))
    BY <1>4 DEF OnPollSuccess, Lock
  <2>2. Kept(mem) /\ mem \in Publishers
    BY <2>1 DEF TypeInv, MemoryOK, Kept
  <2>3. Kept(p) /\ SameSchema(mem, p)
    <3>1. CASE ~independentMeters
      BY <2>2, <3>1 DEF SameSchema
    <3>2. CASE independentMeters /\ s = Meter
      <4>1. p = [mem EXCEPT !.meterReadings = snapshot.readings, !.meterUp = TRUE]
            /\ Metered(snapshot.readings)
        BY <1>4, <3>2
      <4>2. QED
        BY <2>2, <4>1 DEF Kept, SameSchema, Publishers, Metered
    <3>3. CASE independentMeters /\ s # Meter
      <4>1. p = [mem EXCEPT !.inverterSnapshot = snapshot, !.inverterUp = TRUE] /\ Genuine(snapshot)
        BY <1>4, <3>3
      <4>2. snapshot \in Snapshots /\ snapshot # Nothing
        BY <4>1, DiscoveryAssumption DEF Genuine
      <4> HIDE DEF p
      <4>3. p \in Publishers /\ p.inverterSnapshot = snapshot /\ p.meterReadings = mem.meterReadings
            /\ SameSchema(mem, p)
        BY <2>2, <4>1, <4>2 DEF Publishers, SameSchema
      <4>4. QED
        BY <2>2, <4>1, <4>2, <4>3 DEF Kept
    <3>4. QED
      BY <3>1, <3>2, <3>3
  <2> HIDE DEF p
  <2>4. Genuine(shown)
    BY <1>1, <1>2, <1>4, <2>3, CombinedGenuine DEF independentMeters
  <2>5. PreviousOK("success", s, previous)
    BY <2>2 DEF PreviousOK, Kept
  <2> HIDE DEF previous, shown
  <2>6. QED
    BY <1>3, <2>1, <2>3, <2>4, <2>5
<1>5. CASE mem = Nothing /\ UNCHANGED <<published, faults>>
  BY <1>1, <1>5 DEF published
<1>6. CASE OnPollFailure(s)
  <2> DEFINE p == IF s = Meter THEN [mem EXCEPT !.meterUp = FALSE] ELSE [mem EXCEPT !.inverterUp = FALSE]
  <2>1. /\ mem # Nothing /\ job = Nothing
        /\ IF independentMeters THEN Transaction(p, combined(p), Handler("failure", s, Nothing))
           ELSE UNCHANGED <<mem, job, disk, faults>>
    BY <1>6 DEF OnPollFailure, Lock
  <2>2. Kept(mem) /\ mem \in Publishers
    BY <2>1 DEF TypeInv, MemoryOK, Kept
  <2>3. Kept(p) /\ SameSchema(mem, p)
    <3>1. CASE s = Meter
      BY <2>2, <3>1 DEF Kept, SameSchema, Publishers
    <3>2. CASE s # Meter
      BY <2>2, <3>2 DEF Kept, SameSchema, Publishers
    <3>3. QED
      BY <3>1, <3>2
  <2> HIDE DEF p
  <2>4. Genuine(combined(p)) /\ PreviousOK("failure", s, Nothing)
    BY <1>2, <2>3, CombinedGenuine DEF PreviousOK
  <2>5. CASE independentMeters
    BY <1>1, <1>3, <2>1, <2>3, <2>4, <2>5 DEF Concluded
  <2>6. CASE ~independentMeters
    BY <1>1, <2>1, <2>6
  <2>7. QED
    BY <2>5, <2>6
<1>7. CASE s = Meter /\ \E R \in Reports[Meter] : OnPollSuccess(s, [source |-> Meter, readings |-> R])
  <2> PICK R \in Reports[Meter] : OnPollSuccess(s, [source |-> Meter, readings |-> R])
    BY <1>7
  <2>1. Metered([source |-> Meter, readings |-> R].readings)
    <3>1. R \in SUBSET Readings
      BY ReadingsKnown
    <3>2. \A r \in R : r.kind = "meter"
      BY DiscoveryAssumption
    <3>3. QED
      BY <3>1, <3>2 DEF Metered
  <2>2. QED
    BY <1>1, <1>4, <1>7, <2>1 DEF Concluded
<1>8. CASE s = Inverter /\ \E source \in Names(conf.sourcePriority) : \E R \in Reports[source] :
                  OnPollSuccess(s, [source |-> source, readings |-> R])
  <2> PICK source \in Names(conf.sourcePriority) :
                  \E R \in Reports[source] : OnPollSuccess(s, [source |-> source, readings |-> R])
    BY <1>8
  <2> PICK R \in Reports[source] : OnPollSuccess(s, [source |-> source, readings |-> R])
    OBVIOUS
  <2>1. source \in Sources /\ R \in SUBSET Readings
    BY <1>2, ReadingsKnown
  <2>2. Genuine([source |-> source, readings |-> R])
    BY <2>1 DEF Genuine, Snapshots
  <2>3. s # Meter
    BY <1>8, ServeAssumption
  <2>4. QED
    BY <1>1, <1>4, <2>2, <2>3 DEF Concluded
<1>9. QED
  BY <1>5, <1>6, <1>7, <1>8 DEF FetchReturns, FetchAnswers

Installations == [deviceID : BOOLEAN, discoveryStateFile : BOOLEAN]
Stages == {"off", "built", "serving", "stopping", "joining", "closing"}
Runners == [Streams -> {"waiting", "fetching", "mailing", "reporting", "finished"}]
Refusals == {"no", "settings", "address", "source", "meter", "publisher",
             "other installation", "manifest", "listen", "disk"}
Links == [open : BOOLEAN, hook : BOOLEAN]
Brokers == [entities : SUBSET Entities, states : SUBSET States]

\* The entities and states that are, or may still come to be, on the broker.
EntitiesNow ==
    broker.entities \cup (IF mem = Nothing THEN {} ELSE mem.cachedDiscovery)
                    \cup (IF job = Nothing THEN {} ELSE job.messages)
StatesNow ==
    broker.states \cup (IF mem = Nothing \/ mem.cachedState = Nothing THEN {} ELSE {mem.cachedState})

\* A step that brings nothing new, and loses no entity of the broker.
Quiet ==
    /\ disk' = disk
    /\ mem' # Nothing => mem # Nothing /\ mem'.discoveryState = mem.discoveryState
    /\ EntitiesNow' \subseteq EntitiesNow /\ StatesNow' \subseteq StatesNow

LEMMA ArrivedTyped ==
    ASSUME broker \in Brokers,
           NEW messages \in SUBSET Entities, NEW state \in States \cup {Nothing}
    PROVE  /\ Arrived(broker, messages, state) \in Brokers
           /\ Arrived(broker, messages, state).entities \subseteq broker.entities \cup messages
           /\ Arrived(broker, messages, state).states
                  \subseteq broker.states \cup (IF state = Nothing THEN {} ELSE {state})
           /\ \A e \in broker.entities :
                  \E f \in Arrived(broker, messages, state).entities : f.key = e.key
<1> DEFINE E == Retained(broker.entities, messages)
           S == IF state = Nothing THEN broker.states
                ELSE {s \in broker.states : s.device # state.device} \cup {state}
<1>1. Arrived(broker, messages, state) = [entities |-> E, states |-> S]
  BY DEF Arrived
<1>2. E \in SUBSET Entities /\ E \subseteq broker.entities \cup messages
  BY DEF Retained, Brokers
<1>3. S \in SUBSET States /\ S \subseteq broker.states \cup (IF state = Nothing THEN {} ELSE {state})
  BY DEF Brokers
<1>4. ASSUME NEW e \in broker.entities PROVE \E f \in E : f.key = e.key
  <2>1. CASE \A m \in messages : <<m.device, m.key>> # <<e.device, e.key>>
    BY <2>1 DEF Retained
  <2>2. CASE \E m \in messages : <<m.device, m.key>> = <<e.device, e.key>>
    BY <2>2 DEF Retained
  <2>3. QED
    BY <2>1, <2>2
<1> HIDE DEF E, S
<1>5. QED
  BY <1>1, <1>2, <1>3, <1>4 DEF Brokers

LEMMA RememberedKeeps ==
    ASSUME NEW p, Kept(p), JobOK(job), NEW acked \in SUBSET job.messages
    PROVE  Kept(Remembered(p, acked)) /\ SameSchema(p, Remembered(p, acked))
<1> DEFINE d == Retained(p.discoveryPayloads, acked)
           g == IF acked = job.messages /\ job.sig # Nothing THEN job.sig ELSE p.discoveryShapeSig
<1>1. p \in Publishers
  BY DEF Kept
<1>2. d \in SUBSET Entities /\ g \in Signatures
  BY <1>1 DEF Retained, JobOK, Publishers
<1>3. Remembered(p, acked) = [p EXCEPT !.discoveryPayloads = d, !.discoveryShapeSig = g]
  BY <1>1 DEF Remembered, Publishers
<1> HIDE DEF d, g
<1>4. QED
  BY <1>1, <1>2, <1>3 DEF Kept, SameSchema, Publishers

\* What every step of the connection and of a publish leaves behind.
LEMMA MQTTDoes ==
    ASSUME TypeInv, MQTT
    PROVE  /\ Quiet
           /\ mem' # Nothing => Kept(mem') /\ SameSchema(mem, mem')
           /\ job' # Nothing => mem' # Nothing /\ JobOK(job')
           /\ broker' \in Brokers
           /\ \A e \in broker.entities : \E f \in broker'.entities : f.key = e.key
           /\ link' \in Links /\ faults' \in 0 .. MaxFaults
<1>1. /\ broker \in Brokers /\ link \in Links /\ faults \in 0 .. MaxFaults
      /\ mem # Nothing => Kept(mem) /\ SameSchema(mem, mem)
      /\ job # Nothing => mem # Nothing /\ JobOK(job)
  BY DEF TypeInv, TypeOK, MemoryOK, SameSchema, Links, Brokers
<1>2. Fault => faults' \in 0 .. MaxFaults
  BY <1>1, DiscoveryAssumption DEF Fault
<1>3. /\ [link EXCEPT !.open = FALSE] \in Links /\ [link EXCEPT !.hook = FALSE] \in Links
      /\ [open |-> TRUE, hook |-> TRUE] \in Links
  BY <1>1 DEF Links
<1>4. mem # Nothing => mem.cachedState \in States \cup {Nothing}
  BY <1>1 DEF Kept, Publishers
<1>5. ASSUME job # Nothing, NEW acked \in SUBSET job.messages, NEW messages \in SUBSET job.messages,
             NEW state \in {mem.cachedState, Nothing}, broker' = Arrived(broker, messages, state),
             mem' = Remembered(mem, acked) \/ mem' = AfterError(Remembered(mem, acked), job),
             job' = Nothing, disk' = disk
      PROVE  /\ Quiet
             /\ mem' # Nothing => Kept(mem') /\ SameSchema(mem, mem')
             /\ broker' \in Brokers
             /\ \A e \in broker.entities : \E f \in broker'.entities : f.key = e.key
  <2>1. mem # Nothing /\ Kept(mem) /\ JobOK(job)
    BY <1>1, <1>5
  <2>2. Kept(mem') /\ SameSchema(mem, mem')
    <3>1. Kept(Remembered(mem, acked)) /\ SameSchema(mem, Remembered(mem, acked))
      BY <2>1, RememberedKeeps
    <3>2. PreviousOK(job.who, job.stream, job.previous)
      BY <2>1 DEF JobOK
    <3>3. Kept(AfterError(Remembered(mem, acked), job))
          /\ SameSchema(Remembered(mem, acked), AfterError(Remembered(mem, acked), job))
      BY <3>1, <3>2, AfterErrorKeeps
    <3>4. QED
      BY <1>5, <3>1, <3>3 DEF SameSchema
  <2>3. messages \in SUBSET Entities /\ state \in States \cup {Nothing}
    BY <1>4, <2>1 DEF JobOK
  <2>4. /\ broker' \in Brokers /\ broker'.entities \subseteq broker.entities \cup messages
        /\ broker'.states \subseteq broker.states \cup (IF state = Nothing THEN {} ELSE {state})
        /\ \A e \in broker.entities : \E f \in broker'.entities : f.key = e.key
    <3>1. /\ Arrived(broker, messages, state) \in Brokers
          /\ Arrived(broker, messages, state).entities \subseteq broker.entities \cup messages
          /\ Arrived(broker, messages, state).states
                 \subseteq broker.states \cup (IF state = Nothing THEN {} ELSE {state})
          /\ \A e \in broker.entities :
                 \E f \in Arrived(broker, messages, state).entities : f.key = e.key
      BY <1>1, <2>3, ArrivedTyped
    <3>2. QED
      BY <1>5, <3>1
  <2>5. EntitiesNow' \subseteq EntitiesNow
    BY <1>5, <2>1, <2>2, <2>4 DEF EntitiesNow, SameSchema
  <2>6. StatesNow' \subseteq StatesNow
    BY <1>5, <2>1, <2>2, <2>4 DEF StatesNow, SameSchema
  <2>7. QED
    BY <1>5, <2>1, <2>2, <2>4, <2>5, <2>6 DEF Quiet, SameSchema
<1>6. ASSUME UNCHANGED <<disk, mem, broker>>,
             job' = job \/ (job' # Nothing /\ mem # Nothing /\ JobOK(job') /\ job'.messages = mem.cachedDiscovery)
                 \/ job' = Nothing
      PROVE  /\ Quiet
             /\ mem' # Nothing => Kept(mem') /\ SameSchema(mem, mem')
             /\ broker' \in Brokers
             /\ \A e \in broker.entities : \E f \in broker'.entities : f.key = e.key
  BY <1>1, <1>6 DEF Quiet, EntitiesNow, StatesNow
<1>7. CASE Publish
  <2>1. /\ job # Nothing /\ broker' = Arrived(broker, job.messages, mem.cachedState)
        /\ mem' = Remembered(mem, job.messages) /\ job' = Nothing /\ UNCHANGED <<disk, link, faults>>
    BY <1>7 DEF Publish
  <2>2. QED
    BY <1>1, <1>5, <2>1
<1>8. CASE PublishRefused
  <2>1. /\ job # Nothing /\ mem' = AfterError(Remembered(mem, {}), job) /\ job' = Nothing
        /\ UNCHANGED <<disk, link, broker, faults>>
    BY <1>8 DEF PublishRefused, GivesUp
  <2>2. broker = Arrived(broker, {}, Nothing)
    BY <1>1 DEF Arrived, Retained, Brokers
  <2>3. QED
    BY <1>1, <1>5, <2>1, <2>2
<1>9. CASE PublishTimesOut
  <2>1. job # Nothing /\ Fault /\ UNCHANGED <<disk, link>>
    BY <1>9 DEF PublishTimesOut
  <2>2. PICK acked \in SUBSET job.messages :
           /\ GivesUp(Remembered(mem, acked), job)
           /\ \/ broker' = Arrived(broker, acked, Nothing)
              \/ \E late \in job.messages \ acked : broker' = Arrived(broker, acked \cup {late}, Nothing)
              \/ acked = job.messages /\ broker' = Arrived(broker, acked, mem.cachedState)
    BY <1>9 DEF PublishTimesOut
  <2>3. mem' = AfterError(Remembered(mem, acked), job) /\ job' = Nothing
    BY <2>2 DEF GivesUp
  <2>4. \E messages \in SUBSET job.messages : \E state \in {mem.cachedState, Nothing} :
            broker' = Arrived(broker, messages, state)
    BY <2>2
  <2>5. QED
    BY <1>1, <1>2, <1>5, <2>1, <2>3, <2>4
<1>10. CASE PublishLost
  <2>1. job # Nothing /\ Fault /\ disk' = disk /\ link' = [link EXCEPT !.open = FALSE]
    BY <1>10 DEF PublishLost
  <2>2. PICK acked \in SUBSET job.messages : \E arrived \in SUBSET acked :
           /\ broker' = Arrived(broker, arrived, Nothing)
           /\ \/ GivesUp(Remembered(mem, acked), job)
              \/ acked = job.messages /\ mem' = Remembered(mem, acked) /\ job' = Nothing
    BY <1>10 DEF PublishLost
  <2>3. PICK arrived \in SUBSET acked :
           /\ broker' = Arrived(broker, arrived, Nothing)
           /\ \/ GivesUp(Remembered(mem, acked), job)
              \/ acked = job.messages /\ mem' = Remembered(mem, acked) /\ job' = Nothing
    BY <2>2
  <2>4. /\ mem' = Remembered(mem, acked) \/ mem' = AfterError(Remembered(mem, acked), job)
        /\ job' = Nothing /\ arrived \in SUBSET job.messages
    BY <2>3 DEF GivesUp
  <2>5. QED
    BY <1>1, <1>2, <1>3, <1>5, <2>1, <2>3, <2>4
<1>11. CASE onConnect
  <2> DEFINE j == [Handler("connect", Nothing, Nothing) EXCEPT
                      !.messages = mem.cachedDiscovery, !.sig = mem.cachedDiscoverySig]
  <2>1. /\ mem # Nothing /\ job' = j /\ link' = [link EXCEPT !.hook = FALSE]
        /\ UNCHANGED <<disk, mem, broker, faults>>
    BY <1>11 DEF onConnect, Lock
  <2>2. j.who = "connect" /\ j.stream = Nothing /\ j.messages = mem.cachedDiscovery
        /\ j.sig = mem.cachedDiscoverySig
    BY DEF Handler
  <2>3. mem \in Publishers
    BY <1>1, <2>1 DEF Kept
  <2> HIDE DEF j
  <2>4. JobOK(j)
    BY <2>2, <2>3 DEF JobOK, PreviousOK, Publishers
  <2>5. QED
    BY <1>1, <1>3, <1>6, <2>1, <2>2, <2>4
<1>12. CASE Connect \/ ConnectionLost
  <2>1. UNCHANGED <<disk, mem, job, broker>> /\ link' \in Links /\ (Fault \/ faults' = faults)
    BY <1>3, <1>12 DEF Connect, ConnectionLost
  <2>2. QED
    BY <1>1, <1>2, <1>6, <2>1
<1>13. QED
  BY <1>7, <1>8, <1>9, <1>10, <1>11, <1>12 DEF MQTT

\* TypeOK without what ConfOK and MemoryOK say of conf, mem and job.
RestOK ==
    /\ install \in Installations
    /\ stage \in Stages
    /\ cancelled \in BOOLEAN
    /\ runner \in Runners
    /\ keeper \in {"idle", "busy", "mailing", "done"}
    /\ refused \in Refusals
    /\ disk \in Manifests \cup {Nothing}
    /\ link \in Links
    /\ broker \in Brokers
    /\ faults \in 0 .. MaxFaults

LEMMA Parts == TypeInv <=> RestOK /\ ConfOK /\ MemoryOK
<1>1. TypeInv => RestOK /\ ConfOK /\ MemoryOK
  BY DEF TypeInv, TypeOK, RestOK, Installations, Stages, Runners, Refusals, Links, Brokers
<1>2. ASSUME RestOK, ConfOK, MemoryOK PROVE TypeInv
  <2>1. stage # "off" => conf \in {Running(Defaulted(c)) : c \in Configs}
    BY <1>2 DEF ConfOK
  <2>2. mem \in Publishers \cup {Nothing}
    BY <1>2 DEF MemoryOK, Kept
  <2>3. job # Nothing =>
            /\ job.who \in {"success", "failure", "connect"} /\ job.stream \in Streams \cup {Nothing}
            /\ job.messages \subseteq Entities /\ job.sig \in Signatures
            /\ job.who = "success" /\ independentMeters =>
                   IF job.stream = Meter THEN job.previous \subseteq Readings
                   ELSE job.previous \in Snapshots \cup {Nothing}
    BY <1>2 DEF MemoryOK, JobOK, PreviousOK, Metered, Genuine
  <2>4. TypeOK
    BY <1>2, <2>1, <2>2, <2>3 DEF RestOK, TypeOK, Installations, Stages, Runners, Refusals, Links, Brokers
  <2>5. QED
    BY <1>2, <2>4 DEF TypeInv
<1>3. QED
  BY <1>1, <1>2

LEMMA FreshKept ==
    ASSUME NEW c, c.discoveryStateFile \in BOOLEAN, NEW m \in Manifests
    PROVE  LET p == FreshPublisher(c, m) IN
           /\ Kept(p) /\ p.discoveryState = IF c.discoveryStateFile THEN m ELSE Nothing
           /\ p.cachedDiscovery = {} /\ p.cachedState = Nothing
<1> DEFINE p == FreshPublisher(c, m)
<1>1. p \in Publishers
  BY DEF FreshPublisher, Publishers, Signatures
<1>2. /\ p.inverterSnapshot = Nothing /\ p.inverterUp = FALSE /\ p.meterReadings = {}
      /\ p.discoveryState = (IF c.discoveryStateFile THEN m ELSE Nothing)
      /\ p.cachedDiscovery = {} /\ p.cachedState = Nothing
  BY DEF FreshPublisher
<1>3. QED
  BY <1>1, <1>2 DEF Kept, Metered

\* What a start with the settings c leaves when it is not refused.
Launched(c) ==
    /\ stage = "off" /\ stage' = "built" /\ conf' = Running(Defaulted(c)) /\ refused' = "no"
    /\ mem' = IF Defaulted(c).mqtt
              THEN FreshPublisher(Defaulted(c), loadDiscoveryState(PrimarySource(Defaulted(c))))
              ELSE Nothing
    /\ FromCLI(c) /\ InstallationOf(Defaulted(c)) = install /\ Refusal(Defaulted(c)) = "no"

LEMMA LaunchDoes ==
    ASSUME TypeInv, NEW c \in Configs, Launch(c)
    PROVE  /\ UNCHANGED <<install, cancelled, runner, keeper, disk, job, link, broker, faults>>
           /\ stage = "off" /\ conf = Nothing /\ mem = Nothing
           /\ \/ Launched(c) /\ (mem' # Nothing => Kept(mem'))
              \/ /\ UNCHANGED <<stage, conf, mem>>
                 /\ refused' = IF FromCLI(c) THEN Refusal(Defaulted(c)) ELSE "settings"
<1>1. /\ UNCHANGED <<install, cancelled, runner, keeper, disk, job, link, broker, faults>> /\ stage = "off"
      /\ \/ Launched(c)
         \/ /\ UNCHANGED <<stage, conf, mem>>
            /\ refused' = IF FromCLI(c) THEN Refusal(Defaulted(c)) ELSE "settings"
  BY DEF Launch, Launched
<1>2. conf = Nothing /\ mem = Nothing
  BY <1>1 DEF TypeInv, MemoryOK
<1>3. ASSUME Launched(c), mem' # Nothing PROVE Kept(mem')
  <2> DEFINE d == Defaulted(c)
  <2>1. d.discoveryStateFile \in BOOLEAN /\ PrimarySource(d) \in Sources
    BY <1>3, ConfigurationsValid DEF Launched, Configurations
  <2>2. mem' = FreshPublisher(d, loadDiscoveryState(PrimarySource(d)))
    BY <1>3 DEF Launched
  <2> HIDE DEF d
  <2>3. loadDiscoveryState(PrimarySource(d)) \in Manifests
    BY <2>1, FreshManifest DEF loadDiscoveryState, TypeInv, TypeOK
  <2>4. QED
    BY <2>1, <2>2, <2>3, FreshKept
<1>4. QED
  BY <1>1, <1>2, <1>3

\* The steps of runServe, the runners and the maintenance that publish nothing.
Inside ==
    /\ UNCHANGED <<install, conf, refused, disk, mem, job, link, broker>>
    /\ faults' \in 0 .. MaxFaults /\ stage # "off" /\ stage' # "off"
    /\ stage' = "built" => stage = "built"
    /\ \A s \in Streams : runner[s] = "finished" => runner'[s] = "finished"

LEMMA InsideSteps ==
    ASSUME TypeInv,
           \/ \E s \in Streams : BeginPoll(s) \/ Mail(s) \/ ReportEnds(s) \/ RunReturns(s)
           \/ Keep \/ KeeperReturns \/ Signal \/ ServeReturns \/ JoinMaintenance \/ JoinRunners
    PROVE  /\ Inside
           /\ runner' \in Runners
           /\ stage' \in {"built", "serving", "stopping", "joining", "closing"}
           /\ cancelled' \in BOOLEAN /\ keeper' \in {"idle", "busy", "mailing", "done"}
<1>1. RestOK /\ MemoryOK /\ faults \in 0 .. MaxFaults
  BY Parts DEF RestOK
<1>2. Fault => faults' \in 0 .. MaxFaults
  BY <1>1, DiscoveryAssumption DEF Fault
<1>3. ASSUME NEW s \in Streams, BeginPoll(s) \/ Mail(s) \/ ReportEnds(s) \/ RunReturns(s)
      PROVE  /\ Inside /\ runner' \in Runners
             /\ UNCHANGED <<stage, cancelled, keeper>>
  <2>1. /\ runner[s] # "finished"
        /\ UNCHANGED <<install, conf, stage, cancelled, keeper, refused, published, faults>>
        /\ \E next \in {"waiting", "fetching", "mailing", "finished"} :
               runner' = [runner EXCEPT ![s] = next]
    BY <1>3 DEF BeginPoll, Mail, ReportEnds, RunReturns
  <2>2. stage # "off"
    BY <1>1, <2>1 DEF MemoryOK
  <2>3. runner' \in Runners
        /\ \A x \in Streams : runner[x] = "finished" => runner'[x] = "finished"
    BY <1>1, <2>1 DEF RestOK, Runners
  <2>4. QED
    BY <1>1, <2>1, <2>2, <2>3 DEF Inside, published, RestOK
<1>4. CASE Keep \/ KeeperReturns
  <2>1. /\ UNCHANGED <<install, conf, stage, cancelled, runner, refused, published, faults>>
        /\ keeper' \in {"idle", "busy", "mailing", "done"} /\ keeper # "done"
    BY <1>4 DEF Keep, KeeperReturns
  <2>2. stage # "off"
    BY <1>1, <2>1 DEF MemoryOK
  <2>3. QED
    BY <1>1, <2>1, <2>2 DEF Inside, published, RestOK, Stages
<1>5. CASE Signal \/ ServeReturns
  <2>1. /\ UNCHANGED <<install, conf, runner, keeper, refused, published>>
        /\ cancelled' = TRUE /\ (Fault \/ faults' = faults) /\ stage \in {"built", "serving"}
        /\ stage' = stage \/ stage' = "stopping"
    BY <1>5 DEF Signal, ServeReturns
  <2>2. QED
    BY <1>1, <1>2, <2>1 DEF Inside, published, RestOK
<1>6. CASE JoinMaintenance \/ JoinRunners
  <2>1. /\ UNCHANGED <<install, conf, cancelled, runner, keeper, refused, published, faults>>
        /\ stage \in {"stopping", "joining"} /\ stage' \in {"joining", "closing"}
    BY <1>6 DEF JoinMaintenance, JoinRunners
  <2>2. QED
    BY <1>1, <2>1 DEF Inside, published, RestOK
<1>7. CASE \E s \in Streams : BeginPoll(s) \/ Mail(s) \/ ReportEnds(s) \/ RunReturns(s)
  BY <1>1, <1>3, <1>7 DEF RestOK, Inside, Stages
<1>8. QED
  BY <1>4, <1>5, <1>6, <1>7

\* Every way a process ends.
LEMMA EndDoes ==
    ASSUME TypeInv, StartFails \/ Exit \/ Crash
    PROVE  /\ NoProcess /\ install' = install /\ refused' \in {refused, "listen", "disk"}
           /\ \/ disk' = disk
              \/ mem # Nothing /\ disk = Nothing /\ mem.discoveryState # Nothing /\ disk' = mem.discoveryState
           /\ broker' \in Brokers
           /\ broker'.entities \subseteq EntitiesNow /\ broker'.states \subseteq StatesNow
           /\ \A e \in broker.entities : \E f \in broker'.entities : f.key = e.key
           /\ faults' \in 0 .. MaxFaults
<1>1. /\ broker \in Brokers /\ faults \in 0 .. MaxFaults
      /\ job # Nothing => mem # Nothing /\ JobOK(job)
  BY Parts DEF RestOK, MemoryOK
<1>2. Fault => faults' \in 0 .. MaxFaults
  BY <1>1, DiscoveryAssumption DEF Fault
<1>3. broker.entities \subseteq EntitiesNow /\ broker.states \subseteq StatesNow
  BY DEF EntitiesNow, StatesNow
<1>4. CASE StartFails
  <2>1. /\ NoProcess /\ install' = install /\ refused' \in {refused, "listen", "disk"}
        /\ \/ disk' = disk
           \/ mem # Nothing /\ disk = Nothing /\ mem.discoveryState # Nothing /\ disk' = mem.discoveryState
        /\ broker' = broker /\ Fault
    BY <1>4 DEF StartFails
  <2>2. QED
    BY <1>1, <1>2, <1>3, <2>1
<1>5. CASE Exit
  <2>1. NoProcess /\ UNCHANGED <<install, refused, disk, broker, faults>>
    BY <1>5 DEF Exit
  <2>2. QED
    BY <1>1, <1>3, <2>1
<1>6. CASE Crash
  <2>1. NoProcess /\ UNCHANGED <<install, refused, disk>> /\ Fault
    BY <1>6 DEF Crash
  <2>2. CASE broker' = broker
    BY <1>1, <1>2, <1>3, <2>1, <2>2
  <2>3. CASE job # Nothing /\ \E arrived \in SUBSET job.messages : broker' = Arrived(broker, arrived, Nothing)
    <3> PICK arrived \in SUBSET job.messages : broker' = Arrived(broker, arrived, Nothing)
      BY <2>3
    <3>1. arrived \in SUBSET Entities
      BY <1>1, <2>3 DEF JobOK
    <3>2. /\ Arrived(broker, arrived, Nothing) \in Brokers
          /\ Arrived(broker, arrived, Nothing).entities \subseteq broker.entities \cup arrived
          /\ Arrived(broker, arrived, Nothing).states \subseteq broker.states
          /\ \A e \in broker.entities :
                 \E f \in Arrived(broker, arrived, Nothing).entities : f.key = e.key
      BY <1>1, <3>1, ArrivedTyped
    <3>3. broker.entities \cup arrived \subseteq EntitiesNow
      BY <2>3 DEF EntitiesNow
    <3>4. QED
      BY <1>2, <1>3, <2>1, <3>2, <3>3
  <2>4. QED
    BY <1>6, <2>2, <2>3 DEF Crash
<1>7. QED
  BY <1>4, <1>5, <1>6

LEMMA StartDoes ==
    ASSUME TypeInv, Start
    PROVE  /\ UNCHANGED <<install, conf, cancelled, refused, mem, job, link, broker, faults>>
           /\ stage = "built" /\ stage' = "serving"
           /\ disk' = IF mem # Nothing /\ mem.discoveryState # Nothing THEN mem.discoveryState ELSE disk
           /\ disk' \in Manifests \cup {Nothing}
           /\ runner' \in Runners
           /\ runner'[Meter] # "finished" => conf.meter
           /\ keeper' \in {"idle", "done"}
<1>1. mem # Nothing => mem.discoveryState \in Manifests \cup {Nothing}
  BY Parts DEF MemoryOK, Kept, Publishers
<1>2. disk \in Manifests \cup {Nothing}
  BY Parts DEF RestOK
<1>3. Meter \in Streams /\ Meter # Inverter
  BY ServeAssumption DEF Streams
<1>4. QED
  BY <1>1, <1>2, <1>3 DEF Start, Runners

LEMMA NextTyped ==
    ASSUME TypeInv, [Next]_vars
    PROVE  TypeInv'
<1>1. RestOK /\ ConfOK /\ MemoryOK
  BY Parts
<1>2. RestOK' /\ ConfOK' /\ MemoryOK' => TypeInv'
  BY Parts, PTL
<1>3. CASE \E c \in Configs : Launch(c)
  <2> PICK c \in Configs : Launch(c)
    BY <1>3
  <2>1. /\ UNCHANGED <<install, cancelled, runner, keeper, disk, job, link, broker, faults>>
        /\ stage = "off" /\ conf = Nothing /\ mem = Nothing
        /\ \/ Launched(c) /\ (mem' # Nothing => Kept(mem'))
           \/ /\ UNCHANGED <<stage, conf, mem>>
              /\ refused' = IF FromCLI(c) THEN Refusal(Defaulted(c)) ELSE "settings"
    BY LaunchDoes
  <2>2. RestOK'
    <3>1. stage' \in {"off", "built"}
      BY <2>1 DEF Launched
    <3>2. refused' \in Refusals
      BY <2>1 DEF Launched, Refusal, Refusals
    <3>3. QED
      BY <1>1, <2>1, <3>1, <3>2 DEF RestOK, Stages
  <2>3. ConfOK'
    BY <1>1, <2>1 DEF Launched, ConfOK
  <2>4. MemoryOK'
    BY <1>1, <2>1 DEF Launched, MemoryOK, Streams
  <2>5. QED
    BY <1>2, <2>2, <2>3, <2>4
<1>4. CASE StartFails \/ Exit \/ Crash
  <2>1. /\ NoProcess /\ install' = install /\ refused' \in {refused, "listen", "disk"}
        /\ \/ disk' = disk
           \/ mem # Nothing /\ disk = Nothing /\ mem.discoveryState # Nothing /\ disk' = mem.discoveryState
        /\ broker' \in Brokers
        /\ faults' \in 0 .. MaxFaults
    BY <1>4, EndDoes
  <2>2. disk' \in Manifests \cup {Nothing}
    BY <1>1, <2>1 DEF RestOK, MemoryOK, Kept, Publishers
  <2>3. RestOK'
    BY <1>1, <2>1, <2>2 DEF RestOK, NoProcess, Stages, Runners, Refusals, Links
  <2>4. ConfOK' /\ MemoryOK'
    BY <2>1 DEF ConfOK, MemoryOK, NoProcess, Streams
  <2>5. QED
    BY <1>2, <2>3, <2>4
<1>5. CASE Start
  <2>1. /\ UNCHANGED <<install, conf, cancelled, refused, mem, job, link, broker, faults>>
        /\ stage = "built" /\ stage' = "serving"
        /\ disk' \in Manifests \cup {Nothing}
        /\ runner' \in Runners
        /\ runner'[Meter] # "finished" => conf.meter
        /\ keeper' \in {"idle", "done"}
    BY <1>5, StartDoes
  <2>2. RestOK'
    BY <1>1, <2>1 DEF RestOK, Stages
  <2>3. ConfOK' /\ MemoryOK'
    BY <1>1, <2>1 DEF ConfOK, MemoryOK, JobOK, PreviousOK, independentMeters
  <2>4. QED
    BY <1>2, <2>2, <2>3
<1>6. CASE \E s \in Streams : FetchReturns(s)
  <2> PICK s \in Streams : FetchReturns(s)
    BY <1>6
  <2>1. /\ stage \notin {"off", "built"}
        /\ \/ UNCHANGED <<disk, mem, job, faults>>
           \/ /\ mem # Nothing /\ job = Nothing /\ Kept(mem')
              /\ disk' \in Manifests \cup {Nothing} /\ faults' \in 0 .. MaxFaults
              /\ \E snapshot : /\ Genuine(snapshot)
                               /\ Stops(mem, snapshot) \/ \E q : GoesOn(mem, q, snapshot)
    BY PollDoes
  <2>2. /\ UNCHANGED <<install, conf, stage, cancelled, keeper, refused, link, broker>>
        /\ runner[s] # "finished"
        /\ \E next \in {"waiting", "reporting"} : runner' = [runner EXCEPT ![s] = next]
    BY DEF FetchReturns, FetchAnswers, published, OnPollFailure, OnPollSuccess
  <2>3. runner' \in Runners
        /\ \A x \in Streams : runner[x] = "finished" => runner'[x] = "finished"
    BY <1>1, <2>2 DEF RestOK, Runners
  <2>4. disk' \in Manifests \cup {Nothing} /\ faults' \in 0 .. MaxFaults
    BY <1>1, <2>1 DEF RestOK
  <2>5. RestOK'
    <3>1. UNCHANGED <<install, stage, cancelled, keeper, refused, link, broker>>
      BY <2>2
    <3>2. QED
      BY <1>1, <2>3, <2>4, <3>1 DEF RestOK
  <2>6. ConfOK'
    BY <1>1, <2>2 DEF ConfOK
  <2>7. /\ mem' # Nothing => Kept(mem')
        /\ job' # Nothing => mem' # Nothing /\ JobOK(job')
    <3>1. CASE UNCHANGED <<disk, mem, job, faults>>
      BY <1>1, <3>1 DEF MemoryOK
    <3>2. CASE /\ Kept(mem')
               /\ \E snapshot : Stops(mem, snapshot) \/ \E q : GoesOn(mem, q, snapshot)
      <4>1. mem' # Nothing
        BY <3>2, DiscoveryAssumption DEF Kept
      <4>2. job' = Nothing \/ JobOK(job')
        BY <3>2 DEF Stops, GoesOn
      <4>3. QED
        BY <3>2, <4>1, <4>2
    <3>3. QED
      BY <2>1, <3>1, <3>2
  <2>8. MemoryOK'
    BY <1>1, <2>1, <2>2, <2>3, <2>7 DEF MemoryOK, JobOK, PreviousOK, independentMeters, Streams
  <2>9. QED
    BY <1>2, <2>5, <2>6, <2>8
<1>7. CASE MQTT
  <2>1. /\ mem' # Nothing => Kept(mem')
        /\ job' # Nothing => mem' # Nothing /\ JobOK(job')
        /\ broker' \in Brokers
        /\ link' \in Links /\ faults' \in 0 .. MaxFaults /\ disk' = disk
    BY <1>7, MQTTDoes DEF Quiet
  <2>2. UNCHANGED <<install, conf, stage, cancelled, runner, keeper, refused>> /\ stage \notin {"off", "built"}
    BY <1>7 DEF MQTT, process
  <2>3. RestOK'
    BY <1>1, <2>1, <2>2 DEF RestOK
  <2>4. ConfOK' /\ MemoryOK'
    BY <1>1, <2>1, <2>2 DEF ConfOK, MemoryOK, JobOK, PreviousOK, independentMeters
  <2>5. QED
    BY <1>2, <2>3, <2>4
<1>8. CASE \/ \E s \in Streams : BeginPoll(s) \/ Mail(s) \/ ReportEnds(s) \/ RunReturns(s)
           \/ Keep \/ KeeperReturns \/ Signal \/ ServeReturns \/ JoinMaintenance \/ JoinRunners
  <2>1. /\ Inside
        /\ runner' \in Runners
        /\ stage' \in {"built", "serving", "stopping", "joining", "closing"}
        /\ cancelled' \in BOOLEAN /\ keeper' \in {"idle", "busy", "mailing", "done"}
    BY <1>8, InsideSteps
  <2>2. RestOK'
    BY <1>1, <2>1 DEF RestOK, Inside, Stages
  <2>3. ConfOK'
    BY <1>1, <2>1 DEF ConfOK, Inside
  <2>4. MemoryOK'
    BY <1>1, <2>1 DEF MemoryOK, Inside, JobOK, PreviousOK, independentMeters, Streams
  <2>5. QED
    BY <1>2, <2>2, <2>3, <2>4
<1>9. CASE UNCHANGED vars
  <2>1. UNCHANGED <<install, conf, stage, cancelled, runner, keeper, refused, disk, mem, job, link, broker, faults>>
    BY <1>9 DEF vars, process, published
  <2>2. RestOK'
    <3>1. /\ install' = install /\ stage' = stage /\ cancelled' = cancelled /\ runner' = runner
          /\ keeper' = keeper /\ refused' = refused
      BY <2>1
    <3>2. disk' = disk /\ link' = link /\ broker' = broker /\ faults' = faults
      BY <2>1
    <3>3. RestOK
      BY <1>1
    <3>4. /\ install' \in Installations
          /\ stage' \in Stages
          /\ cancelled' \in BOOLEAN
          /\ runner' \in Runners
          /\ keeper' \in {"idle", "busy", "mailing", "done"}
      BY <3>1, <3>3 DEF RestOK
    <3>5. /\ disk' \in Manifests \cup {Nothing}
          /\ link' \in Links
          /\ broker' \in Brokers
          /\ faults' \in 0 .. MaxFaults
      BY <3>2, <3>3 DEF RestOK
    <3>6. QED
      BY <3>1, <3>3, <3>4, <3>5 DEF RestOK
  <2>3. ConfOK'
    BY <1>1, <2>1 DEF ConfOK
  <2>4. MemoryOK'
    BY <1>1, <2>1 DEF MemoryOK, JobOK, PreviousOK, independentMeters
  <2>5. QED
    BY <1>2, <2>2, <2>3, <2>4
<1>10. QED
  BY <1>3, <1>4, <1>5, <1>6, <1>7, <1>8, <1>9 DEF Next

LEMMA InitTyped == Init => TypeInv
<1> SUFFICES ASSUME Init PROVE TypeInv
  OBVIOUS
<1>1. PICK c \in Configs : install = InstallationOf(c)
  BY DEF Init
<1>2. install \in Installations
  BY <1>1, ServeAssumption DEF InstallationOf, Configurations, Installations
<1>3. RestOK
  <2>1. /\ stage = "off" /\ cancelled = FALSE /\ keeper = "done" /\ refused = "no" /\ disk = Nothing
        /\ runner \in Runners
    BY DEF Init, Runners
  <2>2. /\ link \in Links
        /\ broker \in Brokers
    BY DEF Init, Links, Brokers
  <2>3. faults \in 0 .. MaxFaults
    BY DiscoveryAssumption DEF Init
  <2>4. QED
    BY <1>2, <2>1, <2>2, <2>3 DEF RestOK, Stages, Refusals
<1>4. ConfOK /\ MemoryOK
  BY DEF Init, ConfOK, MemoryOK, Streams
<1>5. QED
  BY <1>3, <1>4, Parts

\* Everything has the type it is used with.
THEOREM TypeCorrect == Spec => []TypeOK
<1>1. Init => TypeInv
  BY InitTyped
<1>2. TypeInv /\ [Next]_vars => TypeInv'
  BY NextTyped
<1>3. TypeInv => TypeOK
  BY DEF TypeInv
<1>4. QED
  BY <1>1, <1>2, <1>3, PTL DEF Spec

-----------------------------------------------------------------------------
(* The end of a process                                                    *)

\* The joins of runServe, in their order: what is awaited stays done.
LifeInv ==
    /\ stage \in {"joining", "closing"} => keeper = "done"
    /\ stage = "closing" => \A s \in Streams : runner[s] = "finished"

LEMMA LifeKept ==
    ASSUME TypeInv, LifeInv, [Next]_vars
    PROVE  LifeInv'
<1>1. CASE (\E c \in Configs : Launch(c)) \/ Start \/ StartFails \/ Exit \/ Crash
  <2>1. stage' \notin {"joining", "closing"}
    BY <1>1, LaunchDoes, StartDoes, EndDoes DEF NoProcess, Launched
  <2>2. QED
    BY <2>1 DEF LifeInv
<1>2. CASE \E s \in Streams : BeginPoll(s) \/ Mail(s) \/ FetchReturns(s) \/ ReportEnds(s) \/ RunReturns(s)
  <2>1. PICK s \in Streams : BeginPoll(s) \/ Mail(s) \/ FetchReturns(s) \/ ReportEnds(s) \/ RunReturns(s)
    BY <1>2
  <2>2. runner[s] # "finished" /\ stage' = stage /\ keeper' = keeper
    BY <2>1 DEF BeginPoll, Mail, FetchReturns, ReportEnds, RunReturns
  <2>3. QED
    BY <2>2 DEF LifeInv
<1>3. CASE Keep \/ KeeperReturns
  <2>1. keeper # "done" /\ stage' = stage
    BY <1>3 DEF Keep, KeeperReturns
  <2>2. QED
    BY <2>1 DEF LifeInv
<1>4. CASE MQTT \/ UNCHANGED vars
  <2>1. stage' = stage /\ keeper' = keeper /\ runner' = runner
    BY <1>4 DEF MQTT, process, vars
  <2>2. QED
    BY <2>1 DEF LifeInv
<1>5. CASE Signal \/ ServeReturns
  <2>1. stage' \notin {"joining", "closing"}
    BY <1>5 DEF Signal, ServeReturns
  <2>2. QED
    BY <2>1 DEF LifeInv
<1>6. CASE JoinMaintenance
  <2>1. stage' = "joining" /\ keeper = "done" /\ keeper' = keeper
    BY <1>6 DEF JoinMaintenance
  <2>2. QED
    BY <2>1 DEF LifeInv
<1>7. CASE JoinRunners
  <2>1. /\ stage = "joining" /\ keeper' = keeper /\ runner' = runner
        /\ \A s \in Streams : runner[s] = "finished"
    BY <1>7 DEF JoinRunners
  <2>2. QED
    BY <2>1 DEF LifeInv
<1>8. QED
  BY <1>1, <1>2, <1>3, <1>4, <1>5, <1>6, <1>7 DEF Next

\* A process that ends by itself cuts nothing: the order of the joins in
\* runServe, and p.mu in Publisher.Close.
THEOREM EndsWholeCorrect == Spec => EndsWhole
<1>1. Init => TypeInv /\ LifeInv
  BY InitTyped DEF Init, LifeInv
<1>2. TypeInv /\ LifeInv /\ [Next]_vars => (TypeInv /\ LifeInv)'
  BY NextTyped, LifeKept
<1>3. TypeInv /\ LifeInv /\ [Next]_vars =>
          [stage = "closing" /\ stage' = "off" /\ faults' = faults =>
               keeper = "done" /\ job = Nothing /\ \A s \in Streams : runner[s] = "finished"]_vars
  <2> SUFFICES ASSUME TypeInv, LifeInv, [Next]_vars, stage = "closing", stage' = "off", faults' = faults
               PROVE  keeper = "done" /\ job = Nothing /\ \A s \in Streams : runner[s] = "finished"
    OBVIOUS
  <2>1. faults \in Nat
    <3>1. faults \in 0 .. MaxFaults
      BY Parts DEF RestOK
    <3>2. QED
      BY <3>1, DiscoveryAssumption
  <2>2. ~Fault
    BY <2>1 DEF Fault
  <2>3. Exit
    <3>1. ~Start /\ ~StartFails /\ ~Crash
      BY <2>2 DEF Start, StartFails, Crash
    <3>2. QED
      BY <3>1 DEF Next, Launch, BeginPoll, Mail, FetchReturns, ReportEnds, RunReturns, Keep, KeeperReturns, MQTT, process,
                  Signal, ServeReturns, JoinMaintenance, JoinRunners, vars
  <2>4. QED
    BY <2>3 DEF Exit, LifeInv
<1>4. QED
  BY <1>1, <1>2, <1>3, PTL DEF Spec, EndsWhole

-----------------------------------------------------------------------------
(* What a step brings to the file, the memory and the broker               *)

NoNews == EntitiesNow' \subseteq EntitiesNow /\ StatesNow' \subseteq StatesNow

\* A step that leaves the file and the schema of the process alone.
Rests ==
    /\ disk' = disk /\ NoNews
    /\ mem' # Nothing =>
           /\ mem # Nothing /\ mem'.discoveryState = mem.discoveryState
           /\ mem.discoveryState # Nothing => (stage' = "built" <=> stage = "built")

\* A start that loads the file, or begins a new manifest.
Loads == disk' = disk /\ NoNews /\ \E c \in Configs : Launched(c)

\* Publisher.Start: the schema of the process becomes the file.
Writes ==
    /\ mem # Nothing /\ mem.discoveryState # Nothing /\ stage = "built"
    /\ disk' = mem.discoveryState /\ NoNews
    /\ mem' = Nothing \/ (mem' = mem /\ stage' = "serving")
    /\ disk = Nothing \/ mem' = mem

\* A poll and its transaction.
Polls ==
    /\ mem # Nothing /\ stage \notin {"off", "built"} /\ stage' = stage /\ conf' = conf
    /\ mem' # Nothing
    /\ \E snapshot :
           /\ Genuine(snapshot)
           /\ \/ Stops(mem, snapshot) /\ NoNews
              \/ \E q : /\ GoesOn(mem, q, snapshot)
                        /\ EntitiesNow' \subseteq EntitiesNow \cup discoveryMessages(q, snapshot)
                        /\ StatesNow' \subseteq StatesNow \cup {buildStatePayload(q, snapshot)}

LEMMA PollBrings ==
    ASSUME TypeInv, NEW s \in Streams, FetchReturns(s)
    PROVE  Polls \/ UNCHANGED <<conf, stage, disk, mem, job, broker>>
<1>1. /\ stage \notin {"off", "built"}
      /\ \/ UNCHANGED <<disk, mem, job, faults>>
         \/ /\ mem # Nothing /\ job = Nothing /\ Kept(mem')
            /\ \E snapshot : /\ Genuine(snapshot)
                             /\ Stops(mem, snapshot) \/ \E q : GoesOn(mem, q, snapshot)
  BY PollDoes
<1>2. UNCHANGED <<conf, stage, broker>>
  BY DEF FetchReturns, FetchAnswers, published, OnPollFailure, OnPollSuccess
<1>3. CASE /\ mem # Nothing /\ job = Nothing /\ Kept(mem')
           /\ \E snapshot : /\ Genuine(snapshot)
                            /\ Stops(mem, snapshot) \/ \E q : GoesOn(mem, q, snapshot)
  <2>1. mem' # Nothing
    BY <1>3, DiscoveryAssumption DEF Kept
  <2>2. PICK snapshot : Genuine(snapshot) /\ (Stops(mem, snapshot) \/ \E q : GoesOn(mem, q, snapshot))
    BY <1>3
  <2>3. CASE Stops(mem, snapshot)
    <3>1. NoNews
      BY <1>2, <1>3, <2>1, <2>3 DEF NoNews, EntitiesNow, StatesNow, Stops, SameSchema
    <3>2. QED
      BY <1>1, <1>2, <1>3, <2>1, <2>2, <2>3, <3>1 DEF Polls
  <2>4. ASSUME NEW q, GoesOn(mem, q, snapshot) PROVE Polls
    <3>1. /\ mem'.cachedDiscovery \in {mem.cachedDiscovery, discoveryMessages(q, snapshot)}
          /\ job'.messages \subseteq discoveryMessages(q, snapshot)
          /\ mem'.cachedState = buildStatePayload(q, snapshot)
      BY <2>4 DEF GoesOn
    <3>2. EntitiesNow' \subseteq EntitiesNow \cup discoveryMessages(q, snapshot)
      BY <1>2, <1>3, <2>1, <3>1 DEF EntitiesNow
    <3>3. StatesNow' \subseteq StatesNow \cup {buildStatePayload(q, snapshot)}
      BY <1>2, <1>3, <2>1, <3>1 DEF StatesNow
    <3>4. QED
      BY <1>1, <1>2, <1>3, <2>1, <2>2, <2>4, <3>2, <3>3 DEF Polls
  <2>5. QED
    BY <2>2, <2>3, <2>4
<1>4. QED
  BY <1>1, <1>2, <1>3

LEMMA StepDoes ==
    ASSUME TypeInv, [Next]_vars
    PROVE  /\ install' = install
           /\ \A e \in broker.entities : \E f \in broker'.entities : f.key = e.key
           /\ disk' = disk \/ broker' = broker
           /\ Rests \/ Loads \/ Writes \/ Polls
<1>1. UNCHANGED <<disk, mem, job, broker>> => NoNews
  BY DEF NoNews, EntitiesNow, StatesNow
<1>2. CASE \E c \in Configs : Launch(c)
  <2> PICK c \in Configs : Launch(c)
    BY <1>2
  <2>1. /\ UNCHANGED <<install, disk, job, broker>> /\ stage = "off" /\ mem = Nothing
        /\ Launched(c) \/ UNCHANGED <<stage, conf, mem>>
    BY LaunchDoes
  <2>2. CASE Launched(c)
    <3>1. mem' = Nothing \/ (mem'.cachedDiscovery = {} /\ mem'.cachedState = Nothing)
      BY <2>2 DEF Launched, FreshPublisher
    <3>2. NoNews
      BY <2>1, <3>1 DEF NoNews, EntitiesNow, StatesNow
    <3>3. QED
      BY <2>1, <2>2, <3>2 DEF Loads
  <2>3. CASE UNCHANGED <<stage, conf, mem>>
    BY <1>1, <2>1, <2>3 DEF Rests
  <2>4. QED
    BY <2>1, <2>2, <2>3
<1>3. CASE StartFails \/ Exit \/ Crash
  <2>1. /\ NoProcess /\ install' = install
        /\ broker'.entities \subseteq EntitiesNow /\ broker'.states \subseteq StatesNow
        /\ \A e \in broker.entities : \E f \in broker'.entities : f.key = e.key
    BY <1>3, EndDoes
  <2>2. NoNews /\ mem' = Nothing
    BY <2>1 DEF NoNews, EntitiesNow, StatesNow, NoProcess
  <2>3. CASE disk' = disk
    BY <2>1, <2>2, <2>3 DEF Rests
  <2>4. CASE disk' # disk
    <3>1. StartFails
      BY <1>3, <2>4 DEF Exit, Crash
    <3>2. /\ mem # Nothing /\ mem.discoveryState # Nothing /\ disk = Nothing /\ disk' = mem.discoveryState
          /\ stage = "built" /\ broker' = broker
      BY <2>4, <3>1 DEF StartFails
    <3>3. QED
      BY <2>1, <2>2, <3>2 DEF Writes
  <2>5. QED
    BY <2>3, <2>4
<1>4. CASE Start
  <2>1. /\ UNCHANGED <<install, mem, job, broker>> /\ stage = "built" /\ stage' = "serving"
        /\ disk' = IF mem # Nothing /\ mem.discoveryState # Nothing THEN mem.discoveryState ELSE disk
    BY <1>4, StartDoes
  <2>2. NoNews
    BY <2>1 DEF NoNews, EntitiesNow, StatesNow
  <2>3. CASE mem # Nothing /\ mem.discoveryState # Nothing
    BY <2>1, <2>2, <2>3 DEF Writes
  <2>4. CASE mem = Nothing \/ mem.discoveryState = Nothing
    BY <2>1, <2>2, <2>4 DEF Rests
  <2>5. QED
    BY <2>1, <2>3, <2>4
<1>5. CASE \E s \in Streams : FetchReturns(s)
  <2> PICK s \in Streams : FetchReturns(s)
    BY <1>5
  <2>1. Polls \/ UNCHANGED <<conf, stage, disk, mem, job, broker>>
    BY PollBrings
  <2>2. install' = install /\ broker' = broker
    BY DEF FetchReturns, FetchAnswers, published, OnPollFailure, OnPollSuccess
  <2>3. UNCHANGED <<conf, stage, disk, mem, job, broker>> => Rests
    BY <1>1 DEF Rests
  <2>4. QED
    BY <2>1, <2>2, <2>3
<1>6. CASE MQTT
  <2>1. Quiet /\ \A e \in broker.entities : \E f \in broker'.entities : f.key = e.key
    BY <1>6, MQTTDoes
  <2>2. UNCHANGED <<install, stage>>
    BY <1>6 DEF MQTT, process
  <2>3. QED
    BY <2>1, <2>2 DEF Quiet, Rests, NoNews
<1>7. CASE \/ \E s \in Streams : BeginPoll(s) \/ Mail(s) \/ ReportEnds(s) \/ RunReturns(s)
           \/ Keep \/ KeeperReturns \/ Signal \/ ServeReturns \/ JoinMaintenance \/ JoinRunners
  <2>1. UNCHANGED <<install, disk, mem, job, broker>>
    BY <1>7, InsideSteps DEF Inside
  <2>2. stage' = "built" <=> stage = "built"
    BY <1>7 DEF BeginPoll, Mail, ReportEnds, RunReturns, Keep, KeeperReturns, Signal, ServeReturns, JoinMaintenance, JoinRunners
  <2>3. QED
    BY <1>1, <2>1, <2>2 DEF Rests
<1>8. CASE UNCHANGED vars
  <2>1. UNCHANGED <<install, stage, disk, mem, job, broker>>
    BY <1>8 DEF vars, process, published
  <2>2. QED
    BY <1>1, <2>1 DEF Rests
<1>9. QED
  BY <1>2, <1>3, <1>4, <1>5, <1>6, <1>7, <1>8 DEF Next

-----------------------------------------------------------------------------
(* One device                                                              *)

\* What is published under a configured identity, and under which keys.
DeviceInv ==
    /\ install.deviceID => \A x \in EntitiesNow \cup StatesNow : x.device = DeviceID
    /\ \A e \in EntitiesNow : e.key = e.reading.key

LEMMA NothingPublished == Init => EntitiesNow = {} /\ StatesNow = {} /\ disk = Nothing /\ mem = Nothing
BY DEF Init, EntitiesNow, StatesNow

LEMMA DeviceKept ==
    ASSUME TypeInv, DeviceInv, [Next]_vars
    PROVE  DeviceInv'
<1>1. install' = install /\ (Rests \/ Loads \/ Writes \/ Polls)
  BY StepDoes
<1>2. CASE NoNews
  BY <1>1, <1>2 DEF DeviceInv, NoNews
<1>3. ASSUME Polls, ~NoNews PROVE DeviceInv'
  <2>1. PICK snapshot : /\ Genuine(snapshot)
                        /\ \E q : /\ GoesOn(mem, q, snapshot)
                                  /\ EntitiesNow' \subseteq EntitiesNow \cup discoveryMessages(q, snapshot)
                                  /\ StatesNow' \subseteq StatesNow \cup {buildStatePayload(q, snapshot)}
    BY <1>3 DEF Polls
  <2>2. PICK q : /\ GoesOn(mem, q, snapshot)
                 /\ EntitiesNow' \subseteq EntitiesNow \cup discoveryMessages(q, snapshot)
                 /\ StatesNow' \subseteq StatesNow \cup {buildStatePayload(q, snapshot)}
    BY <2>1
  <2>3. q \in Publishers /\ snapshot \in Snapshots
    BY <2>1, <2>2 DEF GoesOn, Genuine
  <2>4. \A e \in discoveryMessages(q, snapshot) : e.device = device(snapshot) /\ e.key = e.reading.key
    BY <2>3, MessagesTyped
  <2>5. buildStatePayload(q, snapshot).device = device(snapshot)
    BY DEF buildStatePayload
  <2>6. install.deviceID => device(snapshot) = DeviceID
    <3>1. stage # "off"
      BY <1>3 DEF Polls
    <3>2. conf.deviceID = install.deviceID
      BY <3>1, ConfFacts DEF TypeInv
    <3>3. QED
      BY <3>2 DEF device
  <2>7. QED
    BY <1>1, <2>2, <2>4, <2>5, <2>6 DEF DeviceInv
<1>4. QED
  BY <1>1, <1>2, <1>3 DEF Rests, Loads, Writes

\* An installation with a manifest, a meter or several sources is one device in
\* Home Assistant: validateMQTT asks for an identity, which device() then uses.
THEOREM OneDeviceCorrect == Spec => []OneDevice
<1>1. Init => TypeInv /\ DeviceInv
  BY InitTyped, NothingPublished DEF DeviceInv
<1>2. TypeInv /\ DeviceInv /\ [Next]_vars => (TypeInv /\ DeviceInv)'
  BY NextTyped, DeviceKept
<1>3. TypeInv /\ DeviceInv => OneDevice
  <2> SUFFICES ASSUME TypeInv, DeviceInv, conf # Nothing, conf.mqtt,
                      conf.discoveryStateFile \/ conf.meter \/ Len(conf.sourcePriority) > 1
               PROVE  \A e, f \in broker.entities \cup broker.states : e.device = f.device
    BY DEF OneDevice
  <2>1. stage # "off"
    BY DEF TypeInv, MemoryOK
  <2>2. install.deviceID
    BY <2>1, ConfFacts DEF TypeInv
  <2>3. broker.entities \cup broker.states \subseteq EntitiesNow \cup StatesNow
    BY DEF EntitiesNow, StatesNow
  <2>4. QED
    BY <2>2, <2>3 DEF DeviceInv
<1>4. QED
  BY <1>1, <1>2, <1>3, PTL DEF Spec

-----------------------------------------------------------------------------
(* The schema                                                              *)

SchemaOK(m) == Agree(allMetrics(m)) /\ m.ordinary \subseteq UNION Reports[m.primary]

\* The manifest on disk and the one in memory.
SchemaInv ==
    /\ disk # Nothing => SchemaOK(disk)
    /\ mem # Nothing => (mem.discoveryState # Nothing <=> install.discoveryStateFile)
    /\ mem # Nothing /\ mem.discoveryState # Nothing => SchemaOK(mem.discoveryState)

LEMMA FreshSchema ==
    ASSUME NEW primary \in Sources
    PROVE  SchemaOK(newDiscoveryState(primary))
<1>1. allMetrics(newDiscoveryState(primary)) = {}
  BY FreshManifest
<1>2. newDiscoveryState(primary).ordinary = {}
  BY DEF newDiscoveryState
<1>3. QED
  BY <1>1, <1>2 DEF SchemaOK, Agree

\* A snapshot that fits leaves a good schema good, and known all it reports.
LEMMA FitsKeeps ==
    ASSUME NEW m \in Manifests, SchemaOK(m), NEW snapshot, Genuine(snapshot), Fits(m, snapshot)
    PROVE  LET c == mergeSnapshot(m, snapshot) IN
           /\ c \in Manifests /\ SchemaOK(c) /\ allMetrics(m) \subseteq allMetrics(c)
<1> DEFINE c == mergeSnapshot(m, snapshot)
<1>1. snapshot \in Snapshots
  BY DEF Genuine
<1>2. /\ c \in Manifests /\ c.primary = m.primary /\ allMetrics(m) \subseteq allMetrics(c)
      /\ c.ordinary = IF snapshot.source = m.primary THEN m.ordinary \cup Of("ordinary", snapshot.readings)
                      ELSE m.ordinary
  BY <1>1, MergeDoes
<1>3. Agree(allMetrics(c))
  <2>1. CASE c = m
    BY <2>1 DEF SchemaOK
  <2>2. CASE c # m
    BY <2>2 DEF Fits, validateDiscoveryState
  <2>3. QED
    BY <2>1, <2>2
<1> HIDE DEF c
<1>4. snapshot.source = m.primary => Of("ordinary", snapshot.readings) \subseteq UNION Reports[m.primary]
  BY DEF Genuine, Of
<1>5. c.ordinary \subseteq UNION Reports[m.primary]
  BY <1>2, <1>4 DEF SchemaOK
<1>6. QED
  BY <1>2, <1>3, <1>5 DEF SchemaOK, c

LEMMA LoadDoes ==
    ASSUME TypeInv, SchemaInv, NEW c \in Configs, Launched(c), mem' # Nothing
    PROVE  /\ mem'.discoveryState # Nothing <=> install.discoveryStateFile
           /\ mem'.discoveryState # Nothing =>
                  SchemaOK(mem'.discoveryState) /\ (disk # Nothing => mem'.discoveryState = disk)
<1> DEFINE d == Defaulted(c)
           m == loadDiscoveryState(PrimarySource(d))
<1>1. d.discoveryStateFile \in BOOLEAN /\ PrimarySource(d) \in Sources
  BY ConfigurationsValid DEF Launched, Configurations
<1>2. mem' = FreshPublisher(d, m) /\ d.discoveryStateFile = install.discoveryStateFile
  BY DEF Launched, InstallationOf
<1> HIDE DEF d
<1>3. /\ m \in Manifests /\ SchemaOK(m) /\ (disk # Nothing => m = disk)
  <2>1. disk \in Manifests \cup {Nothing}
    BY Parts DEF RestOK
  <2>2. QED
    BY <1>1, <2>1, FreshManifest, FreshSchema DEF loadDiscoveryState, SchemaInv
<1>4. m # Nothing
  BY <1>3, DiscoveryAssumption
<1> HIDE DEF m
<1>5. mem'.discoveryState = IF d.discoveryStateFile THEN m ELSE Nothing
  BY <1>2 DEF FreshPublisher
<1>6. QED
  BY <1>1, <1>2, <1>3, <1>4, <1>5

LEMMA SchemaKept ==
    ASSUME TypeInv, SchemaInv, [Next]_vars
    PROVE  SchemaInv'
<1>1. install' = install /\ (Rests \/ Loads \/ Writes \/ Polls)
  BY StepDoes
<1>2. CASE Rests
  BY <1>1, <1>2 DEF Rests, SchemaInv
<1>3. CASE Loads
  <2> PICK c \in Configs : Launched(c)
    BY <1>3 DEF Loads
  <2>1. disk' = disk
    BY <1>3 DEF Loads
  <2>2. QED
    BY <1>1, <2>1, LoadDoes DEF SchemaInv
<1>4. CASE Writes
  BY <1>1, <1>4 DEF Writes, SchemaInv
<1>5. CASE Polls
  <2>1. mem # Nothing /\ mem' # Nothing
    BY <1>5 DEF Polls
  <2>2. mem.discoveryState \in Manifests \cup {Nothing}
    BY <2>1, Parts DEF MemoryOK, Kept, Publishers
  <2>3. PICK snapshot : Genuine(snapshot) /\ (Stops(mem, snapshot) \/ \E q : GoesOn(mem, q, snapshot))
    BY <1>5 DEF Polls
  <2> DEFINE c == mergeSnapshot(mem.discoveryState, snapshot)
  <2>4. mem.discoveryState # Nothing /\ Fits(mem.discoveryState, snapshot) => c # Nothing /\ SchemaOK(c)
    BY <2>1, <2>2, <2>3, FitsKeeps, DiscoveryAssumption DEF SchemaInv
  <2> HIDE DEF c
  <2>5. CASE Stops(mem, snapshot)
    <3>1. /\ mem'.discoveryState = mem.discoveryState
          /\ \/ disk' = disk
             \/ mem.discoveryState # Nothing /\ Fits(mem.discoveryState, snapshot) /\ disk' = c
      BY <2>5 DEF Stops, SameSchema, c
    <3>2. QED
      BY <1>1, <2>1, <2>4, <3>1 DEF SchemaInv
  <2>6. CASE \E q : GoesOn(mem, q, snapshot)
    <3>1. \/ mem.discoveryState = Nothing /\ mem'.discoveryState = Nothing /\ disk' = disk
          \/ /\ mem.discoveryState # Nothing /\ Fits(mem.discoveryState, snapshot)
             /\ mem'.discoveryState = c /\ disk' \in {c, disk}
      BY <2>6 DEF GoesOn, c
    <3>2. QED
      BY <1>1, <2>1, <2>4, <3>1 DEF SchemaInv
  <2>7. QED
    BY <2>3, <2>5, <2>6
<1>6. QED
  BY <1>1, <1>2, <1>3, <1>4, <1>5

LEMMA SchemaCorrect == Spec => [](TypeInv /\ SchemaInv)
<1>1. Init => TypeInv /\ SchemaInv
  BY InitTyped, NothingPublished DEF SchemaInv
<1>2. TypeInv /\ SchemaInv /\ [Next]_vars => (TypeInv /\ SchemaInv)'
  BY NextTyped, SchemaKept
<1>3. QED
  BY <1>1, <1>2, PTL DEF Spec

\* All ordinary entities of the manifest were reported by the primary source it
\* is bound to (mergeSnapshot).
THEOREM PrimaryCorrect == Spec => []PrimaryOwnsOrdinary
<1>1. SchemaInv => PrimaryOwnsOrdinary
  BY DEF SchemaInv, SchemaOK, PrimaryOwnsOrdinary
<1>2. QED
  BY <1>1, SchemaCorrect, PTL

-----------------------------------------------------------------------------
(* Starts                                                                  *)

\* What validate accepts, the constructors accept.
LEMMA ValidatedAccepted ==
    ASSUME NEW c \in Configs, FromCLI(c)
    PROVE  LET d == Defaulted(c) IN
           ~buildInverterSourceRefuses(d) /\ ~meterRefuses(d) /\ ~publisherRefuses(d)
<1> DEFINE d == Defaulted(c)
<1>1. /\ d \in Configurations /\ validate(d) /\ d.sourcePriority \in Seq(STRING) /\ d.sourcePriority # <<>>
      /\ Len(d.sourcePriority) \in Nat \ {0} /\ PrimarySource(d) \in Sources
      /\ Names(d.sourcePriority) \subseteq Sources
  BY ConfigurationsValid
<1> HIDE DEF d
<1> DEFINE q == d.sourcePriority
<1>2. DOMAIN q = 1 .. Len(q) /\ 1 \in DOMAIN q
  BY <1>1
<1>3. /\ \A i, j \in DOMAIN q : q[i] = q[j] => i = j
      /\ \A s \in Names(q) : s \in KnownSources /\ s \in d.valid
  BY <1>1 DEF validate, validateSources, validateSourceConfig
<1>4. \A s \in Names(q) : ~buildSourceRefuses(d, s)
  BY <1>3 DEF buildSourceRefuses
<1>5. ~(d.evidence /\ EnableModbusValidationEvidenceRefuses(d))
  <2> SUFFICES ASSUME d.evidence PROVE ~EnableModbusValidationEvidenceRefuses(d)
    OBVIOUS
  <2>1. q[1] = "modbus"
    BY <1>1 DEF validate, validateModbusExtras, StartsWithModbus
  <2>2. \A i \in 2 .. Len(q) : i \in DOMAIN q /\ i # 1
    BY <1>1, <1>2
  <2>3. \A i \in 2 .. Len(q) : q[i] # "modbus"
    BY <1>2, <1>3, <2>1, <2>2
  <2>4. QED
    BY <2>1, <2>3 DEF EnableModbusValidationEvidenceRefuses
<1>6. ~(d.correlation /\ configureModbusAlertCorrelationRefuses(d))
  <2> SUFFICES ASSUME d.correlation PROVE ~configureModbusAlertCorrelationRefuses(d)
    OBVIOUS
  <2>1. q[1] = "modbus" /\ {"jinko", "solarman"} \subseteq Names(q) /\ "homeassistant" \in d.valid
    BY <1>1 DEF validate, validateModbusExtras, StartsWithModbus
  <2>2. \A s \in KnownSources : \E i \in DOMAIN q : q[i] = s
    BY <1>2, <2>1 DEF Names, KnownSources
  <2>3. \A s \in KnownSources : \E i \in DOMAIN q : \A j \in DOMAIN q : q[j] = s <=> j = i
    BY <1>3, <2>2
  <2>4. QED
    BY <2>1, <2>3 DEF configureModbusAlertCorrelationRefuses
<1>7. ~meterRefuses(d)
  BY <1>1 DEF validate, meterRefuses
<1>8. ~publisherRefuses(d)
  <2>1. PrimarySource(d) # ""
    BY <1>1, ServeAssumption DEF KnownSources
  <2>2. d.mqtt => "mqtt" \in d.valid /\ (d.discoveryStateFile => d.deviceID)
    BY <1>1 DEF validate, validateMQTT
  <2>3. QED
    BY <2>1, <2>2 DEF publisherRefuses
<1>9. QED
  BY <1>4, <1>5, <1>6, <1>7, <1>8 DEF buildInverterSourceRefuses, d

LEMMA RefusedKept ==
    ASSUME TypeInv, SchemaInv, StartsAsValidated, [Next]_vars
    PROVE  StartsAsValidated'
<1>1. CASE \E c \in Configs : Launch(c)
  <2> PICK c \in Configs : Launch(c)
    BY <1>1
  <2> DEFINE d == Defaulted(c)
  <2>1. Launched(c) \/ refused' = IF FromCLI(c) THEN Refusal(d) ELSE "settings"
    BY LaunchDoes
  <2>2. ASSUME FromCLI(c) PROVE Refusal(d) \notin {"source", "meter", "publisher", "manifest"}
    <3>1. ~buildInverterSourceRefuses(d) /\ ~meterRefuses(d) /\ ~publisherRefuses(d)
      BY <2>2, ValidatedAccepted
    <3>2. validateDiscoveryState(loadDiscoveryState(PrimarySource(d)))
      <4>1. PrimarySource(d) \in Sources
        BY <2>2, ConfigurationsValid
      <4>2. SchemaOK(loadDiscoveryState(PrimarySource(d)))
        BY <4>1, FreshSchema DEF loadDiscoveryState, SchemaInv
      <4>3. QED
        BY <4>2 DEF SchemaOK, validateDiscoveryState
    <3>3. QED
      BY <3>1, <3>2 DEF Refusal
  <2>3. QED
    BY <2>1, <2>2 DEF StartsAsValidated, Launched
<1>2. CASE StartFails \/ Exit \/ Crash
  <2>1. refused' \in {refused, "listen", "disk"}
    BY <1>2, EndDoes
  <2>2. QED
    BY <2>1 DEF StartsAsValidated
<1>3. CASE refused' = refused
  BY <1>3 DEF StartsAsValidated
<1>4. CASE ~(\E c \in Configs : Launch(c)) /\ ~(StartFails \/ Exit \/ Crash)
  <2>1. refused' = refused
    BY <1>4 DEF Next, Start, BeginPoll, Mail, FetchReturns, ReportEnds, RunReturns, Keep, KeeperReturns, MQTT, process,
                Signal, ServeReturns, JoinMaintenance, JoinRunners, vars
  <2>2. QED
    BY <1>3, <2>1
<1>5. QED
  BY <1>1, <1>2, <1>4

\* A start is never refused by a constructor for what the configuration check
\* accepted, nor by the manifest another process left.
THEOREM StartsCorrect == Spec => []StartsAsValidated
<1>1. Init => TypeInv /\ SchemaInv /\ StartsAsValidated
  BY InitTyped, NothingPublished DEF SchemaInv, StartsAsValidated, Init
<1>2. TypeInv /\ SchemaInv /\ StartsAsValidated /\ [Next]_vars => (TypeInv /\ SchemaInv /\ StartsAsValidated)'
  BY NextTyped, SchemaKept, RefusedKept
<1>3. QED
  BY <1>1, <1>2, PTL DEF Spec

-----------------------------------------------------------------------------
(* The registry                                                            *)

MetricsOf(m) == IF m = Nothing THEN {} ELSE allMetrics(m)

\* All that is, or may still come to be, on the broker is a reading of the schema m.
Within(m) ==
    /\ \A e \in EntitiesNow : e.reading \in MetricsOf(m)
    /\ \A s \in StatesNow : s.values \subseteq MetricsOf(m)

\* With a manifest: it is on record on disk, and in memory, also when a write of
\* a larger schema broke off after the file was replaced, and that schema is
\* given up for another one.
RegistryInv ==
    install.discoveryStateFile =>
        /\ Within(disk)
        /\ mem # Nothing => Within(mem.discoveryState)
        /\ mem # Nothing /\ stage # "built" => MetricsOf(mem.discoveryState) \subseteq MetricsOf(disk)
        /\ mem # Nothing /\ stage = "built" /\ disk # Nothing => mem.discoveryState = disk

\* What a publish of the schema m brings is within it.
LEMMA MessagesWithin ==
    ASSUME NEW q \in Publishers, NEW m \in Manifests, NEW snapshot, Genuine(snapshot), Fits(m, snapshot),
           q.discoveryState = mergeSnapshot(m, snapshot)
    PROVE  /\ \A e \in discoveryMessages(q, snapshot) : e.reading \in MetricsOf(q.discoveryState)
           /\ buildStatePayload(q, snapshot).values \subseteq MetricsOf(q.discoveryState)
<1> DEFINE c == mergeSnapshot(m, snapshot)
           R == snapshot.readings
<1>1. snapshot \in Snapshots /\ snapshot.source \in Sources /\ R \in SUBSET Readings
  BY DEF Genuine, Snapshots
<1>2. /\ c \in Manifests
      /\ c.ordinary = IF snapshot.source = m.primary THEN m.ordinary \cup Of("ordinary", R) ELSE m.ordinary
      /\ c.meter = m.meter \cup Of("meter", R)
      /\ c.alerts[snapshot.source] = m.alerts[snapshot.source] \cup Of("alert", R)
  BY <1>1, MergeDoes
<1>3. c # Nothing
  BY <1>2, DiscoveryAssumption
<1>4. snapshot.source # m.primary => Agree(m.ordinary \cup Of("ordinary", R))
  BY DEF Fits, mergeConflicts
<1>5. q.discoveryState = c
  OBVIOUS
<1> HIDE DEF c
<1>6. MetricsOf(c) = allMetrics(c) /\ c.ordinary \subseteq allMetrics(c) /\ c.meter \subseteq allMetrics(c)
      /\ c.alerts[snapshot.source] \subseteq allMetrics(c)
  BY <1>1, <1>3 DEF MetricsOf, allMetrics
<1>7. \A e \in discoveryMessages(q, snapshot) : e.reading \in allMetrics(c)
  BY <1>3, <1>5 DEF discoveryMessages, Entity
<1>8. ASSUME NEW r \in R, metricOwnedByDiscoveryState(q, snapshot.source, r) PROVE r \in allMetrics(c)
  <2>1. r.kind \in {"ordinary", "alert", "meter"}
    BY <1>1, <1>8, DiscoveryAssumption
  <2>2. CASE r.kind = "alert"
    BY <1>2, <1>6, <1>8, <2>2 DEF Of
  <2>3. CASE r.kind = "meter"
    BY <1>2, <1>6, <1>8, <2>3 DEF Of
  <2>4. CASE r.kind = "ordinary"
    <3>1. \E o \in c.ordinary : o.key = r.key
      BY <1>3, <1>5, <1>8, <2>4 DEF metricOwnedByDiscoveryState
    <3>2. CASE snapshot.source = m.primary
      BY <1>2, <1>6, <1>8, <2>4, <3>2 DEF Of
    <3>3. CASE snapshot.source # m.primary
      <4>1. PICK o \in m.ordinary : o.key = r.key
        BY <1>2, <3>1, <3>3
      <4>2. r \in Of("ordinary", R)
        BY <2>4 DEF Of
      <4>3. r = o
        BY <1>4, <3>3, <4>1, <4>2 DEF Agree
      <4>4. QED
        BY <1>2, <1>6, <3>3, <4>3
    <3>4. QED
      BY <3>2, <3>3
  <2>5. QED
    BY <2>1, <2>2, <2>3, <2>4
<1>9. buildStatePayload(q, snapshot).values \subseteq allMetrics(c)
  BY <1>8 DEF buildStatePayload
<1>10. QED
  BY <1>5, <1>6, <1>7, <1>9

LEMMA RegistryKept ==
    ASSUME TypeInv, SchemaInv, RegistryInv, [Next]_vars
    PROVE  RegistryInv'
<1> DEFINE After(M) == /\ \A e \in EntitiesNow' : e.reading \in M
                       /\ \A s \in StatesNow' : s.values \subseteq M
<1>1. install' = install /\ (Rests \/ Loads \/ Writes \/ Polls)
  BY StepDoes
<1>2. SchemaInv'
  BY SchemaKept
<1> SUFFICES ASSUME install.discoveryStateFile
             PROVE  /\ After(MetricsOf(disk'))
                    /\ mem' # Nothing => After(MetricsOf(mem'.discoveryState))
                    /\ mem' # Nothing /\ stage' # "built" =>
                           MetricsOf(mem'.discoveryState) \subseteq MetricsOf(disk')
                    /\ mem' # Nothing /\ stage' = "built" /\ disk' # Nothing => mem'.discoveryState = disk'
  BY <1>1 DEF RegistryInv, Within, MetricsOf
<1>3. /\ mem # Nothing => mem.discoveryState # Nothing
      /\ mem' # Nothing => mem'.discoveryState # Nothing
  BY <1>1, <1>2 DEF SchemaInv
<1>4. /\ Within(disk)
      /\ mem # Nothing => Within(mem.discoveryState)
      /\ mem # Nothing /\ stage # "built" => MetricsOf(mem.discoveryState) \subseteq MetricsOf(disk)
      /\ mem # Nothing /\ stage = "built" /\ disk # Nothing => mem.discoveryState = disk
  BY DEF RegistryInv
<1>5. ASSUME NEW m, NEW M, Within(m), NoNews, MetricsOf(m) \subseteq M PROVE After(M)
  BY <1>5 DEF Within, NoNews
<1> HIDE DEF After
<1>6. CASE Rests
  <2>1. disk' = disk /\ After(MetricsOf(disk))
    BY <1>4, <1>5, <1>6 DEF Rests
  <2>2. CASE mem' = Nothing
    BY <2>1, <2>2
  <2>3. CASE mem' # Nothing
    <3>1. mem # Nothing /\ mem'.discoveryState = mem.discoveryState /\ (stage' = "built" <=> stage = "built")
      BY <1>3, <1>6, <2>3 DEF Rests
    <3>2. After(MetricsOf(mem.discoveryState))
      BY <1>4, <1>5, <1>6, <3>1 DEF Rests
    <3>3. QED
      BY <1>4, <2>1, <3>1, <3>2
  <2>4. QED
    BY <2>2, <2>3
<1>7. CASE Loads
  <2> PICK c \in Configs : Launched(c)
    BY <1>7 DEF Loads
  <2>1. disk' = disk /\ NoNews /\ stage' = "built"
    BY <1>7 DEF Loads, Launched
  <2>2. mem' # Nothing => (disk # Nothing => mem'.discoveryState = disk)
    BY <1>3, LoadDoes
  <2>3. mem' # Nothing => After(MetricsOf(mem'.discoveryState))
    <3>1. CASE disk = Nothing
      <4>1. MetricsOf(disk) \subseteq MetricsOf(mem'.discoveryState)
        BY <3>1 DEF MetricsOf
      <4>2. QED
        BY <1>4, <1>5, <2>1, <4>1
    <3>2. CASE disk # Nothing
      BY <1>4, <1>5, <2>1, <2>2, <3>2
    <3>3. QED
      BY <3>1, <3>2
  <2>4. QED
    BY <1>4, <1>5, <2>1, <2>2, <2>3
<1>8. CASE Writes
  <2>1. /\ mem # Nothing /\ disk' = mem.discoveryState /\ NoNews
        /\ mem' = Nothing \/ (mem' = mem /\ stage' = "serving")
    BY <1>8 DEF Writes
  <2>2. After(MetricsOf(mem.discoveryState))
    BY <1>4, <1>5, <2>1
  <2>3. QED
    BY <2>1, <2>2
<1>9. CASE Polls
  <2> DEFINE m == mem.discoveryState
  <2>1. mem # Nothing /\ mem' # Nothing /\ stage # "built" /\ stage' # "built"
    BY <1>9 DEF Polls
  <2>2. m \in Manifests /\ SchemaOK(m)
    BY <1>3, <2>1, Parts DEF MemoryOK, Kept, Publishers, SchemaInv
  <2>3. PICK snapshot :
           /\ Genuine(snapshot)
           /\ \/ Stops(mem, snapshot) /\ NoNews
              \/ \E q : /\ GoesOn(mem, q, snapshot)
                        /\ EntitiesNow' \subseteq EntitiesNow \cup discoveryMessages(q, snapshot)
                        /\ StatesNow' \subseteq StatesNow \cup {buildStatePayload(q, snapshot)}
    BY <1>9 DEF Polls
  <2> DEFINE c == mergeSnapshot(m, snapshot)
  <2>4. Fits(m, snapshot) => MetricsOf(m) \subseteq MetricsOf(c)
    BY <2>2, <2>3, FitsKeeps, DiscoveryAssumption DEF MetricsOf
  <2>5. CASE Stops(mem, snapshot) /\ NoNews
    <3>1. /\ mem'.discoveryState = m
          /\ disk' = disk \/ (Fits(m, snapshot) /\ disk' = c)
      BY <2>5 DEF Stops, SameSchema
    <3> HIDE DEF m, c
    <3>2. MetricsOf(m) \subseteq MetricsOf(disk')
      BY <1>4, <2>1, <2>4, <3>1 DEF m
    <3>3. After(MetricsOf(m)) /\ After(MetricsOf(disk'))
      BY <1>4, <1>5, <2>1, <2>5, <3>2 DEF m
    <3>4. QED
      BY <2>1, <3>1, <3>2, <3>3
  <2>6. ASSUME NEW q, GoesOn(mem, q, snapshot),
               EntitiesNow' \subseteq EntitiesNow \cup discoveryMessages(q, snapshot),
               StatesNow' \subseteq StatesNow \cup {buildStatePayload(q, snapshot)}
        PROVE  /\ After(MetricsOf(disk')) /\ After(MetricsOf(mem'.discoveryState))
               /\ MetricsOf(mem'.discoveryState) \subseteq MetricsOf(disk')
    <3>1. /\ q \in Publishers /\ q.discoveryState = c /\ mem'.discoveryState = c /\ Fits(m, snapshot)
          /\ disk' = c \/ (disk' = disk /\ c = m)
      BY <1>3, <2>1, <2>6 DEF GoesOn
    <3>2. /\ \A e \in discoveryMessages(q, snapshot) : e.reading \in MetricsOf(c)
          /\ buildStatePayload(q, snapshot).values \subseteq MetricsOf(c)
      BY <2>2, <2>3, <3>1, MessagesWithin
    <3> HIDE DEF m, c
    <3>3. /\ \A e \in EntitiesNow : e.reading \in MetricsOf(m)
          /\ \A s \in StatesNow : s.values \subseteq MetricsOf(m)
      BY <1>4, <2>1 DEF Within, m
    <3>4. After(MetricsOf(c))
      BY <2>4, <2>6, <3>1, <3>2, <3>3 DEF After
    <3>5. MetricsOf(c) \subseteq MetricsOf(disk')
      BY <1>4, <2>1, <3>1 DEF m
    <3>6. After(MetricsOf(disk'))
      BY <3>4, <3>5 DEF After
    <3>7. QED
      BY <3>1, <3>4, <3>5, <3>6
  <2>7. QED
    BY <2>1, <2>3, <2>5, <2>6
<1>10. QED
  BY <1>1, <1>6, <1>7, <1>8, <1>9

\* What the refinement shows for a key, in one state.
LEMMA Mapped ==
    ASSUME TypeInv, SchemaInv, DeviceInv, RegistryInv
    PROVE  /\ recorded \in [Keys -> Readings \cup {Nothing}]
           /\ shownEntities \in [Keys -> Readings \cup {Nothing}]
           /\ \A k \in Keys : shownEntities[k] # Nothing => recorded[k] = shownEntities[k]
           /\ \A k \in Keys : shownEntities[k] # Nothing <=>
                  install.discoveryStateFile /\ \E e \in broker.entities : e.key = k
<1>1. disk # Nothing => disk \in Manifests
  BY Parts DEF RestOK
<1>2. disk # Nothing => allMetrics(disk) \in SUBSET Readings /\ Agree(allMetrics(disk))
  BY <1>1, ManifestsTyped DEF SchemaInv, SchemaOK
<1>3. broker.entities \subseteq EntitiesNow /\ broker.entities \in SUBSET Entities
  BY Parts DEF EntitiesNow, RestOK, Brokers
<1>4. \A e \in broker.entities : e.reading \in Readings /\ e.key = e.reading.key
  BY <1>3 DEF Entities, DeviceInv
<1>5. ASSUME install.discoveryStateFile, NEW e \in broker.entities
      PROVE  /\ disk # Nothing /\ e.reading \in allMetrics(disk)
             /\ \A r \in allMetrics(disk) : r.key = e.key => r = e.reading
  <2>1. e.reading \in MetricsOf(disk)
    BY <1>3, <1>5 DEF RegistryInv, Within
  <2>2. disk # Nothing /\ e.reading \in allMetrics(disk)
    BY <2>1 DEF MetricsOf
  <2>3. QED
    BY <1>2, <1>4, <2>2 DEF Agree
<1>6. ASSUME NEW k \in Keys
      PROVE  /\ recorded[k] \in Readings \cup {Nothing} /\ shownEntities[k] \in Readings \cup {Nothing}
             /\ shownEntities[k] # Nothing => recorded[k] = shownEntities[k]
             /\ shownEntities[k] # Nothing <=>
                    install.discoveryStateFile /\ \E e \in broker.entities : e.key = k
  <2> DEFINE R == {r \in allMetrics(disk) : r.key = k}
             E == {e \in broker.entities : e.key = k}
  <2>1. /\ recorded[k] = IF install.discoveryStateFile /\ disk # Nothing /\ R # {}
                         THEN CHOOSE r \in R : TRUE ELSE Nothing
        /\ shownEntities[k] = IF install.discoveryStateFile /\ E # {}
                              THEN (CHOOSE e \in E : TRUE).reading ELSE Nothing
    BY DEF recorded, shownEntities
  <2>2. recorded[k] \in Readings \cup {Nothing}
    BY <1>2, <2>1
  <2>3. CASE install.discoveryStateFile /\ E # {}
    <3>1. PICK e \in E : e = CHOOSE x \in E : TRUE
      BY <2>3
    <3>2. e \in broker.entities /\ e.key = k /\ shownEntities[k] = e.reading
      BY <2>1, <2>3, <3>1
    <3>3. /\ disk # Nothing /\ e.reading \in allMetrics(disk)
          /\ \A r \in allMetrics(disk) : r.key = e.key => r = e.reading
      BY <1>5, <2>3, <3>2
    <3>4. R = {e.reading}
      BY <1>4, <3>2, <3>3
    <3>5. recorded[k] = e.reading
      BY <2>1, <2>3, <3>3, <3>4
    <3>6. e.reading # Nothing /\ e.reading \in Readings
      BY <1>4, <3>2, DiscoveryAssumption
    <3>7. QED
      BY <2>2, <2>3, <3>2, <3>5, <3>6
  <2>4. CASE ~(install.discoveryStateFile /\ E # {})
    BY <2>1, <2>2, <2>4
  <2>5. QED
    BY <2>3, <2>4
<1>7. recorded = [k \in Keys |-> recorded[k]] /\ shownEntities = [k \in Keys |-> shownEntities[k]]
  BY DEF recorded, shownEntities
<1>8. QED
  BY <1>6, <1>7

LEMMA RegistryCorrect == Spec => [](TypeInv /\ SchemaInv /\ DeviceInv /\ RegistryInv)
<1>1. Init => TypeInv /\ SchemaInv /\ DeviceInv /\ RegistryInv
  <2> SUFFICES ASSUME Init PROVE TypeInv /\ SchemaInv /\ DeviceInv /\ RegistryInv
    OBVIOUS
  <2>1. EntitiesNow = {} /\ StatesNow = {} /\ disk = Nothing /\ mem = Nothing
    BY NothingPublished
  <2>2. QED
    BY <2>1, InitTyped DEF SchemaInv, DeviceInv, RegistryInv, Within
<1>2. TypeInv /\ SchemaInv /\ DeviceInv /\ RegistryInv /\ [Next]_vars
          => (TypeInv /\ SchemaInv /\ DeviceInv /\ RegistryInv)'
  BY NextTyped, SchemaKept, DeviceKept, RegistryKept
<1>3. QED
  BY <1>1, <1>2, PTL DEF Spec

\* With a manifest, over any crash, failed write and restart: an entity is on
\* record before it is shown, and never changes its meaning.
THEOREM RegistryImplemented == Spec => ImplementsRegistry
<1> DEFINE Inv == TypeInv /\ SchemaInv /\ DeviceInv /\ RegistryInv
           OneMeaning == /\ recorded \in [Keys -> Readings \cup {Nothing}]
                         /\ shownEntities \in [Keys -> Readings \cup {Nothing}]
                         /\ \A k \in Keys : shownEntities[k] # Nothing => recorded[k] = shownEntities[k]
                         /\ \A k \in Keys : shownEntities[k] # Nothing <=>
                                install.discoveryStateFile /\ \E e \in broker.entities : e.key = k
<1>1. Inv => OneMeaning
  BY Mapped
<1>2. Init => Registry!Init
  <2> SUFFICES ASSUME Init PROVE Registry!Init
    OBVIOUS
  <2>1. disk = Nothing /\ broker.entities = {}
    BY DEF Init
  <2>2. QED
    BY <2>1 DEF Registry!Init, recorded, shownEntities
<1>3. Inv /\ OneMeaning /\ OneMeaning' /\ [Next]_vars => [Registry!Rewrite \/ Registry!Show]_Registry!vars
  <2> SUFFICES ASSUME Inv, OneMeaning, OneMeaning', [Next]_vars
               PROVE  Registry!Rewrite \/ Registry!Show
    OBVIOUS
  <2>1. /\ install' = install
        /\ \A e \in broker.entities : \E f \in broker'.entities : f.key = e.key
        /\ disk' = disk \/ broker' = broker
    BY StepDoes
  <2>2. CASE broker' = broker
    <3>1. shownEntities' = shownEntities
      BY <2>1, <2>2 DEF shownEntities
    <3>2. recorded' \in Registry!Entries
      BY DEF Registry!Entries
    <3>3. \A k \in Keys : shownEntities[k] # Nothing => recorded'[k] = shownEntities[k]
      BY <3>1
    <3>4. QED
      BY <3>1, <3>2, <3>3 DEF Registry!Rewrite
  <2>3. CASE disk' = disk
    <3>1. recorded' = recorded
      BY <2>1, <2>3 DEF recorded
    <3> DEFINE new == {k \in Keys : shownEntities'[k] # Nothing}
    <3>2. \A k \in new : recorded[k] # Nothing /\ shownEntities'[k] = recorded[k]
      BY <3>1
    <3>3. \A k \in Keys \ new : shownEntities'[k] = Nothing /\ shownEntities[k] = Nothing
      BY <2>1
    <3>4. shownEntities' = [k \in Keys |-> IF k \in new THEN recorded[k] ELSE shownEntities[k]]
      <4> DEFINE shown == shownEntities'
      <4>1. shown \in [Keys -> Readings \cup {Nothing}]
        OBVIOUS
      <4>2. \A k \in Keys : shown[k] = IF k \in new THEN recorded[k] ELSE shownEntities[k]
        BY <3>2, <3>3
      <4> HIDE DEF shown, new
      <4>3. shown = [k \in Keys |-> IF k \in new THEN recorded[k] ELSE shownEntities[k]]
        BY <4>1, <4>2
      <4>4. QED
        BY <4>3 DEF shown
    <3>5. new \in SUBSET {k \in Keys : recorded[k] # Nothing}
      BY <3>2
    <3> HIDE DEF new
    <3>6. QED
      BY <3>1, <3>4, <3>5 DEF Registry!Show
  <2>4. QED
    BY <2>1, <2>2, <2>3
<1>4. Spec => []Inv
  BY RegistryCorrect
<1> HIDE DEF Inv, OneMeaning
<1>5. QED
  BY <1>1, <1>2, <1>3, <1>4, PTL DEF Spec, ImplementsRegistry, Registry!Spec

-----------------------------------------------------------------------------
(* The values                                                              *)

\* One source means one thing by the key of an alert.
AlertsMean == \A s \in Sources : Agree(Of("alert", UNION Reports[s]))

\* Without a manifest an alert entity and the alerts of a state are those of one
\* source, which the state names and the entity is available for.
AlertInv ==
    ~install.discoveryStateFile =>
        /\ \A e \in EntitiesNow : e.reading.kind = "alert" =>
               \A s \in e.domains : e.reading \in UNION Reports[s]
        /\ \A s \in StatesNow : \A v \in s.values : v.kind = "alert" => v \in UNION Reports[s.domain]

LEMMA AlertKept ==
    ASSUME TypeInv, SchemaInv, AlertInv, [Next]_vars
    PROVE  AlertInv'
<1>1. install' = install /\ (Rests \/ Loads \/ Writes \/ Polls)
  BY StepDoes
<1> SUFFICES ASSUME ~install.discoveryStateFile
             PROVE  /\ \A e \in EntitiesNow' : e.reading.kind = "alert" =>
                           \A s \in e.domains : e.reading \in UNION Reports[s]
                    /\ \A s \in StatesNow' : \A v \in s.values :
                           v.kind = "alert" => v \in UNION Reports[s.domain]
  BY <1>1 DEF AlertInv
<1>2. /\ \A e \in EntitiesNow : e.reading.kind = "alert" =>
             \A s \in e.domains : e.reading \in UNION Reports[s]
      /\ \A s \in StatesNow : \A v \in s.values : v.kind = "alert" => v \in UNION Reports[s.domain]
  BY DEF AlertInv
<1>3. CASE NoNews
  BY <1>2, <1>3 DEF NoNews
<1>4. ASSUME Polls, ~NoNews
      PROVE  /\ \A e \in EntitiesNow' : e.reading.kind = "alert" =>
                    \A s \in e.domains : e.reading \in UNION Reports[s]
             /\ \A s \in StatesNow' : \A v \in s.values : v.kind = "alert" => v \in UNION Reports[s.domain]
  <2>1. PICK snapshot : /\ Genuine(snapshot)
                        /\ \E q : /\ GoesOn(mem, q, snapshot)
                                  /\ EntitiesNow' \subseteq EntitiesNow \cup discoveryMessages(q, snapshot)
                                  /\ StatesNow' \subseteq StatesNow \cup {buildStatePayload(q, snapshot)}
    BY <1>4 DEF Polls
  <2>2. PICK q : /\ GoesOn(mem, q, snapshot)
                 /\ EntitiesNow' \subseteq EntitiesNow \cup discoveryMessages(q, snapshot)
                 /\ StatesNow' \subseteq StatesNow \cup {buildStatePayload(q, snapshot)}
    BY <2>1
  <2>3. q.discoveryState = Nothing
    <3>1. mem # Nothing /\ mem.discoveryState = Nothing
      BY <1>4 DEF Polls, SchemaInv
    <3>2. QED
      BY <2>2, <3>1 DEF GoesOn
  <2>4. \A r \in snapshot.readings : r.kind = "alert" => r \in UNION Reports[snapshot.source]
    BY <2>1 DEF Genuine
  <2>5. \A e \in discoveryMessages(q, snapshot) : e.reading.kind = "alert" =>
            \A s \in e.domains : e.reading \in UNION Reports[s]
    <3>1. discoveryMessages(q, snapshot) =
              {Entity(device(snapshot), r, IF r.kind = "alert" THEN {snapshot.source} ELSE {}) :
                  r \in snapshot.readings}
      BY <2>3 DEF discoveryMessages
    <3>2. QED
      BY <2>4, <3>1 DEF Entity
  <2>6. \A v \in buildStatePayload(q, snapshot).values :
            v.kind = "alert" => v \in UNION Reports[buildStatePayload(q, snapshot).domain]
    BY <2>4 DEF buildStatePayload
  <2>7. QED
    BY <1>2, <2>2, <2>5, <2>6
<1>5. QED
  BY <1>1, <1>3, <1>4 DEF Rests, Loads, Writes

\* An available entity shows a value of its own meaning, whatever mixture of two
\* publications the broker retains: a manifest fixes the meanings for good, and
\* the template of an alert entity names the sources it speaks for.
THEOREM ValuesCorrect ==
    ASSUME AlertsMean
    PROVE  Spec => []ValuesKeepTheirMeaning
<1>1. Init => AlertInv
  BY NothingPublished DEF AlertInv
<1>2. TypeInv /\ SchemaInv /\ DeviceInv /\ RegistryInv /\ AlertInv /\ [Next]_vars => AlertInv'
  BY AlertKept
<1>3. TypeInv /\ SchemaInv /\ DeviceInv /\ RegistryInv /\ AlertInv => ValuesKeepTheirMeaning
  <2> SUFFICES ASSUME TypeInv, SchemaInv, DeviceInv, RegistryInv, AlertInv,
                      NEW e \in broker.entities, NEW s \in broker.states, Available(e, s),
                      install.discoveryStateFile \/ e.reading.kind = "alert",
                      NEW v \in s.values, v.key = e.key, e.reading.kind = "alert" => v.kind = "alert"
               PROVE  v = e.reading
    BY DEF ValuesKeepTheirMeaning
  <2>1. e \in EntitiesNow /\ s \in StatesNow /\ e.key = e.reading.key
    BY DEF EntitiesNow, StatesNow, DeviceInv
  <2>2. CASE install.discoveryStateFile
    <3>1. e.reading \in MetricsOf(disk) /\ v \in MetricsOf(disk)
      BY <2>1, <2>2 DEF RegistryInv, Within
    <3>2. Agree(MetricsOf(disk))
      BY DEF SchemaInv, SchemaOK, MetricsOf, Agree
    <3>3. QED
      BY <2>1, <3>1, <3>2 DEF Agree
  <2>3. CASE ~install.discoveryStateFile
    <3>1. e.reading.kind = "alert" /\ v.kind = "alert" /\ s.domain \in e.domains
      BY <2>3 DEF Available
    <3>2. e.reading \in UNION Reports[s.domain] /\ v \in UNION Reports[s.domain]
      BY <2>1, <2>3, <3>1 DEF AlertInv
    <3>3. s.domain \in Sources
      BY Parts DEF RestOK, States, Brokers
    <3>4. Agree(Of("alert", UNION Reports[s.domain]))
      BY <3>3 DEF AlertsMean
    <3>5. e.reading \in Of("alert", UNION Reports[s.domain]) /\ v \in Of("alert", UNION Reports[s.domain])
      BY <3>1, <3>2 DEF Of
    <3>6. QED
      BY <2>1, <3>4, <3>5 DEF Agree
  <2>4. QED
    BY <2>2, <2>3
<1>4. QED
  BY <1>1, <1>2, <1>3, RegistryCorrect, PTL DEF Spec

=============================================================================
