--------------------------- MODULE PublisherProofs ---------------------------
(***************************************************************************)
(* Publisher, for any set of meters, shapes of snapshots, number of faults *)
(* and length of the wire: type correctness, the manifest precedes every   *)
(* entity, a shutdown has the last word, and with independent streams what *)
(* is shown as available is current.                                       *)
(***************************************************************************)
EXTENDS Publisher, SequenceTheorems, TLAPS

USE PublisherAssumption DEF PublisherAssumption

-----------------------------------------------------------------------------
(* Type correctness                                                        *)

\* A stream that is up has a snapshot; a single stream has one while its poll
\* is published.
KnownOK ==
    /\ independentMeters => \A s \in Streams : pub.up[s] => pub.snapshot[s] \in SUBSET Topics
    /\ ~independentMeters /\ job.pc = "discovery" /\ job.who # "connect"
           => pub.snapshot[Inverter] \in SUBSET Topics

TypeInv == TypeOK /\ KnownOK

\* What a transaction publishes is known.
Known(p) == \A s \in Shown(p) : p.snapshot[s] \in SUBSET Topics

LEMMA StreamsTyped ==
    ASSUME TypeOK
    PROVE  Inverter \in Streams /\ meters \subseteq Streams
BY DEF TypeOK, Streams

LEMMA ShownTyped ==
    ASSUME TypeOK, NEW p
    PROVE  Shown(p) \subseteq Streams
BY StreamsTyped DEF Shown

LEMMA ShapeTyped ==
    ASSUME TypeOK, NEW p \in Publishers, Known(p)
    PROVE  Shape(p) \in SUBSET Topics
<1>1. \A s \in Shown(p) : p.snapshot[s] \in SUBSET Topics
  BY ShownTyped DEF Known, Publishers, Snapshots
<1>2. QED
  BY <1>1 DEF Shape

LEMMA PayloadTyped ==
    ASSUME TypeOK, NEW p \in Publishers
    PROVE  buildStatePayload(p) \in Payloads
BY DEF buildStatePayload, Payloads, Publishers, Snapshots

LEMMA SnapshotTyped ==
    ASSUME NEW s \in Streams, NEW shape \in Shapes[s]
    PROVE  shape \in SUBSET Topics
BY DEF Topics

LEMMA CachedTyped ==
    ASSUME TypeOK, NEW p \in Publishers, Known(p)
    PROVE  /\ Cached(p) \in Publishers
           /\ Cached(p).snapshot = p.snapshot /\ Cached(p).up = p.up
           /\ Candidate(p) \in SUBSET Topics /\ discoveryMessages(p) \in SUBSET Topics
<1>1. Candidate(p) \in SUBSET Topics /\ Owned(p) \in SUBSET Topics
  BY ShapeTyped DEF Candidate, Owned, Publishers
<1>2. availabilityOf(p) \in Verdicts
  BY DEF availabilityOf, Verdicts
<1>3. QED
  BY <1>1, <1>2, PayloadTyped DEF Cached, Publishers, discoveryMessages

\* A handler leaves its transaction typed, and what is up known, with an error ...
LEMMA OfflineTyped ==
    ASSUME TypeOK, NEW p \in Publishers, NEW j \in Handlers, GoesOffline(p, j)
    PROVE  /\ pub' \in Publishers /\ job' \in Handlers /\ job'.pc # "discovery"
           /\ \A s \in Streams : pub'.up[s] => p.up[s] /\ pub'.snapshot[s] = p.snapshot[s]
           /\ pub'.discoveryState = p.discoveryState /\ pub'.cachedDiscovery = p.cachedDiscovery
           /\ job' = None \/ job' = [j EXCEPT !.pc = "offline"]
<1>1. /\ RolledBack(p, j) \in Publishers
      /\ \A s \in Streams : RolledBack(p, j).up[s] => p.up[s] /\ RolledBack(p, j).snapshot[s] = p.snapshot[s]
      /\ RolledBack(p, j).discoveryState = p.discoveryState
      /\ RolledBack(p, j).cachedDiscovery = p.cachedDiscovery
  BY DEF RolledBack, Publishers, Handlers
<1>2. /\ AfterError(p, j) \in Publishers
      /\ \A s \in Streams : AfterError(p, j).up[s] => p.up[s] /\ AfterError(p, j).snapshot[s] = p.snapshot[s]
      /\ AfterError(p, j).discoveryState = p.discoveryState
      /\ AfterError(p, j).cachedDiscovery = p.cachedDiscovery
  <2> DEFINE r == RolledBack(p, j)
  <2>1. \/ AfterError(p, j) = Invalidated(r)
        \/ AfterError(p, j) = MarkedFailed(r)
    BY DEF AfterError
  <2>2. Offline \in Verdicts
    BY DEF Verdicts
  <2> HIDE DEF r
  <2>3. r.offlinePublishPending \in BOOLEAN /\ Invalidated(r).offlinePublishPending \in BOOLEAN
    BY <1>1 DEF Invalidated, Publishers, r
  <2>4. r \in Publishers
    BY <1>1 DEF r
  <2>5. Invalidated(r) \in Publishers /\ MarkedFailed(r) \in Publishers
    BY <2>2, <2>3, <2>4 DEF Invalidated, MarkedFailed, Publishers
  <2>6. ASSUME NEW q \in {Invalidated(r), MarkedFailed(r)}
        PROVE  /\ q.up = r.up /\ q.snapshot = r.snapshot
               /\ q.discoveryState = r.discoveryState /\ q.cachedDiscovery = r.cachedDiscovery
    BY <2>4 DEF Invalidated, MarkedFailed, Publishers
  <2>7. QED
    BY <1>1, <2>1, <2>5, <2>6 DEF r
<1>3. None \in Handlers
  BY StreamsTyped DEF None, Handler, Handlers, Snapshots
<1>4. QED
  BY <1>2, <1>3 DEF GoesOffline, Handlers, None, Handler

\* ... and without one: a transaction of what is known leaves everything typed.
LEMMA TransactionTyped ==
    ASSUME TypeOK, NEW p \in Publishers, NEW j \in Handlers, Known(p), Transaction(p, j)
    PROVE  /\ pub' \in Publishers /\ job' \in Handlers
           /\ disk' \in SUBSET Topics /\ faults' \in 0 .. MaxFaults
           /\ \A s \in Streams : pub'.up[s] => p.up[s] /\ pub'.snapshot[s] = p.snapshot[s]
           /\ job'.pc = "discovery" => pub'.snapshot = p.snapshot /\ job'.who = j.who
<1>1. CASE /\ Persisted(p)
           /\ pub' = Cached(p)
           /\ job' = [j EXCEPT !.pc = "discovery", !.topics = discoveryMessages(p)]
  <2>1. disk' \in SUBSET Topics /\ faults' \in 0 .. MaxFaults
    BY <1>1, CachedTyped DEF Persisted, TypeOK
  <2>2. job' \in Handlers
    BY <1>1, CachedTyped DEF Handlers
  <2>3. QED
    BY <1>1, <2>1, <2>2, CachedTyped
<1>2. CASE NotPersisted(p) /\ j.who = "success" /\ GoesOffline(p, j)
  <2>1. disk' \in SUBSET Topics /\ faults' \in 0 .. MaxFaults
    BY <1>2, CachedTyped DEF NotPersisted, Fault, TypeOK
  <2>2. QED
    BY <1>2, <2>1, OfflineTyped
<1>3. QED
  BY <1>1, <1>2 DEF Transaction

LEMMA PublishTyped ==
    ASSUME TypeOK, NEW m \in Messages, Sent(m) \/ NotSent(m)
    PROVE  /\ wire' \in Seq(Messages) /\ Len(wire') <= Window
           /\ faults' \in 0 .. MaxFaults
<1>1. Len(wire) < Window => Append(wire, m) \in Seq(Messages) /\ Len(Append(wire, m)) <= Window
  BY DEF TypeOK
<1>2. faults' \in 0 .. MaxFaults
  BY DEF Sent, NotSent, Fault, TypeOK
<1>3. wire' = wire \/ (Len(wire) < Window /\ wire' = Append(wire, m))
  <2>1. CASE Sent(m)
    BY <2>1 DEF Sent
  <2>2. CASE NotSent(m)
    BY <2>2 DEF NotSent
  <2>3. QED
    BY <2>1, <2>2
<1>4. QED
  BY <1>1, <1>2, <1>3 DEF TypeOK

LEMMA MessagesTyped ==
    ASSUME TypeOK
    PROVE  /\ Message("availability", Offline) \in Messages
           /\ Message("availability", Online) \in Messages
           /\ \A t \in Topics : Message("discovery", t) \in Messages
           /\ Message("state", pub.cachedState) \in Messages
<1>1. \A t \in Topics : Message("discovery", t) \in Messages
  BY DEF Message, Messages
<1>2. pub.cachedState \in Payloads
  BY DEF TypeOK, Publishers
<1>3. Message("state", pub.cachedState) \in Messages
  BY <1>2 DEF Message, Messages
<1>4. QED
  BY <1>1, <1>3 DEF Message, Messages

LEMMA AbandonTyped ==
    ASSUME TypeOK, NEW p \in Publishers, Abandon(p)
    PROVE  /\ pub' \in Publishers /\ job' \in Handlers /\ job'.pc # "discovery"
           /\ \A s \in Streams : pub'.up[s] => p.up[s] /\ pub'.snapshot[s] = p.snapshot[s]
           /\ pub'.discoveryState = p.discoveryState /\ pub'.cachedDiscovery = p.cachedDiscovery
           /\ job' = None \/ job' = [job EXCEPT !.pc = "offline"]
<1>1. job \in Handlers
  BY DEF TypeOK
<1>2. None \in Handlers /\ None.pc = "start"
  BY StreamsTyped DEF None, Handler, Handlers, Snapshots
<1>3. QED
  BY <1>1, <1>2, OfflineTyped DEF Abandon

LEMMA FreshTyped ==
    ASSUME disk \in SUBSET Topics
    PROVE  Fresh \in Publishers /\ Fresh.discoveryState = disk
           /\ \A s \in Streams : ~Fresh.up[s]
BY DEF Fresh, Publishers, Verdicts, Payloads, Snapshots

LEMMA NoneTyped == None \in Handlers /\ None.pc = "start" /\ None.topics = {} /\ None.who = "none"
BY DEF None, Handler, Handlers, Snapshots, Streams

\* A transaction of a handler that starts keeps TypeInv.
LEMMA TransactionKeeps ==
    ASSUME TypeInv, NEW p \in Publishers, NEW j \in Handlers, Known(p), Transaction(p, j),
           \A s \in Streams : independentMeters /\ p.up[s] => p.snapshot[s] \in SUBSET Topics,
           UNCHANGED <<config, run, link, wire, broker, goodbye>>
    PROVE  TypeInv'
<1>1. TypeOK'
  BY TransactionTyped DEF TypeInv, TypeOK, config, link
<1>2. independentMeters' = independentMeters
  BY DEF independentMeters, config
<1>3. independentMeters => \A s \in Streams : pub'.up[s] => pub'.snapshot[s] \in SUBSET Topics
  BY TransactionTyped DEF TypeInv
<1>4. ~independentMeters /\ job'.pc = "discovery" => pub'.snapshot[Inverter] \in SUBSET Topics
  <2>1. ~independentMeters => p.snapshot[Inverter] \in SUBSET Topics
    BY DEF Known, Shown
  <2>2. QED
    BY <2>1, TransactionTyped DEF TypeInv
<1>5. QED
  BY <1>1, <1>2, <1>3, <1>4 DEF TypeInv, KnownOK

LEMMA OnPollSuccessTyped ==
    ASSUME TypeInv, NEW s \in {Inverter} \cup meters, NEW shape \in Shapes[s],
           OnPollSuccess(s, shape)
    PROVE  TypeInv'
<1> DEFINE p == [pub EXCEPT !.snapshot[s] = shape, !.up[s] = independentMeters]
           j == Handler("success", s, pub.snapshot[s])
<1>1. s \in Streams /\ shape \in SUBSET Topics /\ shape \in Snapshots /\ pub \in Publishers
  BY StreamsTyped, SnapshotTyped DEF Snapshots, TypeInv, TypeOK
<1>2. p \in Publishers
  BY <1>1 DEF Publishers, independentMeters
<1>3. j \in Handlers
  BY <1>1 DEF Handler, Handlers, Publishers
<1>4. \A t \in Streams : /\ p.snapshot[t] = IF t = s THEN shape ELSE pub.snapshot[t]
                         /\ p.up[t] = IF t = s THEN independentMeters ELSE pub.up[t]
  BY <1>1 DEF Publishers
<1>5. \A t \in Streams : independentMeters /\ p.up[t] => p.snapshot[t] \in SUBSET Topics
  BY <1>1, <1>4 DEF TypeInv, KnownOK
<1>6. ~independentMeters => s = Inverter
  BY DEF independentMeters
<1>7. Known(p)
  BY <1>1, <1>4, <1>5, <1>6, StreamsTyped DEF Known, Shown, TypeInv
<1>8. Transaction(p, j) /\ UNCHANGED <<config, run, link, wire, broker, goodbye>>
  BY DEF OnPollSuccess
<1> HIDE DEF p, j
<1>9. QED
  BY <1>2, <1>3, <1>5, <1>7, <1>8, TransactionKeeps

LEMMA OnPollFailureTyped ==
    ASSUME TypeInv, NEW s \in {Inverter} \cup meters, OnPollFailure(s)
    PROVE  TypeInv'
<1> DEFINE p == [pub EXCEPT !.up[s] = FALSE]
           j == Handler("failure", s, Nothing)
<1>1. s \in Streams /\ pub \in Publishers
  BY StreamsTyped DEF TypeInv, TypeOK
<1>2. j \in Handlers
  BY <1>1 DEF Handler, Handlers, Snapshots
<1>3. CASE independentMeters
  <2>1. p \in Publishers
    BY <1>1 DEF Publishers
  <2>2. \A t \in Streams : p.snapshot[t] = pub.snapshot[t] /\ (p.up[t] => pub.up[t])
    BY <1>1 DEF Publishers
  <2>3. \A t \in Streams : independentMeters /\ p.up[t] => p.snapshot[t] \in SUBSET Topics
    BY <1>3, <2>2 DEF TypeInv, KnownOK
  <2>4. Known(p)
    BY <1>3, <2>3, StreamsTyped DEF Known, Shown, TypeInv
  <2>5. Transaction(p, j) /\ UNCHANGED <<config, run, link, wire, broker, goodbye>>
    BY <1>3 DEF OnPollFailure
  <2> HIDE DEF p, j
  <2>6. QED
    BY <1>2, <2>1, <2>3, <2>4, <2>5, TransactionKeeps
<1>4. CASE ~independentMeters
  <2>1. MarkedFailed(pub) \in Publishers
    BY <1>1 DEF MarkedFailed, Publishers, Verdicts
  <2>2. /\ pub' = MarkedFailed(pub) /\ job' = [j EXCEPT !.pc = "offline"]
        /\ UNCHANGED <<disk, faults>> /\ UNCHANGED <<config, run, link, wire, broker, goodbye>>
    BY <1>4 DEF OnPollFailure
  <2>3. job' \in Handlers /\ job'.pc = "offline"
    BY <1>2, <2>2 DEF Handlers
  <2>4. TypeOK'
    BY <2>1, <2>2, <2>3 DEF TypeInv, TypeOK, config, link
  <2>5. QED
    BY <1>4, <2>2, <2>3, <2>4 DEF TypeInv, KnownOK, independentMeters, config
<1>5. QED
  BY <1>3, <1>4

LEMMA OnConnectTyped ==
    ASSUME TypeInv, onConnect
    PROVE  TypeInv'
<1>1. pub \in Publishers /\ pub.cachedDiscovery \in SUBSET Topics
  BY DEF TypeInv, TypeOK, Publishers
<1>2. Handler("connect", Inverter, Nothing) \in Handlers
  BY DEF Handler, Handlers, Snapshots, Streams
<1>3. job' \in Handlers /\ (job'.pc = "discovery" => job'.who = "connect")
  <2>1. CASE run = "running"
    BY <1>1, <1>2, <2>1 DEF onConnect, Handlers, Handler
  <2>2. CASE run # "running"
    BY <1>2, <2>2, NoneTyped DEF onConnect, Handlers
  <2>3. QED
    BY <2>1, <2>2
<1>4. TypeOK'
  BY <1>1, <1>3 DEF onConnect, TypeInv, TypeOK, config
<1>5. QED
  BY <1>3, <1>4 DEF TypeInv, KnownOK, onConnect, independentMeters, config

LEMMA CloseTyped ==
    ASSUME TypeInv, Close
    PROVE  TypeInv'
<1>1. pub \in Publishers
  BY DEF TypeInv, TypeOK
<1>2. pub' \in Publishers /\ pub'.up = pub.up /\ pub'.snapshot = pub.snapshot
  BY <1>1 DEF Close, Publishers, Verdicts
<1>3. job' \in Handlers /\ job'.pc # "discovery"
  BY NoneTyped DEF Close, Handler, Handlers, Snapshots, Streams
<1>4. TypeOK'
  BY <1>2, <1>3 DEF Close, TypeInv, TypeOK, config, link
<1>5. QED
  BY <1>2, <1>3, <1>4 DEF TypeInv, KnownOK, Close, independentMeters, config

\* A publish keeps TypeInv when it goes on from what the handler knew, or gives up.
LEMMA PublishKeeps ==
    ASSUME TypeInv, NEW m \in Messages, Sent(m) \/ NotSent(m),
           NEW p \in Publishers, p.up = pub.up, p.snapshot = pub.snapshot,
           \/ /\ pub' = p /\ job' \in Handlers
              /\ job'.pc = "discovery" => job.pc = "discovery" /\ job'.who = job.who
           \/ Abandon(p),
           UNCHANGED <<config, disk, run, link, broker, goodbye>>
    PROVE  TypeInv'
<1>1. /\ pub' \in Publishers /\ job' \in Handlers
      /\ \A s \in Streams : pub'.up[s] => pub.up[s] /\ pub'.snapshot[s] = pub.snapshot[s]
  BY AbandonTyped DEF TypeInv
<1>2. TypeOK'
  BY <1>1, PublishTyped DEF TypeInv, TypeOK, config, link
<1>3. job'.pc = "discovery" => pub' = p /\ job.pc = "discovery" /\ job'.who = job.who
  BY AbandonTyped DEF TypeInv
<1>4. QED
  BY <1>1, <1>2, <1>3 DEF TypeInv, KnownOK, independentMeters, config

LEMMA PublishDiscoveryTyped ==
    ASSUME TypeInv, PublishDiscovery
    PROVE  TypeInv'
<1>1. PICK t \in job.topics :
        LET m == Message("discovery", t)
        IN  /\ job.pc = "discovery"
            /\ \/ /\ Sent(m)
                  /\ pub' = [pub EXCEPT !.discoveryPayloads = @ \cup {t}]
                  /\ job' = [job EXCEPT !.topics = @ \ {t}]
               \/ NotSent(m) /\ Abandon(pub)
            /\ UNCHANGED <<config, disk, run, link, broker, goodbye>>
  BY DEF PublishDiscovery
<1> DEFINE m == Message("discovery", t)
<1>2. pub \in Publishers /\ job \in Handlers /\ t \in Topics /\ m \in Messages
  BY MessagesTyped DEF TypeInv, TypeOK, Handlers
<1> HIDE DEF m
<1>3. CASE Sent(m) /\ pub' = [pub EXCEPT !.discoveryPayloads = @ \cup {t}]
           /\ job' = [job EXCEPT !.topics = @ \ {t}]
  <2>1. pub' \in Publishers /\ pub'.up = pub.up /\ pub'.snapshot = pub.snapshot
    BY <1>2, <1>3 DEF Publishers
  <2>2. job' \in Handlers /\ job'.who = job.who
    BY <1>2, <1>3 DEF Handlers
  <2>3. QED
    BY <1>1, <1>2, <1>3, <2>1, <2>2, PublishKeeps
<1>4. CASE NotSent(m) /\ Abandon(pub)
  BY <1>1, <1>2, <1>4, PublishKeeps
<1>5. QED
  BY <1>1, <1>3, <1>4 DEF m

LEMMA ShapePublishedTyped ==
    ASSUME TypeInv, job.pc = "discovery"
    PROVE  /\ ShapePublished \in Publishers
           /\ ShapePublished.up = pub.up /\ ShapePublished.snapshot = pub.snapshot
           /\ ShapePublished.discoveryState = pub.discoveryState
           /\ ShapePublished.cachedDiscovery = pub.cachedDiscovery
           /\ ShapePublished.cachedState = pub.cachedState
           /\ ShapePublished.lastAvailability = pub.lastAvailability
<1>1. pub \in Publishers /\ pub.cachedDiscovery \in SUBSET Topics
  BY DEF TypeInv, TypeOK, Publishers
<1>2. job.who # "connect" => Owned(pub) \in SUBSET Topics
  <2>1. job.who # "connect" => Known(pub)
    BY StreamsTyped DEF Known, Shown, TypeInv, KnownOK
  <2>2. QED
    BY <1>1, <2>1, ShapeTyped DEF Owned, Candidate, TypeInv, Publishers
<1>3. QED
  BY <1>1, <1>2 DEF ShapePublished, Publishers, Snapshots

LEMMA PublishStateTyped ==
    ASSUME TypeInv, PublishState
    PROVE  TypeInv'
<1> DEFINE m == Message("state", pub.cachedState)
<1>1. job \in Handlers /\ m \in Messages /\ job.pc = "discovery"
  BY MessagesTyped DEF TypeInv, TypeOK, PublishState
<1>2. [job EXCEPT !.pc = "availability"] \in Handlers
      /\ [job EXCEPT !.pc = "availability"].pc = "availability"
  BY <1>1 DEF Handlers
<1>3. CASE pub' = ShapePublished /\ job' = [job EXCEPT !.pc = "availability"]
           /\ UNCHANGED <<wire, faults>>
  <2>1. TypeOK'
    BY <1>1, <1>2, <1>3, ShapePublishedTyped DEF PublishState, TypeInv, TypeOK, config, link
  <2>2. QED
    BY <1>1, <1>2, <1>3, <2>1, ShapePublishedTyped
       DEF PublishState, TypeInv, KnownOK, independentMeters, config
<1>4. CASE Sent(m) /\ pub' = ShapePublished /\ job' = [job EXCEPT !.pc = "availability"]
  BY <1>1, <1>2, <1>4, PublishKeeps, ShapePublishedTyped DEF PublishState
<1>5. CASE NotSent(m) /\ Abandon(ShapePublished)
  BY <1>1, <1>5, PublishKeeps, ShapePublishedTyped DEF PublishState
<1>6. QED
  BY <1>3, <1>4, <1>5 DEF PublishState

LEMMA PublishAvailabilityTyped ==
    ASSUME TypeInv, PublishAvailability
    PROVE  TypeInv'
<1> DEFINE m == Message("availability",
                        IF pub.lastAvailability = Nothing THEN Offline ELSE pub.lastAvailability)
<1>1. pub \in Publishers /\ pub.lastAvailability \in Verdicts
  BY DEF TypeInv, TypeOK, Publishers
<1>2. m \in Messages
  BY <1>1, MessagesTyped DEF TypeInv, Verdicts
<1> HIDE DEF m
<1>3. CASE Sent(m) /\ pub' = [pub EXCEPT !.offlinePublishPending = FALSE] /\ job' = None
  <2>1. pub' \in Publishers /\ pub'.up = pub.up /\ pub'.snapshot = pub.snapshot
    BY <1>1, <1>3 DEF Publishers
  <2>2. QED
    BY <1>2, <1>3, <2>1, NoneTyped, PublishKeeps DEF PublishAvailability
<1>4. CASE NotSent(m) /\ Abandon(pub)
  BY <1>1, <1>2, <1>4, PublishKeeps DEF PublishAvailability
<1>5. QED
  BY <1>3, <1>4 DEF PublishAvailability, m

LEMMA PublishOfflineTyped ==
    ASSUME TypeInv, PublishOffline
    PROVE  TypeInv'
<1> DEFINE m == Message("availability", Offline)
<1>1. pub \in Publishers /\ m \in Messages
  BY MessagesTyped DEF TypeInv, TypeOK
<1>2. Sent(m) \/ NotSent(m)
  BY DEF PublishOffline
<1>3. pub' \in Publishers /\ pub'.up = pub.up /\ pub'.snapshot = pub.snapshot
      /\ goodbye' \in BOOLEAN /\ job' = None
  <2>1. /\ pub' \in {pub, [pub EXCEPT !.offlinePublishPending = FALSE]}
        /\ goodbye' \in {goodbye, goodbye \/ run = "closing"} /\ job' = None
    BY DEF PublishOffline
  <2>2. goodbye' \in BOOLEAN
    BY <2>1 DEF TypeInv, TypeOK
  <2>3. [pub EXCEPT !.offlinePublishPending = FALSE] \in Publishers
    BY <1>1 DEF Publishers
  <2>4. QED
    BY <1>1, <2>1, <2>2, <2>3 DEF Publishers
<1> HIDE DEF m
<1>4. TypeOK'
  BY <1>1, <1>2, <1>3, NoneTyped, PublishTyped
     DEF PublishOffline, TypeInv, TypeOK, config, link
<1>5. QED
  BY <1>3, <1>4, NoneTyped DEF PublishOffline, TypeInv, KnownOK, independentMeters, config

LEMMA DeliverTyped ==
    ASSUME TypeInv, Deliver
    PROVE  TypeInv'
<1> DEFINE m == Head(wire)
<1>1. m \in Messages /\ Tail(wire) \in Seq(Messages) /\ Len(Tail(wire)) <= Window
  BY DEF Deliver, TypeInv, TypeOK
<1>2. broker \in [availability : Verdicts, state : Payloads, discovery : SUBSET Topics]
  BY DEF TypeInv, TypeOK
<1> HIDE DEF m
<1>3. Applied(broker, m) \in [availability : Verdicts, state : Payloads, discovery : SUBSET Topics]
  <2>1. CASE m \in [topic : {"availability"}, value : {Online, Offline}]
    BY <1>2, <2>1 DEF Applied, Verdicts
  <2>2. CASE m \in [topic : {"state"}, value : Payloads]
    BY <1>2, <2>2 DEF Applied
  <2>3. CASE m \in [topic : {"discovery"}, value : Topics]
    BY <1>2, <2>3 DEF Applied
  <2>4. QED
    BY <1>1, <2>1, <2>2, <2>3 DEF Messages
<1>4. TypeOK'
  BY <1>1, <1>3 DEF Deliver, TypeInv, TypeOK, config, link, m
<1>5. QED
  BY <1>4 DEF Deliver, TypeInv, KnownOK, independentMeters, config

\* The connection, the broker and the process leave the publisher as it is, or fresh.
LEMMA LinkTyped ==
    ASSUME TypeInv, Connect \/ ConnectionLost \/ BrokerRestarts \/ Disconnect \/ Crash \/ Start
    PROVE  TypeInv'
<1>1. <<>> \in Seq(Messages) /\ Len(<<>>) <= Window
  BY SMT
<1>2. Will \in [availability : Verdicts, state : Payloads, discovery : SUBSET Topics]
  BY DEF Will, TypeInv, TypeOK, Verdicts
<1>3. Fresh \in Publishers /\ \A s \in Streams : ~Fresh.up[s]
  BY FreshTyped DEF TypeInv, TypeOK
<1>0. Fault => faults' \in 0 .. MaxFaults
  BY DEF Fault, TypeInv, TypeOK
<1>4. CASE Connect
  BY <1>4 DEF Connect, TypeInv, TypeOK, KnownOK, independentMeters, config
<1>5. CASE ConnectionLost
  <2>1. TypeOK'
    BY <1>0, <1>1, <1>2, <1>5 DEF ConnectionLost, TypeInv, TypeOK, config
  <2>2. QED
    BY <1>5, <2>1 DEF ConnectionLost, TypeInv, KnownOK, independentMeters, config
<1>6. CASE BrokerRestarts
  <2>1. [availability |-> Nothing, state |-> Nothing, discovery |-> {}]
            \in [availability : Verdicts, state : Payloads, discovery : SUBSET Topics]
    BY DEF Verdicts, Payloads
  <2>2. TypeOK'
    BY <1>0, <1>1, <1>6, <2>1 DEF BrokerRestarts, TypeInv, TypeOK, config
  <2>3. QED
    BY <1>6, <2>2 DEF BrokerRestarts, TypeInv, KnownOK, independentMeters, config
<1>7. CASE Disconnect
  BY <1>1, <1>2, <1>3, <1>7, NoneTyped
     DEF Disconnect, TypeInv, TypeOK, KnownOK, independentMeters, config
<1>8. CASE Crash
  <2>1. TypeOK'
    BY <1>0, <1>1, <1>2, <1>3, <1>8, NoneTyped DEF Crash, TypeInv, TypeOK, config
  <2>2. QED
    BY <1>3, <1>8, <2>1, NoneTyped DEF Crash, TypeInv, KnownOK, independentMeters, config
<1>9. CASE Start
  BY <1>9 DEF Start, TypeInv, TypeOK, KnownOK, independentMeters, config, link
<1>10. QED
  BY <1>4, <1>5, <1>6, <1>7, <1>8, <1>9

LEMMA InitTyped == Init => TypeInv
<1> SUFFICES ASSUME Init PROVE TypeInv
  OBVIOUS
<1>1. Fresh \in Publishers /\ \A s \in Streams : ~Fresh.up[s]
  BY FreshTyped DEF Init
<1>2. TypeOK
  <2>1. broker \in [availability : Verdicts, state : Payloads, discovery : SUBSET Topics]
    BY DEF Init, Verdicts, Payloads
  <2>2. <<>> \in Seq(Messages) /\ Len(<<>>) <= Window
    BY SMT
  <2>3. pub \in Publishers /\ job \in Handlers
    BY <1>1, NoneTyped DEF Init
  <2>4. wire \in Seq(Messages) /\ Len(wire) <= Window
    BY <2>2 DEF Init
  <2>5. /\ meters \subseteq Meters /\ manifest \in BOOLEAN /\ disk \subseteq Topics
        /\ run \in {"running", "closing", "closed", "dead"}
    BY DEF Init
  <2>6. hooks \in Nat /\ faults \in 0 .. MaxFaults
    BY DEF Init
  <2>7. open \in BOOLEAN /\ goodbye \in BOOLEAN
    BY DEF Init
  <2>8. QED
    BY <2>1, <2>3, <2>4, <2>5, <2>6, <2>7 DEF TypeOK
<1>3. QED
  BY <1>1, <1>2, NoneTyped DEF Init, TypeInv, KnownOK

LEMMA NextTyped == TypeInv /\ [Next]_vars => TypeInv'
<1> SUFFICES ASSUME TypeInv, [Next]_vars PROVE TypeInv'
  OBVIOUS
<1>1. CASE \E s \in Streams : Poll(s)
  BY <1>1, OnPollSuccessTyped, OnPollFailureTyped DEF Poll
<1>2. CASE Publish
  BY <1>2, PublishDiscoveryTyped, PublishStateTyped, PublishAvailabilityTyped, PublishOfflineTyped
     DEF Publish
<1>3. CASE UNCHANGED vars
  BY <1>3 DEF vars, config, link, TypeInv, TypeOK, KnownOK, independentMeters
<1>4. QED
  BY <1>1, <1>2, <1>3, OnConnectTyped, CloseTyped, DeliverTyped, LinkTyped DEF Next

\* Every variable, and every field of the publisher's memory, keeps its type.
THEOREM TypeCorrect == Spec => []TypeOK
<1>1. Spec => []TypeInv
  BY InitTyped, NextTyped, PTL DEF Spec
<1>2. TypeInv => TypeOK
  BY DEF TypeInv
<1>3. QED
  BY <1>1, <1>2, PTL

-----------------------------------------------------------------------------
(* No entity precedes the manifest                                         *)

\* Every entity of the wire w is in the set d.
Carries(w, d) == \A i \in 1 .. Len(w) : w[i].topic = "discovery" => w[i].value \in d

\* What the schema of the process has learnt is in the file, which may own more
\* (a write whose directory was not synced): what is cached, about to be
\* published, on the wire or retained is bounded by the schema and not by the file,
\* for the next write replaces the file with the schema's successor.
OwnInv ==
    manifest =>
        /\ pub.discoveryState \subseteq disk
        /\ pub.cachedDiscovery \subseteq pub.discoveryState
        /\ job.topics \subseteq pub.discoveryState
        /\ broker.discovery \subseteq pub.discoveryState
        /\ Carries(wire, pub.discoveryState)

LEMMA CarriesMore ==
    ASSUME NEW w, NEW d, NEW e, Carries(w, d), d \subseteq e
    PROVE  Carries(w, e)
BY DEF Carries

LEMMA CarriesSent ==
    ASSUME TypeOK, NEW d, Carries(wire, d), NEW m \in Messages,
           m.topic = "discovery" => m.value \in d, Sent(m) \/ NotSent(m)
    PROVE  Carries(wire', d)
<1>1. Carries(Append(wire, m), d)
  <2>1. wire \in Seq(Messages)
    BY DEF TypeOK
  <2>2. SUFFICES ASSUME NEW i \in 1 .. Len(Append(wire, m)), Append(wire, m)[i].topic = "discovery"
                 PROVE  Append(wire, m)[i].value \in d
    BY DEF Carries
  <2>3. CASE i = Len(wire) + 1
    BY <2>1, <2>2, <2>3
  <2>4. CASE i \in 1 .. Len(wire)
    BY <2>1, <2>2, <2>4 DEF Carries
  <2>5. QED
    BY <2>1, <2>3, <2>4
<1>2. QED
  BY <1>1 DEF Sent, NotSent

\* A transaction lets the schema only grow, and only within what the file then owns.
LEMMA TransactionOwns ==
    ASSUME TypeOK, OwnInv, NEW p \in Publishers, NEW j \in Handlers, Transaction(p, j),
           p.discoveryState = pub.discoveryState, p.cachedDiscovery = pub.cachedDiscovery,
           j.topics = {}, manifest, UNCHANGED <<config, wire, broker>>
    PROVE  OwnInv'
<1> DEFINE d == pub.discoveryState
<1>1. /\ d \subseteq pub'.discoveryState /\ pub'.discoveryState \subseteq disk'
      /\ pub'.cachedDiscovery \subseteq pub'.discoveryState
      /\ job'.topics \subseteq pub'.discoveryState
  <2>1. CASE /\ Persisted(p) /\ pub' = Cached(p)
             /\ job' = [j EXCEPT !.pc = "discovery", !.topics = discoveryMessages(p)]
    <3>1. pub'.discoveryState = Candidate(p) /\ pub'.cachedDiscovery = Candidate(p)
      BY <2>1 DEF Cached, ShapeIsNew, Owned, Publishers
    <3>2. job'.topics \subseteq Candidate(p)
      BY <2>1 DEF discoveryMessages, Owned, Handlers
    <3>3. d \subseteq Candidate(p) /\ Candidate(p) \subseteq disk'
      BY <2>1 DEF Persisted, Candidate, OwnInv
    <3>4. QED
      BY <3>1, <3>2, <3>3
  <2>2. CASE NotPersisted(p) /\ GoesOffline(p, j)
    <3>1. pub'.discoveryState = d /\ pub'.cachedDiscovery = pub.cachedDiscovery
      BY <2>2, OfflineTyped
    <3>2. job'.topics = {}
      BY <2>2, OfflineTyped, NoneTyped DEF Handlers
    <3>3. d \subseteq disk'
      BY <2>2 DEF NotPersisted, Candidate, OwnInv
    <3>4. QED
      BY <3>1, <3>2, <3>3 DEF OwnInv
  <2>3. QED
    BY <2>1, <2>2 DEF Transaction
<1>2. Carries(wire, d)
  BY DEF OwnInv
<1>3. Carries(wire', pub'.discoveryState)
  BY <1>1, <1>2, CarriesMore
<1>4. QED
  BY <1>1, <1>3 DEF OwnInv

LEMMA PollOwns ==
    ASSUME TypeOK, OwnInv, NEW s \in Streams, Poll(s)
    PROVE  OwnInv'
<1>1. pub \in Publishers
  BY DEF TypeOK
<1>2. CASE OnPollFailure(s)
  <2> DEFINE p == [pub EXCEPT !.up[s] = FALSE]
             j == Handler("failure", s, Nothing)
  <2>1. p \in Publishers /\ p.discoveryState = pub.discoveryState
        /\ p.cachedDiscovery = pub.cachedDiscovery
    BY <1>1 DEF Publishers
  <2>2. j \in Handlers /\ j.topics = {} /\ [j EXCEPT !.pc = "offline"].topics = {}
    BY DEF Handler, Handlers, Snapshots
  <2>3. CASE independentMeters
    <3>1. Transaction(p, j) /\ UNCHANGED <<config, run, link, wire, broker, goodbye>>
      BY <1>2, <2>3 DEF OnPollFailure
    <3> HIDE DEF p, j
    <3>2. QED
      BY <2>1, <2>2, <3>1, TransactionOwns DEF OwnInv, config
  <2>4. CASE ~independentMeters
    BY <1>1, <1>2, <2>2, <2>4 DEF OnPollFailure, MarkedFailed, OwnInv, Publishers, config
  <2>5. QED
    BY <2>3, <2>4
<1>3. CASE \E shape \in Shapes[s] : OnPollSuccess(s, shape)
  <2>1. PICK shape \in Shapes[s] : OnPollSuccess(s, shape)
    BY <1>3
  <2> DEFINE p == [pub EXCEPT !.snapshot[s] = shape, !.up[s] = independentMeters]
             j == Handler("success", s, pub.snapshot[s])
  <2>2. p \in Publishers /\ p.discoveryState = pub.discoveryState
        /\ p.cachedDiscovery = pub.cachedDiscovery
    BY <1>1, SnapshotTyped DEF Publishers, independentMeters, Snapshots
  <2>3. j \in Handlers /\ j.topics = {}
    BY <1>1 DEF Handler, Handlers, Publishers
  <2>4. Transaction(p, j) /\ UNCHANGED <<config, run, link, wire, broker, goodbye>>
    BY <2>1 DEF OnPollSuccess
  <2> HIDE DEF p, j
  <2>5. QED
    BY <2>2, <2>3, <2>4, TransactionOwns DEF OwnInv, config
<1>4. QED
  BY <1>2, <1>3 DEF Poll

\* A publish of what its handler was to publish keeps OwnInv.
LEMMA PublishOwns ==
    ASSUME TypeOK, OwnInv, NEW m \in Messages, m.topic = "discovery" => m.value \in job.topics,
           Sent(m) \/ NotSent(m) \/ wire' = wire,
           pub'.discoveryState = pub.discoveryState, pub'.cachedDiscovery = pub.cachedDiscovery,
           job'.topics \subseteq job.topics, UNCHANGED <<config, disk, broker>>
    PROVE  OwnInv'
<1>1. manifest => Carries(wire', pub.discoveryState)
  BY CarriesSent DEF OwnInv
<1>2. QED
  BY <1>1 DEF OwnInv, config

LEMMA PublishStepOwns ==
    ASSUME TypeInv, OwnInv, Publish
    PROVE  OwnInv'
<1> USE DEF TypeInv
<1>1. pub \in Publishers /\ job \in Handlers
  BY DEF TypeOK
<1>2. ASSUME NEW p \in Publishers, p.discoveryState = pub.discoveryState,
             p.cachedDiscovery = pub.cachedDiscovery, Abandon(p)
      PROVE  /\ pub'.discoveryState = pub.discoveryState
             /\ pub'.cachedDiscovery = pub.cachedDiscovery /\ job'.topics \subseteq job.topics
  BY <1>1, <1>2, AbandonTyped, NoneTyped DEF Handlers
<1>3. CASE PublishDiscovery
  <2>1. PICK t \in job.topics :
          LET m == Message("discovery", t)
          IN  /\ \/ /\ Sent(m)
                    /\ pub' = [pub EXCEPT !.discoveryPayloads = @ \cup {t}]
                    /\ job' = [job EXCEPT !.topics = @ \ {t}]
                 \/ NotSent(m) /\ Abandon(pub)
              /\ UNCHANGED <<config, disk, run, link, broker, goodbye>>
    BY <1>3 DEF PublishDiscovery
  <2> DEFINE m == Message("discovery", t)
  <2>2. t \in Topics /\ m \in Messages /\ m.value = t
    BY <1>1, MessagesTyped DEF Handlers, Message
  <2> HIDE DEF m
  <2>3. CASE Sent(m) /\ pub' = [pub EXCEPT !.discoveryPayloads = @ \cup {t}]
             /\ job' = [job EXCEPT !.topics = @ \ {t}]
    <3>1. /\ pub'.discoveryState = pub.discoveryState
          /\ pub'.cachedDiscovery = pub.cachedDiscovery /\ job'.topics \subseteq job.topics
      BY <1>1, <2>3 DEF Publishers, Handlers
    <3>2. QED
      BY <2>1, <2>2, <2>3, <3>1, PublishOwns
  <2>4. CASE NotSent(m) /\ Abandon(pub)
    BY <1>1, <1>2, <2>1, <2>2, <2>4, PublishOwns
  <2>5. QED
    BY <2>1, <2>3, <2>4 DEF m
<1>4. CASE PublishState
  <2> DEFINE m == Message("state", pub.cachedState)
  <2>1. m \in Messages /\ m.topic # "discovery" /\ job.pc = "discovery"
    BY <1>4, MessagesTyped DEF Message, PublishState
  <2> HIDE DEF m
  <2>2. CASE pub' = ShapePublished /\ job' = [job EXCEPT !.pc = "availability"]
             /\ (Sent(m) \/ wire' = wire)
    <3>1. job'.topics = job.topics
      BY <1>1, <2>2 DEF Handlers
    <3>2. QED
      BY <1>4, <2>1, <2>2, <3>1, ShapePublishedTyped, PublishOwns DEF PublishState
  <2>3. CASE NotSent(m) /\ Abandon(ShapePublished)
    BY <1>2, <1>4, <2>1, <2>3, ShapePublishedTyped, PublishOwns DEF PublishState
  <2>4. QED
    BY <1>4, <2>2, <2>3 DEF PublishState, m
<1>5. CASE PublishAvailability
  <2> DEFINE m == Message("availability",
                          IF pub.lastAvailability = Nothing THEN Offline ELSE pub.lastAvailability)
  <2>1. pub.lastAvailability \in Verdicts
    BY <1>1 DEF Publishers
  <2>2. m \in Messages /\ m.topic # "discovery"
    BY <2>1, MessagesTyped DEF Message, Verdicts
  <2> HIDE DEF m
  <2>3. CASE Sent(m) /\ pub' = [pub EXCEPT !.offlinePublishPending = FALSE] /\ job' = None
    <3>1. pub'.discoveryState = pub.discoveryState /\ pub'.cachedDiscovery = pub.cachedDiscovery
      BY <1>1, <2>3 DEF Publishers
    <3>2. QED
      BY <1>5, <2>2, <2>3, <3>1, NoneTyped, PublishOwns DEF PublishAvailability
  <2>4. CASE NotSent(m) /\ Abandon(pub)
    BY <1>1, <1>2, <1>5, <2>2, <2>4, PublishOwns DEF PublishAvailability
  <2>5. QED
    BY <1>5, <2>3, <2>4 DEF PublishAvailability, m
<1>6. CASE PublishOffline
  <2> DEFINE m == Message("availability", Offline)
  <2>1. m \in Messages /\ m.topic # "discovery" /\ (Sent(m) \/ NotSent(m))
    BY <1>6, MessagesTyped DEF Message, PublishOffline
  <2> HIDE DEF m
  <2>2. pub'.discoveryState = pub.discoveryState /\ pub'.cachedDiscovery = pub.cachedDiscovery
    BY <1>1, <1>6 DEF PublishOffline, Publishers
  <2>3. QED
    BY <1>6, <2>1, <2>2, NoneTyped, PublishOwns DEF PublishOffline
<1>7. QED
  BY <1>3, <1>4, <1>5, <1>6 DEF Publish

LEMMA DeliverOwns ==
    ASSUME TypeOK, OwnInv, Deliver
    PROVE  OwnInv'
<1>1. wire \in Seq(Messages) /\ wire # <<>> /\ broker' = Applied(broker, wire[1])
      /\ wire' = Tail(wire)
  BY DEF TypeOK, Deliver
<1>2. broker \in [availability : Verdicts, state : Payloads, discovery : SUBSET Topics]
  BY DEF TypeOK
<1>3. ASSUME NEW d, Carries(wire, d) PROVE Carries(wire', d)
  <2>1. SUFFICES ASSUME NEW i \in 1 .. Len(Tail(wire)), Tail(wire)[i].topic = "discovery"
                 PROVE  Tail(wire)[i].value \in d
    BY <1>1 DEF Carries
  <2>2. i + 1 \in 1 .. Len(wire) /\ Tail(wire)[i] = wire[i + 1]
    BY <1>1
  <2>3. QED
    BY <1>3, <2>1, <2>2 DEF Carries
<1>4. ASSUME NEW d, Carries(wire, d), broker.discovery \subseteq d
      PROVE  broker'.discovery \subseteq d
  <2>1. 1 \in 1 .. Len(wire) /\ wire[1] \in Messages
    BY <1>1
  <2>2. wire[1].topic = "discovery" => wire[1].value \in d
    BY <1>4, <2>1 DEF Carries
  <2>3. wire[1].topic \in {"availability", "state", "discovery"}
    BY <2>1 DEF Messages
  <2>4. QED
    BY <1>1, <1>2, <1>4, <2>2, <2>3 DEF Applied
<1>5. QED
  BY <1>3, <1>4 DEF OwnInv, Deliver, config

LEMMA OtherOwns ==
    ASSUME TypeOK, OwnInv,
           \/ onConnect \/ Close \/ Connect \/ ConnectionLost \/ BrokerRestarts
           \/ Disconnect \/ Crash \/ Start
    PROVE  OwnInv'
<1>1. pub \in Publishers
  BY DEF TypeOK
<1>2. broker \in [availability : Verdicts, state : Payloads, discovery : SUBSET Topics]
  BY DEF TypeOK
<1>3. Will.discovery = broker.discovery
  BY <1>2 DEF Will
<1>4. Fresh.discoveryState = disk /\ Fresh.cachedDiscovery = {}
  BY DEF Fresh
<1>5. \A d : Carries(<<>>, d)
  BY DEF Carries
<1>6. CASE onConnect
  <2>1. job'.topics \in {{}, pub.cachedDiscovery}
    BY <1>6, NoneTyped DEF onConnect, Handler
  <2>2. QED
    BY <1>6, <2>1 DEF onConnect, OwnInv, config, Carries
<1>7. CASE Close
  <2>1. job'.topics = {}
    BY <1>7, NoneTyped DEF Close, Handler
  <2>2. pub'.discoveryState = pub.discoveryState /\ pub'.cachedDiscovery = pub.cachedDiscovery
    BY <1>1, <1>7 DEF Close, Publishers
  <2>3. QED
    BY <1>7, <2>1, <2>2 DEF Close, OwnInv, config, Carries
<1>8. CASE Connect \/ Start
  BY <1>8 DEF Connect, Start, OwnInv, config, Carries
<1>9. CASE ConnectionLost
  BY <1>3, <1>5, <1>9 DEF ConnectionLost, OwnInv, config
<1>10. CASE BrokerRestarts
  BY <1>5, <1>10 DEF BrokerRestarts, OwnInv, config
<1>11. CASE Disconnect \/ Crash
  <2>1. /\ pub' = Fresh /\ job' = None /\ wire' = <<>> /\ UNCHANGED <<config, disk>>
        /\ broker' \in {broker, Will}
    BY <1>11 DEF Disconnect, Crash
  <2>2. broker'.discovery = broker.discovery
    BY <1>3, <2>1
  <2>3. QED
    BY <1>4, <1>5, <2>1, <2>2, NoneTyped DEF OwnInv, config
<1>12. QED
  BY <1>6, <1>7, <1>8, <1>9, <1>10, <1>11

\* With a manifest, whatever faults there are, no entity is on the broker or on
\* its way before the file owns it.
THEOREM OwnedCorrect == Spec => []PublishedIsOwned
<1>1. Init => OwnInv
  BY NoneTyped DEF Init, Fresh, OwnInv, Carries
<1>2. TypeInv /\ OwnInv /\ [Next]_vars => OwnInv'
  <2> SUFFICES ASSUME TypeInv, OwnInv, [Next]_vars PROVE OwnInv'
    OBVIOUS
  <2>1. CASE UNCHANGED vars
    BY <2>1 DEF vars, config, OwnInv, Carries
  <2>2. CASE Next
    BY <2>2, PollOwns, PublishStepOwns, DeliverOwns, OtherOwns DEF Next, TypeInv
  <2>3. QED
    BY <2>1, <2>2
<1>3. OwnInv => PublishedIsOwned
  BY DEF OwnInv, Carries, PublishedIsOwned
<1>4. QED
  BY InitTyped, NextTyped, <1>1, <1>2, <1>3, PTL DEF Spec

-----------------------------------------------------------------------------
(* A shutdown has the last word                                            *)

\* The last word on the availability is offline, on the wire or at the broker.
Ended(w, b) ==
    IF w = <<>> THEN b.availability = Offline ELSE w[Len(w)] = Message("availability", Offline)

\* While the process closes, no handler publishes anything but an offline; after
\* it, nobody publishes; and what follows a written goodbye is another one.
GoodbyeInv ==
    /\ run = "closing" => job.pc \in {"start", "offline"}
    /\ run \in {"closed", "dead"} => job = None /\ wire = <<>> /\ ~open
    /\ goodbye => run \in {"closing", "closed"} /\ Ended(wire, broker)

LEMMA EndedSent ==
    ASSUME TypeOK, NEW m, m = Message("availability", Offline), Sent(m) \/ NotSent(m),
           Ended(wire, broker) \/ Sent(m)
    PROVE  Ended(wire', broker)
<1>1. Ended(Append(wire, m), broker)
  <2>1. wire \in Seq(Messages)
    BY DEF TypeOK
  <2>2. Append(wire, m) # <<>> /\ Append(wire, m)[Len(Append(wire, m))] = m
    BY <2>1
  <2>3. QED
    BY <2>2 DEF Ended
<1>2. QED
  BY <1>1 DEF Sent, NotSent

LEMMA DeliverEnds ==
    ASSUME TypeOK, GoodbyeInv, Deliver
    PROVE  GoodbyeInv'
<1>1. /\ wire \in Seq(Messages) /\ wire # <<>> /\ broker' = Applied(broker, wire[1])
      /\ wire' = Tail(wire)
  BY DEF TypeOK, Deliver
<1>2. broker \in [availability : Verdicts, state : Payloads, discovery : SUBSET Topics]
  BY DEF TypeOK
<1>3. CASE goodbye /\ Tail(wire) = <<>>
  <2>0. Len(wire) = 1
    <3>1. Len(Tail(wire)) = Len(wire) - 1
      BY <1>1, HeadTailProperties, Zenon
    <3>2. Len(wire) \in Nat \ {0}
      BY <1>1, EmptySeq, Zenon
    <3>3. Len(Tail(wire)) = 0
      BY <1>3, EmptySeq, Zenon
    <3>4. QED
      BY <3>1, <3>2, <3>3
  <2>1. wire[1] = Message("availability", Offline)
    BY <1>1, <1>3, <2>0 DEF GoodbyeInv, Ended
  <2>2. broker'.availability = Offline
    BY <1>1, <1>2, <2>1 DEF Applied, Message
  <2>3. QED
    BY <1>1, <1>3, <2>2 DEF GoodbyeInv, Ended, Deliver, link
<1>4. CASE goodbye /\ Tail(wire) # <<>>
  <2>1. Tail(wire)[Len(Tail(wire))] = wire[Len(wire)]
    BY <1>1, <1>4
  <2>2. QED
    BY <1>1, <1>4, <2>1 DEF GoodbyeInv, Ended, Deliver, link
<1>5. CASE ~goodbye
  BY <1>1, <1>5 DEF GoodbyeInv, Deliver, link
<1>6. QED
  BY <1>3, <1>4, <1>5

LEMMA PublishEnds ==
    ASSUME TypeOK, GoodbyeInv, Publish
    PROVE  GoodbyeInv'
<1>1. run \in {"running", "closing", "closed", "dead"}
  BY DEF TypeOK
<1>2. ~Idle /\ run' = run /\ link' = link
  <2>1. CASE PublishDiscovery
    BY <2>1, NoneTyped DEF PublishDiscovery, Idle
  <2>2. CASE ~PublishDiscovery
    BY <2>2 DEF Publish, PublishState, PublishAvailability, PublishOffline
  <2>3. QED
    BY <2>1, <2>2
<1>3. run \in {"running", "closing"}
  BY <1>1, <1>2 DEF GoodbyeInv, Idle
<1>4. CASE run = "running"
  <2>1. ~goodbye
    BY <1>4 DEF GoodbyeInv
  <2>2. ~goodbye'
    BY <1>4, <2>1 DEF Publish, PublishDiscovery, PublishState, PublishAvailability, PublishOffline
  <2>3. QED
    BY <1>2, <1>4, <2>2 DEF GoodbyeInv
<1>5. CASE run = "closing"
  <2> DEFINE m == Message("availability", Offline)
  <2>1. PublishOffline
    BY <1>5 DEF GoodbyeInv, Publish, PublishDiscovery, PublishState, PublishAvailability
  <2>2. /\ Sent(m) \/ NotSent(m)
        /\ goodbye' => goodbye \/ Sent(m)
        /\ job' = None /\ UNCHANGED <<run, link, broker>>
    BY <2>1 DEF PublishOffline
  <2> HIDE DEF m
  <2>3. goodbye' => Ended(wire', broker)
    BY <2>2, EndedSent DEF GoodbyeInv, m
  <2>4. QED
    BY <1>5, <2>2, <2>3, NoneTyped DEF GoodbyeInv
<1>6. QED
  BY <1>3, <1>4, <1>5

LEMMA OtherEnds ==
    ASSUME TypeOK, GoodbyeInv,
           \/ \E s \in Streams : Poll(s)
           \/ onConnect \/ Close \/ Connect \/ ConnectionLost \/ BrokerRestarts
           \/ Disconnect \/ Crash \/ Start
    PROVE  GoodbyeInv'
<1>1. Will.availability = Offline
  BY DEF Will, TypeOK
<1>2. Ended(<<>>, Will)
  BY <1>1 DEF Ended
<1>3. CASE \E s \in Streams : Poll(s)
  <2>1. run = "running" /\ UNCHANGED <<config, run, link, wire, broker, goodbye>>
    BY <1>3 DEF Poll, OnPollFailure, OnPollSuccess
  <2>2. QED
    BY <2>1 DEF GoodbyeInv
<1>4. CASE onConnect
  <2>1. run = "closing" => job'.pc \in {"start", "offline"}
    BY <1>4, NoneTyped DEF onConnect, Handler
  <2>2. QED
    BY <1>4, <2>1 DEF onConnect, Lock, GoodbyeInv
<1>5. CASE Close
  <2>1. job'.pc \in {"start", "offline"}
    BY <1>5, NoneTyped DEF Close, Handler
  <2>2. QED
    BY <1>5, <2>1 DEF Close, GoodbyeInv
<1>6. CASE Connect
  BY <1>6 DEF Connect, GoodbyeInv
<1>7. CASE ConnectionLost
  BY <1>2, <1>7 DEF ConnectionLost, GoodbyeInv
<1>8. CASE BrokerRestarts
  BY <1>8 DEF BrokerRestarts, GoodbyeInv
<1>9. CASE Disconnect
  <2>1. CASE wire = <<>> /\ UNCHANGED broker
    BY <1>9, <2>1 DEF Disconnect, GoodbyeInv, Ended
  <2>2. CASE broker' = Will
    BY <1>2, <1>9, <2>2 DEF Disconnect, GoodbyeInv
  <2>3. QED
    BY <1>9, <2>1, <2>2 DEF Disconnect
<1>10. CASE Crash
  BY <1>10 DEF Crash, GoodbyeInv
<1>11. CASE Start
  BY <1>11 DEF Start, GoodbyeInv
<1>12. QED
  BY <1>3, <1>4, <1>5, <1>6, <1>7, <1>8, <1>9, <1>10, <1>11

LEMMA NextEnds == TypeInv /\ GoodbyeInv /\ [Next]_vars => GoodbyeInv'
<1> SUFFICES ASSUME TypeInv, GoodbyeInv, [Next]_vars PROVE GoodbyeInv'
  OBVIOUS
<1>1. CASE UNCHANGED vars
  BY <1>1 DEF vars, link, GoodbyeInv
<1>2. CASE Next
  BY <1>2, PublishEnds, DeliverEnds, OtherEnds DEF Next, TypeInv
<1>3. QED
  BY <1>1, <1>2

\* Whatever is on the wire, waits for the lock or reconnects while the process
\* closes, its offline is the last word the broker hears of it.
THEOREM GoodbyeCorrect == Spec => []GoodbyeIsFinal
<1>1. Init => GoodbyeInv
  BY DEF Init, GoodbyeInv
<1>2. TypeInv /\ GoodbyeInv /\ [Next]_vars => GoodbyeInv'
  BY NextEnds
<1>3. GoodbyeInv => GoodbyeIsFinal
  BY DEF GoodbyeInv, Ended, GoodbyeIsFinal
<1>4. QED
  BY InitTyped, NextTyped, <1>1, <1>2, <1>3, PTL DEF Spec

-----------------------------------------------------------------------------
(* What is shown as available is current                                   *)

\* Once w is delivered, a broker that says old of a topic says v of it.
Says(w, topic, old, v) ==
    \/ (\A i \in 1 .. Len(w) : w[i].topic # topic) /\ old = v
    \/ \E i \in 1 .. Len(w) :
           /\ w[i].topic = topic /\ w[i].value = v
           /\ \A j \in i + 1 .. Len(w) : w[j].topic # topic

SaysOnline == Says(wire, "availability", broker.availability, Online)
SaysCached == Says(wire, "state", broker.state, pub.cachedState)

\* An online verdict is about the cached payload, and that about the streams.
VerdictInv ==
    pub.lastAvailability = Online =>
        pub.cachedState = buildStatePayload(pub) /\ \E s \in Streams : pub.up[s]

\* While the inverter's poll is published the verdict is online, so that its
\* failure owes an offline; and whoever is to publish an offline owes it.
JobInv ==
    /\ job.who = "success" /\ job.stream = Inverter /\ job.pc \in {"discovery", "availability"}
           => pub.lastAvailability = Online
    /\ run = "running" /\ job.pc = "offline" => pub.offlinePublishPending

\* Over a connection whose replay is through: the state precedes the verdict,
\* and an online one that is not the publisher's is to be revoked.
ReachInv ==
    run = "running" /\ open /\ hooks = 0 =>
        /\ job.pc = "availability" => SaysCached \/ pub.lastAvailability # Online
        /\ Idle /\ SaysOnline /\ ~pub.offlinePublishPending =>
               pub.lastAvailability = Online /\ SaysCached

OnlineInv == independentMeters => VerdictInv /\ JobInv /\ ReachInv

LEMMA SaysNothingMore ==
    ASSUME NEW topic, NEW old, NEW v
    PROVE  Says(<<>>, topic, old, v) <=> old = v
BY DEF Says

LEMMA SaysSent ==
    ASSUME NEW w \in Seq(Messages), NEW m \in Messages, NEW topic, NEW old, NEW v
    PROVE  /\ m.topic = topic => (Says(Append(w, m), topic, old, v) <=> m.value = v)
           /\ m.topic # topic => (Says(Append(w, m), topic, old, v) <=> Says(w, topic, old, v))
<1> DEFINE n == Len(w)
           a == Append(w, m)
<1>1. n \in Nat /\ Len(a) = n + 1 /\ a[n + 1] = m /\ \A i \in 1 .. n : a[i] = w[i]
  OBVIOUS
<1> HIDE DEF n, a
<1>2. CASE m.topic = topic
  <2>1. Says(a, topic, old, v) => m.value = v
    <3> SUFFICES ASSUME Says(a, topic, old, v) PROVE m.value = v
      OBVIOUS
    <3>1. n + 1 \in 1 .. Len(a) /\ a[n + 1].topic = topic
      BY <1>1, <1>2
    <3>2. PICK i \in 1 .. Len(a) : a[i].value = v /\ \A j \in i + 1 .. Len(a) : a[j].topic # topic
      BY <3>1 DEF Says
    <3>3. i = n + 1
      BY <1>1, <3>1, <3>2
    <3>4. QED
      BY <1>1, <3>2, <3>3
  <2>2. m.value = v => Says(a, topic, old, v)
    <3>1. n + 1 \in 1 .. Len(a) /\ \A j \in n + 1 + 1 .. Len(a) : a[j].topic # topic
      BY <1>1
    <3>2. QED
      BY <1>1, <1>2, <3>1 DEF Says
  <2>3. QED
    BY <1>2, <2>1, <2>2 DEF a
<1>3. CASE m.topic # topic
  <2>1. (\A i \in 1 .. Len(a) : a[i].topic # topic) <=> (\A i \in 1 .. n : w[i].topic # topic)
    BY <1>1, <1>3
  <2>2. \A i \in 1 .. n : (\A j \in i + 1 .. Len(a) : a[j].topic # topic)
                            <=> (\A j \in i + 1 .. n : w[j].topic # topic)
    BY <1>1, <1>3
  <2>3. ASSUME NEW i \in 1 .. Len(a), a[i].topic = topic
        PROVE  i \in 1 .. n
    BY <1>1, <1>3, <2>3
  <2> DEFINE Last(q, i) == /\ q[i].topic = topic /\ q[i].value = v
                           /\ \A j \in i + 1 .. Len(q) : q[j].topic # topic
  <2>4. n = Len(w) /\ \A i \in 1 .. n : i \in 1 .. Len(a)
    BY <1>1 DEF n
  <2>5. \A i \in 1 .. n : Last(a, i) <=> Last(w, i)
    BY <1>1, <2>2, <2>4
  <2>6. (\E i \in 1 .. Len(a) : Last(a, i)) <=> (\E i \in 1 .. n : Last(w, i))
    <3>1. \A i \in 1 .. Len(a) : Last(a, i) => i \in 1 .. n
      BY <2>3
    <3> HIDE DEF Last
    <3>2. QED
      BY <2>4, <2>5, <3>1
  <2>7. Says(a, topic, old, v) <=> Says(w, topic, old, v)
    BY <2>1, <2>4, <2>6 DEF Says
  <2>8. QED
    BY <1>3, <2>7 DEF a
<1>4. QED
  BY <1>2, <1>3

LEMMA SaysDelivered ==
    ASSUME NEW w \in Seq(Messages), w # <<>>, NEW topic, NEW old, NEW v
    PROVE  Says(Tail(w), topic, IF w[1].topic = topic THEN w[1].value ELSE old, v)
               <=> Says(w, topic, old, v)
<1> DEFINE n == Len(w)
           t == Tail(w)
           o == IF w[1].topic = topic THEN w[1].value ELSE old
<1>1. n \in Nat \ {0} /\ Len(t) = n - 1 /\ \A i \in 1 .. n - 1 : t[i] = w[i + 1]
  <2>1. Len(w) \in Nat \ {0}
    BY EmptySeq
  <2>2. QED
    BY <2>1
<1> HIDE DEF n, t
<1>2. ASSUME NEW i \in 1 .. n - 1
      PROVE  (\A j \in i + 1 .. n - 1 : t[j].topic # topic)
                 <=> (\A j \in i + 1 + 1 .. n : w[j].topic # topic)
  <2>1. ASSUME \A j \in i + 1 .. n - 1 : t[j].topic # topic, NEW j \in i + 1 + 1 .. n
        PROVE  w[j].topic # topic
    <3>1. j - 1 \in i + 1 .. n - 1 /\ (j - 1) + 1 = j /\ j - 1 \in 1 .. n - 1
      BY <1>1
    <3>2. QED
      BY <1>1, <2>1, <3>1
  <2>2. ASSUME \A j \in i + 1 + 1 .. n : w[j].topic # topic, NEW j \in i + 1 .. n - 1
        PROVE  t[j].topic # topic
    <3>1. j + 1 \in i + 1 + 1 .. n /\ j \in 1 .. n - 1
      BY <1>1
    <3>2. QED
      BY <1>1, <2>2, <3>1
  <2>3. QED
    BY <2>1, <2>2
<1>3. (\A j \in 1 .. n - 1 : t[j].topic # topic) <=> (\A j \in 2 .. n : w[j].topic # topic)
  <2>1. ASSUME \A j \in 1 .. n - 1 : t[j].topic # topic, NEW j \in 2 .. n
        PROVE  w[j].topic # topic
    <3>1. j - 1 \in 1 .. n - 1 /\ (j - 1) + 1 = j
      BY <1>1
    <3>2. QED
      BY <1>1, <2>1, <3>1
  <2>2. ASSUME \A j \in 2 .. n : w[j].topic # topic, NEW j \in 1 .. n - 1
        PROVE  t[j].topic # topic
    <3>1. j + 1 \in 2 .. n
      BY <1>1
    <3>2. QED
      BY <1>1, <2>2, <3>1
  <2>3. QED
    BY <2>1, <2>2
<1>4. Says(t, topic, o, v) => Says(w, topic, old, v)
  <2> SUFFICES ASSUME Says(t, topic, o, v) PROVE Says(w, topic, old, v)
    OBVIOUS
  <2>1. CASE (\A i \in 1 .. Len(t) : t[i].topic # topic) /\ o = v
    <3>1. \A j \in 2 .. n : w[j].topic # topic
      BY <1>1, <1>3, <2>1
    <3>2. CASE w[1].topic = topic
      <4>1. 1 \in 1 .. Len(w) /\ w[1].value = v /\ \A j \in 1 + 1 .. Len(w) : w[j].topic # topic
        BY <1>1, <2>1, <3>1, <3>2 DEF n
      <4>2. QED
        BY <3>2, <4>1 DEF Says
    <3>3. CASE w[1].topic # topic
      <4>1. \A j \in 1 .. Len(w) : w[j].topic # topic
        BY <1>1, <3>1, <3>3 DEF n
      <4>2. QED
        BY <2>1, <3>3, <4>1 DEF Says
    <3>4. QED
      BY <3>2, <3>3
  <2>2. CASE \E i \in 1 .. Len(t) :
                 t[i].topic = topic /\ t[i].value = v /\ \A j \in i + 1 .. Len(t) : t[j].topic # topic
    <3>1. PICK i \in 1 .. n - 1 :
                 t[i].topic = topic /\ t[i].value = v /\ \A j \in i + 1 .. n - 1 : t[j].topic # topic
      BY <1>1, <2>2
    <3>2. /\ i + 1 \in 1 .. Len(w) /\ w[i + 1].topic = topic /\ w[i + 1].value = v
          /\ \A j \in i + 1 + 1 .. Len(w) : w[j].topic # topic
      BY <1>1, <1>2, <3>1 DEF n
    <3>3. QED
      BY <3>2 DEF Says
  <2>3. QED
    BY <2>1, <2>2 DEF Says
<1>5. Says(w, topic, old, v) => Says(t, topic, o, v)
  <2> SUFFICES ASSUME Says(w, topic, old, v) PROVE Says(t, topic, o, v)
    OBVIOUS
  <2>1. CASE (\A i \in 1 .. Len(w) : w[i].topic # topic) /\ old = v
    <3>1. w[1].topic # topic /\ \A j \in 2 .. n : w[j].topic # topic
      BY <1>1, <2>1 DEF n
    <3>2. \A i \in 1 .. Len(t) : t[i].topic # topic
      BY <1>1, <1>3, <3>1
    <3>3. QED
      BY <2>1, <3>1, <3>2 DEF Says
  <2>2. CASE \E i \in 1 .. Len(w) :
                 w[i].topic = topic /\ w[i].value = v /\ \A j \in i + 1 .. Len(w) : w[j].topic # topic
    <3>1. PICK i \in 1 .. n :
                 w[i].topic = topic /\ w[i].value = v /\ \A j \in i + 1 .. n : w[j].topic # topic
      BY <2>2 DEF n
    <3>2. CASE i = 1
      <4>1. o = v /\ \A j \in 1 .. Len(t) : t[j].topic # topic
        BY <1>1, <1>3, <3>1, <3>2
      <4>2. QED
        BY <4>1 DEF Says
    <3>3. CASE i # 1
      <4>1. i - 1 \in 1 .. n - 1 /\ (i - 1) + 1 = i
        BY <1>1, <3>3
      <4>2. t[i - 1] = w[i] /\ \A j \in (i - 1) + 1 .. n - 1 : t[j].topic # topic
        BY <1>1, <1>2, <3>1, <4>1
      <4>3. QED
        BY <1>1, <3>1, <4>1, <4>2 DEF Says
    <3>4. QED
      BY <3>2, <3>3
  <2>3. QED
    BY <2>1, <2>2 DEF Says
<1>6. QED
  BY <1>4, <1>5 DEF t

LEMMA GoesOfflineOwes ==
    ASSUME TypeOK, independentMeters, NEW p \in Publishers, NEW j \in Handlers, GoesOffline(p, j)
    PROVE  /\ pub'.lastAvailability = Offline
           /\ \/ pub'.offlinePublishPending /\ job' = [j EXCEPT !.pc = "offline"]
              \/ /\ j.who = "success" /\ j.stream = Inverter
                 /\ ~p.offlinePublishPending /\ p.lastAvailability # Online
                 /\ ~pub'.offlinePublishPending /\ job' = None
<1> DEFINE q == RolledBack(p, j)
<1>1. q \in Publishers /\ q.lastAvailability = p.lastAvailability
      /\ q.offlinePublishPending = p.offlinePublishPending
  BY DEF RolledBack, Publishers, Handlers
<1>2. pub' = AfterError(p, j)
      /\ job' = IF pub'.offlinePublishPending THEN [j EXCEPT !.pc = "offline"] ELSE None
  BY DEF GoesOffline
<1> HIDE DEF q
<1>3. CASE j.who = "success" /\ j.stream = Inverter
  <2>1. pub' = Invalidated(q)
    BY <1>2, <1>3 DEF AfterError, q
  <2>2. pub'.lastAvailability = Offline
        /\ (pub'.offlinePublishPending <=> p.offlinePublishPending \/ p.lastAvailability = Online)
    BY <1>1, <2>1 DEF Invalidated, Publishers
  <2>3. QED
    BY <1>2, <1>3, <2>2
<1>4. CASE ~(j.who = "success" /\ j.stream = Inverter)
  <2>1. pub' = MarkedFailed(q)
    BY <1>2, <1>4 DEF AfterError, q
  <2>2. pub'.lastAvailability = Offline /\ pub'.offlinePublishPending
    BY <1>1, <2>1 DEF MarkedFailed, Publishers
  <2>3. QED
    BY <1>2, <2>2
<1>5. QED
  BY <1>3, <1>4

LEMMA TransactionOnline ==
    ASSUME TypeOK, OnlineInv, independentMeters, Idle, run = "running",
           NEW p \in Publishers, p.lastAvailability = pub.lastAvailability,
           p.offlinePublishPending = pub.offlinePublishPending,
           NEW j \in Handlers, j.who = "success" /\ j.stream = Inverter => p.up[Inverter],
           Transaction(p, j), UNCHANGED <<config, run, link, wire, broker>>
    PROVE  OnlineInv'
<1>1. CASE pub' = Cached(p) /\ job' = [j EXCEPT !.pc = "discovery", !.topics = discoveryMessages(p)]
  <2>1. /\ pub'.lastAvailability = availabilityOf(p) /\ pub'.cachedState = buildStatePayload(p)
        /\ pub'.snapshot = p.snapshot /\ pub'.up = p.up
    BY <1>1 DEF Cached, Publishers
  <2>2. job'.who = j.who /\ job'.stream = j.stream /\ job'.pc = "discovery"
    BY <1>1 DEF Handlers
  <2>3. VerdictInv'
    <3>1. buildStatePayload(pub)' = buildStatePayload(p)
      BY <2>1 DEF buildStatePayload, Shown, config, independentMeters
    <3>2. availabilityOf(p) = Online => \E s \in Streams : p.up[s]
      BY StreamsTyped DEF availabilityOf, Online, Offline
    <3>3. QED
      BY <2>1, <3>1, <3>2 DEF VerdictInv
  <2>4. JobInv'
    <3>1. p.up[Inverter] => availabilityOf(p) = Online
      BY DEF availabilityOf
    <3>2. QED
      BY <2>1, <2>2, <3>1 DEF JobInv
  <2>5. ReachInv'
    BY <2>2, NoneTyped DEF ReachInv, Idle
  <2>6. QED
    BY <2>3, <2>4, <2>5 DEF OnlineInv
<1>2. CASE GoesOffline(p, j)
  <2>1. pub'.lastAvailability = Offline /\ VerdictInv'
    BY <1>2, GoesOfflineOwes DEF VerdictInv, Online, Offline
  <2>2. CASE pub'.offlinePublishPending /\ job' = [j EXCEPT !.pc = "offline"]
    <3>1. job'.pc = "offline"
      BY <2>2 DEF Handlers
    <3>2. JobInv' /\ ReachInv'
      BY <2>2, <3>1, NoneTyped DEF JobInv, ReachInv, Idle
    <3>3. QED
      BY <2>1, <3>2 DEF OnlineInv
  <2>3. CASE ~p.offlinePublishPending /\ p.lastAvailability # Online /\ job' = None
    <3>1. JobInv'
      BY <2>3, NoneTyped DEF JobInv
    <3>2. open /\ hooks = 0 => ~SaysOnline
      BY <2>3 DEF OnlineInv, ReachInv
    <3>3. SaysOnline' <=> SaysOnline
      BY DEF SaysOnline
    <3>4. ReachInv'
      BY <2>3, <3>2, <3>3, NoneTyped DEF ReachInv, link
    <3>5. QED
      BY <2>1, <3>1, <3>4 DEF OnlineInv
  <2>4. QED
    BY <1>2, <2>2, <2>3, GoesOfflineOwes
<1>3. QED
  BY <1>1, <1>2 DEF Transaction

LEMMA PollOnline ==
    ASSUME TypeOK, OnlineInv, NEW s \in Streams, Poll(s)
    PROVE  OnlineInv'
<1>1. CASE ~independentMeters
  <2>1. meters' = meters
    BY DEF Poll, OnPollFailure, OnPollSuccess, config
  <2>2. QED
    BY <1>1, <2>1 DEF OnlineInv, independentMeters
<1>2. CASE independentMeters
  <2>1. Idle /\ run = "running" /\ UNCHANGED <<config, run, link, wire, broker>>
    BY DEF Poll, OnPollFailure, OnPollSuccess, Lock
  <2>2. ASSUME OnPollFailure(s)
        PROVE  OnlineInv'
    <3> DEFINE p == [pub EXCEPT !.up[s] = FALSE]
               j == Handler("failure", s, Nothing)
    <3>1. Transaction(p, j)
      BY <1>2, <2>2 DEF OnPollFailure
    <3>2. p \in Publishers /\ p.lastAvailability = pub.lastAvailability
          /\ p.offlinePublishPending = pub.offlinePublishPending
      BY DEF TypeOK, Publishers
    <3>3. j \in Handlers /\ j.who # "success"
      BY DEF Handler, Handlers, Snapshots
    <3> HIDE DEF p, j
    <3>4. QED
      BY <1>2, <2>1, <3>1, <3>2, <3>3, TransactionOnline
  <2>3. ASSUME NEW shape \in Shapes[s], OnPollSuccess(s, shape)
        PROVE  OnlineInv'
    <3> DEFINE p == [pub EXCEPT !.snapshot[s] = shape, !.up[s] = independentMeters]
               j == Handler("success", s, pub.snapshot[s])
    <3>1. Transaction(p, j)
      BY <2>3 DEF OnPollSuccess
    <3>2. shape \in Snapshots /\ independentMeters \in BOOLEAN /\ independentMeters = TRUE
      BY <1>2, SnapshotTyped DEF Snapshots, independentMeters
    <3>3. p \in Publishers /\ p.lastAvailability = pub.lastAvailability
          /\ p.offlinePublishPending = pub.offlinePublishPending /\ p.up[s] = TRUE
      BY <3>2 DEF TypeOK, Publishers
    <3>4. j \in Handlers /\ j.stream = s
      BY DEF Handler, Handlers, TypeOK, Publishers
    <3> HIDE DEF p, j
    <3>5. QED
      BY <1>2, <2>1, <3>1, <3>3, <3>4, TransactionOnline
  <2>4. QED
    BY <2>2, <2>3 DEF Poll
<1>3. QED
  BY <1>1, <1>2

LEMMA AbandonOnline ==
    ASSUME TypeOK, OnlineInv, independentMeters, job.pc \in {"discovery", "availability"},
           NEW p \in Publishers, p.lastAvailability = pub.lastAvailability,
           Abandon(p), UNCHANGED <<config, run>>
    PROVE  OnlineInv'
<1>1. job \in Handlers
  BY DEF TypeOK
<1>2. GoesOffline(p, job)
  BY DEF Abandon
<1>3. pub'.lastAvailability = Offline
  BY <1>1, <1>2, GoesOfflineOwes
<1>4. pub'.offlinePublishPending /\ job' = [job EXCEPT !.pc = "offline"]
  BY <1>1, <1>2, GoesOfflineOwes DEF OnlineInv, JobInv
<1>5. job'.pc = "offline"
  BY <1>1, <1>4 DEF Handlers
<1>6. VerdictInv' /\ JobInv' /\ ReachInv'
  BY <1>3, <1>4, <1>5, NoneTyped DEF VerdictInv, JobInv, ReachInv, Idle, Online, Offline
<1>7. QED
  BY <1>6 DEF OnlineInv

LEMMA VerdictFrame ==
    ASSUME VerdictInv, meters' = meters, pub'.lastAvailability = pub.lastAvailability,
           pub'.cachedState = pub.cachedState, pub'.snapshot = pub.snapshot, pub'.up = pub.up
    PROVE  VerdictInv'
<1>1. buildStatePayload(pub)' = buildStatePayload(pub)
  BY DEF buildStatePayload, Shown, independentMeters
<1>2. QED
  BY <1>1 DEF VerdictInv

LEMMA PublishOnline ==
    ASSUME TypeInv, GoodbyeInv, OnlineInv, Publish
    PROVE  OnlineInv'
<1>1. UNCHANGED <<config, run, link, broker>>
  BY DEF Publish, PublishDiscovery, PublishState, PublishAvailability, PublishOffline
<1>2. CASE ~independentMeters
  BY <1>1, <1>2 DEF OnlineInv, independentMeters, config
<1> SUFFICES ASSUME independentMeters PROVE OnlineInv'
  BY <1>2
<1>3. /\ pub \in Publishers /\ job \in Handlers /\ wire \in Seq(Messages)
      /\ run \in {"running", "closing", "closed", "dead"} /\ TypeOK
  BY DEF TypeInv, TypeOK
<1>4. job.pc \in {"discovery", "availability"} => run = "running"
  BY <1>3, NoneTyped DEF GoodbyeInv
<1>5. VerdictInv /\ JobInv /\ ReachInv
  BY DEF OnlineInv
<1>6. CASE PublishDiscovery
  <2> PICK t \in job.topics :
          /\ job.pc = "discovery"
          /\ \/ /\ pub' = [pub EXCEPT !.discoveryPayloads = @ \cup {t}]
                /\ job' = [job EXCEPT !.topics = @ \ {t}]
             \/ Abandon(pub)
    BY <1>6 DEF PublishDiscovery
  <2>1. CASE pub' = [pub EXCEPT !.discoveryPayloads = @ \cup {t}] /\ job' = [job EXCEPT !.topics = @ \ {t}]
    <3>1. /\ pub'.lastAvailability = pub.lastAvailability /\ pub'.cachedState = pub.cachedState
          /\ pub'.snapshot = pub.snapshot /\ pub'.up = pub.up
      BY <1>3, <2>1 DEF Publishers
    <3>2. job'.who = job.who /\ job'.stream = job.stream /\ job'.pc = "discovery"
      BY <1>3, <2>1 DEF Handlers
    <3>3. VerdictInv'
      BY <1>1, <1>5, <3>1, VerdictFrame DEF config
    <3>4. JobInv' /\ ReachInv'
      BY <1>5, <3>1, <3>2, NoneTyped DEF JobInv, ReachInv, Idle
    <3>5. QED
      BY <3>3, <3>4 DEF OnlineInv
  <2>2. CASE Abandon(pub)
    BY <1>1, <1>3, <2>2, AbandonOnline
  <2>3. QED
    BY <2>1, <2>2
<1>7. CASE PublishState
  <2> DEFINE m == Message("state", pub.cachedState)
  <2>1. /\ job.pc = "discovery"
        /\ \/ /\ pub.cachedState = Nothing \/ Sent(m)
              /\ pub' = ShapePublished /\ job' = [job EXCEPT !.pc = "availability"]
           \/ Abandon(ShapePublished)
    BY <1>7 DEF PublishState
  <2>2. /\ ShapePublished \in Publishers /\ ShapePublished.lastAvailability = pub.lastAvailability
        /\ ShapePublished.cachedState = pub.cachedState
        /\ ShapePublished.snapshot = pub.snapshot /\ ShapePublished.up = pub.up
    BY <2>1, ShapePublishedTyped
  <2>3. CASE Abandon(ShapePublished)
    BY <1>1, <1>3, <2>1, <2>2, <2>3, AbandonOnline
  <2>4. CASE /\ pub.cachedState = Nothing \/ Sent(m)
             /\ pub' = ShapePublished /\ job' = [job EXCEPT !.pc = "availability"]
    <3>1. VerdictInv'
      BY <1>1, <1>5, <2>2, <2>4, VerdictFrame DEF config
    <3>2. job'.who = job.who /\ job'.stream = job.stream /\ job'.pc = "availability"
      BY <1>3, <2>4 DEF Handlers
    <3>3. JobInv'
      BY <1>5, <2>1, <2>2, <2>4, <3>2 DEF JobInv
    <3>4. pub.cachedState = Nothing => pub.lastAvailability # Online
      <4>1. buildStatePayload(pub) \in [Streams -> (SUBSET Topics) \cup {Nothing}]
        BY <1>3 DEF buildStatePayload, Publishers, Snapshots
      <4>2. QED
        BY <1>5, <4>1, NothingAssumption DEF VerdictInv
    <3>5. Sent(m) => SaysCached'
      <4>1. m \in Messages /\ m.topic = "state" /\ m.value = pub.cachedState
        BY <1>3, MessagesTyped DEF Message
      <4> HIDE DEF m
      <4>2. Sent(m) => Says(wire', "state", broker.state, pub.cachedState)
        BY <1>3, <4>1, SaysSent DEF Sent
      <4>3. QED
        BY <1>1, <2>2, <2>4, <4>2 DEF SaysCached
    <3>6. ReachInv'
      BY <2>2, <2>4, <3>2, <3>4, <3>5, NoneTyped DEF ReachInv, Idle
    <3>7. QED
      BY <3>1, <3>3, <3>6 DEF OnlineInv
  <2>5. QED
    BY <2>1, <2>3, <2>4
<1>8. CASE PublishAvailability
  <2> DEFINE m == Message("availability",
                          IF pub.lastAvailability = Nothing THEN Offline ELSE pub.lastAvailability)
  <2>1. /\ job.pc = "availability"
        /\ \/ Sent(m) /\ pub' = [pub EXCEPT !.offlinePublishPending = FALSE] /\ job' = None
           \/ Abandon(pub)
    BY <1>8 DEF PublishAvailability
  <2>2. CASE Abandon(pub)
    BY <1>1, <1>3, <2>1, <2>2, AbandonOnline
  <2>3. CASE Sent(m) /\ pub' = [pub EXCEPT !.offlinePublishPending = FALSE] /\ job' = None
    <3>1. /\ pub'.lastAvailability = pub.lastAvailability /\ pub'.cachedState = pub.cachedState
          /\ pub'.snapshot = pub.snapshot /\ pub'.up = pub.up
      BY <1>3, <2>3 DEF Publishers
    <3>2. VerdictInv'
      BY <1>1, <1>5, <3>1, VerdictFrame DEF config
    <3>3. JobInv'
      BY <2>3, NoneTyped DEF JobInv
    <3>4. m \in Messages /\ m.topic = "availability" /\ (m.value = Online => pub.lastAvailability = Online)
      <4>1. pub.lastAvailability \in {Online, Offline, Nothing}
        BY <1>3 DEF Publishers, Verdicts
      <4>2. CASE pub.lastAvailability = Online
        <5>1. m = Message("availability", Online)
          BY <4>2, NothingAssumption
        <5> HIDE DEF m
        <5>2. QED
          BY <1>3, <4>2, <5>1, MessagesTyped DEF Message
      <4>3. CASE pub.lastAvailability # Online
        <5>1. m = Message("availability", Offline)
          BY <4>1, <4>3
        <5> HIDE DEF m
        <5>2. QED
          BY <1>3, <5>1, MessagesTyped DEF Message, Online, Offline
      <4>4. QED
        BY <4>2, <4>3
    <3>5. wire' = Append(wire, m)
      BY <2>3 DEF Sent
    <3> HIDE DEF m
    <3>6. SaysOnline' => pub.lastAvailability = Online
      <4>1. Says(wire', "availability", broker.availability, Online) <=> m.value = Online
        BY <1>3, <3>4, <3>5, SaysSent
      <4>2. QED
        BY <1>1, <3>4, <4>1 DEF SaysOnline
    <3>7. SaysCached' <=> SaysCached
      <4>1. Says(wire', "state", broker.state, pub.cachedState)
                <=> Says(wire, "state", broker.state, pub.cachedState)
        BY <1>3, <3>4, <3>5, SaysSent
      <4>2. QED
        BY <1>1, <3>1, <4>1 DEF SaysCached
    <3>8. ReachInv'
      BY <1>1, <1>5, <2>1, <2>3, <3>1, <3>6, <3>7, NoneTyped DEF ReachInv, link
    <3>9. QED
      BY <3>2, <3>3, <3>8 DEF OnlineInv
  <2>4. QED
    BY <2>1, <2>2, <2>3
<1>9. CASE PublishOffline
  <2> DEFINE m == Message("availability", Offline)
  <2>1. /\ job.pc = "offline" /\ job' = None
        /\ \/ Sent(m) /\ pub' = IF run = "running" THEN [pub EXCEPT !.offlinePublishPending = FALSE] ELSE pub
           \/ pub' = pub
    BY <1>9 DEF PublishOffline
  <2>2. /\ pub'.lastAvailability = pub.lastAvailability /\ pub'.cachedState = pub.cachedState
        /\ pub'.snapshot = pub.snapshot /\ pub'.up = pub.up
    BY <1>3, <2>1 DEF Publishers
  <2>3. VerdictInv'
    BY <1>1, <1>5, <2>2, VerdictFrame DEF config
  <2>4. JobInv'
    BY <2>1, NoneTyped DEF JobInv
  <2>5. Sent(m) => ~SaysOnline'
    <3>1. m \in Messages /\ m.topic = "availability" /\ m.value # Online
      BY MessagesTyped, <1>3 DEF Message, Online, Offline
    <3> HIDE DEF m
    <3>2. Sent(m) => ~Says(wire', "availability", broker.availability, Online)
      BY <1>3, <3>1, SaysSent DEF Sent
    <3>3. QED
      BY <1>1, <3>2 DEF SaysOnline
  <2>6. run = "running" /\ pub' = pub => pub'.offlinePublishPending
    BY <1>5, <2>1 DEF JobInv
  <2>7. ReachInv'
    BY <1>1, <2>1, <2>5, <2>6, NoneTyped DEF ReachInv
  <2>8. QED
    BY <2>3, <2>4, <2>7 DEF OnlineInv
<1>10. QED
  BY <1>6, <1>7, <1>8, <1>9 DEF Publish

LEMMA DeliverOnline ==
    ASSUME TypeOK, OnlineInv, Deliver
    PROVE  OnlineInv'
<1>1. /\ wire \in Seq(Messages) /\ wire # <<>> /\ broker' = Applied(broker, wire[1])
      /\ wire' = Tail(wire) /\ UNCHANGED <<config, run, pub, job, link>>
  BY DEF TypeOK, Deliver
<1>2. /\ broker'.availability = IF wire[1].topic = "availability" THEN wire[1].value ELSE broker.availability
      /\ broker'.state = IF wire[1].topic = "state" THEN wire[1].value ELSE broker.state
  <2>1. broker \in [availability : Verdicts, state : Payloads, discovery : SUBSET Topics]
    BY DEF TypeOK
  <2>2. QED
    BY <1>1, <2>1 DEF Applied
<1>3. (SaysOnline' <=> SaysOnline) /\ (SaysCached' <=> SaysCached)
  BY <1>1, <1>2, SaysDelivered DEF SaysOnline, SaysCached
<1>4. OnlineInv => OnlineInv'
  BY <1>1, <1>3 DEF OnlineInv, VerdictInv, JobInv, ReachInv, Idle, independentMeters,
                    buildStatePayload, Shown, config, link
<1>5. QED
  BY <1>4

LEMMA OtherOnline ==
    ASSUME TypeInv, GoodbyeInv, OnlineInv,
           \/ onConnect \/ Close \/ Connect \/ ConnectionLost \/ BrokerRestarts
           \/ Disconnect \/ Crash \/ Start
    PROVE  OnlineInv'
<1>1. UNCHANGED meters
  BY DEF onConnect, Close, Connect, ConnectionLost, BrokerRestarts, Disconnect, Crash, Start, config
<1>2. CASE ~independentMeters
  BY <1>1, <1>2 DEF OnlineInv, independentMeters
<1> SUFFICES ASSUME independentMeters PROVE VerdictInv' /\ JobInv' /\ ReachInv'
  BY <1>2 DEF OnlineInv
<1>3. VerdictInv /\ JobInv /\ ReachInv /\ pub \in Publishers
  BY DEF OnlineInv, TypeInv, TypeOK
<1>4. pub' = pub => VerdictInv'
  BY <1>1, <1>3, VerdictFrame
<1>5. CASE onConnect
  <2>1. pub' = pub /\ run' = run /\ Idle
    BY <1>5 DEF onConnect, Lock
  <2>2. CASE run = "running"
    <3>1. job'.who = "connect" /\ job'.pc = "discovery"
      BY <1>5, <2>2 DEF onConnect, Handler
    <3>2. QED
      BY <1>4, <2>1, <3>1, NoneTyped DEF JobInv, ReachInv, Idle
  <2>3. CASE run # "running"
    <3>1. job'.who # "success"
      BY <1>5, <2>3, NoneTyped DEF onConnect, Handler
    <3>2. QED
      BY <1>4, <2>1, <2>3, <3>1 DEF JobInv, ReachInv
  <2>4. QED
    BY <2>2, <2>3
<1>6. CASE Close
  <2>1. pub'.lastAvailability = Offline /\ run' = "closing" /\ job'.who # "success"
    BY <1>3, <1>6, NoneTyped DEF Close, Publishers, Handler
  <2>2. QED
    BY <2>1 DEF VerdictInv, JobInv, ReachInv, Online, Offline
<1>7. CASE Connect \/ ConnectionLost \/ BrokerRestarts
  <2>1. UNCHANGED <<pub, run, job>>
    BY <1>7 DEF Connect, ConnectionLost, BrokerRestarts
  <2>2. ~open' \/ hooks' # 0
    <3>1. hooks \in Nat
      BY DEF TypeInv, TypeOK
    <3>2. hooks + 1 # 0
      BY <3>1
    <3>3. QED
      BY <1>7, <3>2 DEF Connect, ConnectionLost, BrokerRestarts
  <2>3. QED
    BY <1>3, <1>4, <2>1, <2>2 DEF JobInv, ReachInv
<1>8. CASE Disconnect \/ Crash
  <2>1. pub'.lastAvailability = Nothing /\ job' = None /\ run' # "running"
    BY <1>8 DEF Disconnect, Crash, Fresh
  <2>2. QED
    BY <2>1, NoneTyped, NothingAssumption DEF VerdictInv, JobInv, ReachInv
<1>9. CASE Start
  <2>1. ~open /\ job = None
    BY <1>9 DEF Start, GoodbyeInv
  <2>2. ~open' /\ job' = None /\ pub' = pub
    BY <1>9, <2>1 DEF Start, link
  <2>3. QED
    BY <1>4, <2>2, NoneTyped DEF JobInv, ReachInv
<1>10. QED
  BY <1>5, <1>6, <1>7, <1>8, <1>9

\* Whatever is lost, times out or is rolled back between two publishes: entities
\* shown as available are current, or are to be revoked and the publisher knows.
THEOREM OnlineCorrect == Spec => []OnlineIsCurrent
<1>1. Init => GoodbyeInv
  BY DEF Init, GoodbyeInv
<1>2. Init => OnlineInv
  BY NoneTyped, NothingAssumption DEF Init, Fresh, OnlineInv, VerdictInv, JobInv, ReachInv
<1>3. TypeInv /\ GoodbyeInv /\ [Next]_vars => GoodbyeInv'
  BY NextEnds
<1>4. TypeInv /\ GoodbyeInv /\ OnlineInv /\ [Next]_vars => OnlineInv'
  <2> SUFFICES ASSUME TypeInv, GoodbyeInv, OnlineInv, [Next]_vars PROVE OnlineInv'
    OBVIOUS
  <2>1. CASE UNCHANGED vars
    BY <2>1 DEF vars, link, config, OnlineInv, VerdictInv, JobInv, ReachInv, Idle, SaysOnline,
                SaysCached, independentMeters, buildStatePayload, Shown
  <2>2. CASE Next
    BY <2>2, PollOnline, PublishOnline, DeliverOnline, OtherOnline DEF Next, TypeInv
  <2>3. QED
    BY <2>1, <2>2
<1>5. TypeInv /\ OnlineInv => OnlineIsCurrent
  <2> SUFFICES ASSUME TypeInv, OnlineInv, independentMeters, Settled, broker.availability = Online,
                      ~pub.offlinePublishPending
               PROVE  (\E s \in Streams : pub.up[s]) /\ broker.state = buildStatePayload(pub)
    BY DEF OnlineIsCurrent
  <2>1. SaysOnline /\ (SaysCached <=> broker.state = pub.cachedState)
    BY SaysNothingMore DEF SaysOnline, SaysCached, Settled
  <2>2. pub.lastAvailability = Online /\ broker.state = pub.cachedState
    BY <2>1 DEF OnlineInv, ReachInv, Settled
  <2>3. QED
    BY <2>2 DEF OnlineInv, VerdictInv
<1>6. QED
  BY InitTyped, NextTyped, <1>1, <1>2, <1>3, <1>4, <1>5, PTL DEF Spec

=============================================================================
