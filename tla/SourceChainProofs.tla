-------------------------- MODULE SourceChainProofs --------------------------
(***************************************************************************)
(* What holds of a poll for every width of a register, every budget, and   *)
(* every set of inverters and configurations: its values are real and of   *)
(* one inverter, its steps are bounded, and the validation log is bounded  *)
(* and does not fall behind.                                               *)
(***************************************************************************)
EXTENDS SourceChain, FiniteSetTheorems, TLAPS

\* The envelope of the decoders: a low word sampled from one value and a high
\* word sampled from any other are accepted together only if they spell the
\* value of the low word.
LEMMA TornPair ==
    ASSUME NEW v \in Powers, NEW high \in Int, Coherent(LowWord(v), high)
    PROVE  Join(LowWord(v), high) = v
<1> USE HalfAssumption DEF Powers, Range16
<1>1. LowWord(v) = IF v < 0 THEN v + Range16 ELSE v
  <2>1. CASE v >= 0
    <3>1. v \in 0 .. Range16 - 1
      BY <2>1
    <3> QED
      BY <2>1, <3>1, SMT DEF LowWord
  <2>2. CASE v < 0
    <3>1. v + Range16 \in 0 .. Range16 - 1
      BY <2>2
    <3> QED
      BY <2>2, <3>1, SMT DEF LowWord
  <2> QED
    BY <2>1, <2>2
<1>2. CASE high = 0
  <2>1. Join(LowWord(v), high) = LowWord(v)
    BY <1>1, <1>2 DEF Join
  <2> QED
    BY <1>1, <2>1 DEF Coherent
<1>3. CASE high = Range16 - 1
  <2>1. high >= Half
    BY <1>3
  <2>2. high - Range16 = -1
    BY <1>3
  <2>3. Range16 * (-1) = -Range16
    OBVIOUS
  <2>4. Join(LowWord(v), high) = LowWord(v) - Range16
    BY <1>1, <2>1, <2>2, <2>3 DEF Join
  <2> QED
    BY <1>1, <2>4 DEF Coherent
<1> QED
  BY <1>2, <1>3 DEF Coherent

-----------------------------------------------------------------------------
\* The type invariant, part by part.
Words == 0 .. Range16 - 1
StatusWords == Statuses \cup {"none"}
Sessions == [next : 0 .. 9, low : Words, sampled : Powers, power : Powers,
             bms : BmsWords, status : StatusWords]

SessionOK == capabilities \in BOOLEAN /\ session \in Sessions /\ status \in Statuses

LEMMA WordTypes ==
    /\ Range16 \in Nat /\ Range16 > 0
    /\ 0 \in 0 .. Range16 - 1
    /\ 0 \in Powers
    /\ \A v \in Powers : LowWord(v) \in 0 .. Range16 - 1 /\ HighWord(v) \in Int
    /\ \A v, w \in Powers : Coherent(LowWord(v), HighWord(w)) => Join(LowWord(v), HighWord(w)) \in Powers
<1>1. Range16 \in Nat /\ Range16 > 0
  BY HalfAssumption DEF Range16
<1>2. 0 \in 0 .. Range16 - 1 /\ 0 \in Powers
  BY HalfAssumption, <1>1 DEF Powers
<1>3. ASSUME NEW v \in Powers PROVE LowWord(v) \in 0 .. Range16 - 1
  <2>1. v \in Int
    BY HalfAssumption DEF Powers
  <2> QED
    BY <1>1, <2>1 DEF LowWord
<1>4. ASSUME NEW v \in Powers PROVE HighWord(v) \in Int
  <2>1. v \in Int
    BY HalfAssumption DEF Powers
  <2>2. v \div Range16 \in Int
    BY <1>1, <2>1
  <2> QED
    BY <1>1, <2>2 DEF HighWord
<1>5. ASSUME NEW v \in Powers, NEW w \in Powers, Coherent(LowWord(v), HighWord(w))
      PROVE  Join(LowWord(v), HighWord(w)) \in Powers
  BY <1>4, <1>5, TornPair
<1> QED
  BY <1>1, <1>2, <1>3, <1>4, <1>5

LEMMA NoSessionType ==
    /\ NoSession \in Sessions
    /\ NoSession.next = 0
    /\ \A n \in 0 .. 9 : /\ [NoSession EXCEPT !.next = n] \in Sessions
                         /\ [NoSession EXCEPT !.next = n].next = n
<1>1. NoSession \in Sessions
  <2>1. 0 \in Words /\ 0 \in Powers /\ 0 \in 0 .. 9
    BY WordTypes DEF Words
  <2>2. "zero" \in BmsWords /\ "none" \in StatusWords
    BY DEF BmsWords, StatusWords
  <2> QED
    BY <2>1, <2>2 DEF Sessions, NoSession
<1>2. NoSession.next = 0
  BY DEF NoSession
<1>3. ASSUME NEW n \in 0 .. 9
      PROVE  [NoSession EXCEPT !.next = n] \in Sessions /\ [NoSession EXCEPT !.next = n].next = n
  BY <1>1 DEF Sessions
<1> QED
  BY <1>1, <1>2, <1>3

\* A session is at one read of its plan.
LEMMA Plan ==
    ASSUME session.next \in 0 .. 9
    PROVE  /\ Reading("metadata") <=> session.next = 3
           /\ Reading("mode") <=> session.next = 4
           /\ Reading("low") <=> session.next = 5
           /\ Reading("high") <=> session.next = 6
           /\ Reading("bms") <=> session.next = 7
           /\ Reading("status") <=> session.next = 8
           /\ Complete <=> session.next = 9
BY DEF Reading, Complete, fetchReadPlan

-----------------------------------------------------------------------------
\* The words read so far belong to the power that was sampled with the low one.
SampledOK ==
    /\ session.next >= 6 => session.low = LowWord(session.sampled)
    /\ session.next >= 7 => session.power = session.sampled

\* A read of the session keeps the words of a power together.
LEMMA ReadsKeepWords ==
    ASSUME SessionOK, SampledOK, ReadApproved
    PROVE  SessionOK' /\ SampledOK'
<1>0. session.next \in 0 .. 9 /\ session \in Sessions /\ capabilities \in BOOLEAN /\ status \in Statuses
  BY DEF SessionOK, Sessions
<1>1. SUFFICES session' \in Sessions /\ capabilities' \in BOOLEAN /\ status' = status /\ SampledOK'
  BY <1>0 DEF SessionOK
<1>2. CASE ReadGate
  <2>1. session.next \in 1 .. 3 /\ session' = [session EXCEPT !.next = session.next + 1]
    BY <1>2 DEF ReadGate, Gates
  <2>2. session'.next \in 2 .. 4
    BY <1>0, <2>1 DEF Sessions
  <2>3. session' \in Sessions
    BY <1>0, <2>1 DEF Sessions
  <2>4. SampledOK'
    BY <2>2 DEF SampledOK
  <2>5. capabilities' \in BOOLEAN /\ status' = status
    BY <1>0, <1>2 DEF ReadGate, Reading
  <2> QED
    BY <2>3, <2>4, <2>5
<1>3. CASE ReadMode
  <2>1. session.next = 4 /\ session' = [session EXCEPT !.next = session.next + 1]
    BY <1>0, <1>3, Plan DEF ReadMode
  <2>2. session'.next = 5 /\ session' \in Sessions
    BY <1>0, <2>1 DEF Sessions
  <2> QED
    BY <1>0, <1>3, <2>2 DEF ReadMode, SampledOK
<1>4. CASE ReadLow
  <2> DEFINE n == session.next + 1
  <2>1. session.next = 5
    BY <1>0, <1>4, Plan DEF ReadLow
  <2>2. PICK v \in Powers :
            session' = [session EXCEPT !.next = n, !.low = LowWord(v), !.sampled = v]
    BY <1>4 DEF ReadLow
  <2>8. n = 6 /\ n \in 0 .. 9
    BY <2>1
  <2> HIDE DEF n
  <2>3. LowWord(v) \in Words
    BY WordTypes DEF Words
  <2>4. session'.next = 6 /\ session'.low = LowWord(v) /\ session'.sampled = v
    BY <1>0, <2>1, <2>2, <2>8 DEF Sessions
  <2>5. session' \in Sessions
    BY <1>0, <2>1, <2>2, <2>3, <2>8 DEF Sessions
  <2> QED
    BY <1>0, <1>4, <2>4, <2>5 DEF ReadLow, SampledOK
<1>5. CASE ReadHigh
  <2> DEFINE n == session.next + 1
  <2>1. session.next = 6
    BY <1>0, <1>5, Plan DEF ReadHigh
  <2>2. PICK w \in Powers :
            /\ Coherent(session.low, HighWord(w))
            /\ session' = [session EXCEPT !.next = n, !.power = Join(session.low, HighWord(w))]
    BY <1>5 DEF ReadHigh
  <2>8. n = 7 /\ n \in 0 .. 9
    BY <2>1
  <2> HIDE DEF n
  <2>3. session.low = LowWord(session.sampled) /\ session.sampled \in Powers
    BY <1>0, <2>1 DEF Sessions, SampledOK
  <2>4. Join(session.low, HighWord(w)) = session.sampled
    BY <2>2, <2>3, WordTypes, TornPair
  <2>5. session' \in Sessions
    BY <1>0, <2>1, <2>2, <2>3, <2>4, <2>8 DEF Sessions
  <2>6. session'.low = session.low /\ session'.sampled = session.sampled /\ session'.power = session.sampled
    BY <1>0, <2>2, <2>4, <2>8 DEF Sessions
  <2> QED
    BY <1>0, <1>5, <2>3, <2>5, <2>6 DEF ReadHigh, SampledOK
<1>6. CASE ReadBms
  <2> DEFINE n == session.next + 1
  <2>1. session.next = 7
    BY <1>0, <1>6, Plan DEF ReadBms
  <2>2. PICK w \in BmsWords : session' = [session EXCEPT !.next = n, !.bms = w]
    BY <1>6 DEF ReadBms
  <2>8. n = 8 /\ n \in 0 .. 9
    BY <2>1
  <2> HIDE DEF n
  <2>3. session' \in Sessions /\ session'.low = session.low /\ session'.sampled = session.sampled
        /\ session'.power = session.power
    BY <1>0, <2>1, <2>2, <2>8 DEF Sessions
  <2> QED
    BY <1>0, <1>6, <2>1, <2>3 DEF ReadBms, SampledOK
<1>7. CASE ReadStatus
  <2> DEFINE n == session.next + 1
  <2>1. session.next = 8
    BY <1>0, <1>7, Plan DEF ReadStatus
  <2>2. session' = [session EXCEPT !.next = n, !.status = status]
    BY <1>7 DEF ReadStatus
  <2>8. n = 9 /\ n \in 0 .. 9
    BY <2>1
  <2> HIDE DEF n
  <2>0. status \in StatusWords
    BY <1>0 DEF StatusWords
  <2>3. session' \in Sessions /\ session'.low = session.low /\ session'.sampled = session.sampled
        /\ session'.power = session.power
    BY <1>0, <2>0, <2>1, <2>2, <2>8 DEF Sessions
  <2> QED
    BY <1>0, <1>7, <2>1, <2>3 DEF ReadStatus, SampledOK
<1> QED
  BY <1>2, <1>3, <1>4, <1>5, <1>6, <1>7 DEF ReadApproved

\* A session that opens or ends has no words.
LEMMA EmptySession ==
    ASSUME SessionOK, Opens \/ Close
    PROVE  SessionOK' /\ SampledOK'
<1>1. CASE Opens
  <2>1. session' = [NoSession EXCEPT !.next = 4] \/ session' = [NoSession EXCEPT !.next = 1]
    BY <1>1 DEF Opens
  <2>2. session' \in Sessions /\ (session'.next = 4 \/ session'.next = 1)
    <3>1. 4 \in 0 .. 9 /\ 1 \in 0 .. 9
      OBVIOUS
    <3> QED
      BY <2>1, <3>1, NoSessionType
  <2> QED
    BY <1>1, <2>2 DEF Opens, SessionOK, SampledOK
<1>2. CASE Close
  BY <1>2, NoSessionType DEF Close, SessionOK, SampledOK
<1> QED
  BY <1>1, <1>2

-----------------------------------------------------------------------------
\* The requests of the Solarman client.
Steps == {"idle", "resolve", "lookup", "ensure", "queue", "sent", "queue_token", "sent_token"}
Todos == {<<>>, <<"current">>, <<"devices", "current">>, <<"stations", "devices", "current">>}
KnownOrNot == Serials \cup {"unknown"}
Calls == [step : Steps, todo : Todos, attempt : 1 .. transientRequestAttempts,
          renewed : BOOLEAN, sn : KnownOrNot]

SolarmanOK ==
    /\ account \in Serials
    /\ token \in 0 .. Lifetime
    /\ sinceSent \in 0 .. Interval
    /\ found \in [sn : KnownOrNot, age : 0 .. Refresh]
    /\ call \in Calls

LEMMA CallTypes ==
    /\ NoCall \in Calls
    /\ NotFound \in [sn : KnownOrNot, age : 0 .. Refresh]
    /\ transientRequestAttempts = 2
BY SolarmanAssumption DEF NoCall, NotFound, Calls, Steps, Todos, KnownOrNot, transientRequestAttempts

\* Every step of a fetch leaves a request that the client knows.
LEMMA FetchTypes ==
    ASSUME SolarmanOK, NEW configured \in KnownOrNot, SolarmanFetch(configured) \/ SolarmanReturns
    PROVE  SolarmanOK'
<1>1. CASE SolarmanReturns
  BY <1>1, CallTypes DEF SolarmanReturns, SolarmanOK
<1>2. CASE SolarmanFetch(configured)
  <2>1. call' \in Calls
    BY <1>2, CallTypes DEF SolarmanFetch, Calls, Steps, Todos
  <2> QED
    BY <1>2, <2>1 DEF SolarmanFetch, SolarmanOK
<1> QED
  BY <1>1, <1>2

LEMMA WorkTypes ==
    ASSUME SolarmanOK, NEW stationed \in BOOLEAN, SolarmanWorks(stationed)
    PROVE  SolarmanOK'
<1>0. call \in Calls /\ transientRequestAttempts = 2
  BY CallTypes DEF SolarmanOK
<1>1. CASE resolveDeviceSN
  BY <1>0, <1>1 DEF resolveDeviceSN, Goto, SolarmanOK, Calls, Steps
<1>2. CASE LookUp(stationed)
  <2>1. found.sn \in KnownOrNot
    BY DEF SolarmanOK
  <2>2. call' \in Calls
    BY <1>0, <1>2, <2>1 DEF LookUp, Discovery, Calls, Steps, Todos
  <2> QED
    BY <1>2, <2>2 DEF LookUp, SolarmanOK
<1>3. CASE ensureToken
  BY <1>0, <1>3 DEF ensureToken, Goto, SolarmanOK, Calls, Steps
<1>4. CASE waitForRequestBudget
  <2>1. call' \in Calls
    BY <1>0, <1>4 DEF waitForRequestBudget, Goto, Calls, Steps
  <2> QED
    BY <1>4, <2>1, SolarmanAssumption DEF waitForRequestBudget, SolarmanOK
<1>5. CASE TokenObtained
  <2>0. PICK st \in {"lookup", "queue"} : call' = [call EXCEPT !.step = st, !.attempt = 1]
    BY <1>5 DEF TokenObtained
  <2>2. st \in Steps /\ 1 \in 1 .. transientRequestAttempts
    BY <1>0 DEF Steps
  <2>1. call' \in Calls
    BY <1>0, <2>0, <2>2 DEF Calls
  <2> QED
    BY <1>5, <2>1, SolarmanAssumption DEF TokenObtained, SolarmanOK
<1>6. CASE Answered
  <2>1. call.todo \in Todos /\ Len(call.todo) > 1
    BY <1>0, <1>6 DEF Answered, Calls
  <2>2. Tail(call.todo) \in Todos
    <3>1. CASE call.todo = <<"devices", "current">>
      <4>1. Tail(<<"devices", "current">>) = <<"current">>
        OBVIOUS
      <4> QED
        BY <3>1, <4>1 DEF Todos
    <3>2. CASE call.todo = <<"stations", "devices", "current">>
      <4>1. Tail(<<"stations", "devices", "current">>) = <<"devices", "current">>
        OBVIOUS
      <4> QED
        BY <3>2, <4>1 DEF Todos
    <3>3. Len(<<>>) = 0 /\ Len(<<"current">>) = 1
      OBVIOUS
    <3>4. call.todo # <<>>
      BY <2>1, <3>3
    <3>5. call.todo # <<"current">>
      <4> SUFFICES ASSUME call.todo = <<"current">> PROVE FALSE
        OBVIOUS
      <4>1. Len(call.todo) = 1
        BY <3>3
      <4> QED
        BY <2>1, <4>1
    <3> QED
      BY <2>1, <3>1, <3>2, <3>4, <3>5 DEF Todos
  <2>3. account \in KnownOrNot
    BY DEF SolarmanOK, KnownOrNot
  <2>6. PICK sn \in KnownOrNot :
            call' = [call EXCEPT !.step = "ensure", !.todo = Tail(call.todo), !.attempt = 1,
                                 !.renewed = FALSE, !.sn = sn]
    <3>1. call.sn \in KnownOrNot
      BY <1>0 DEF Calls
    <3> QED
      BY <1>6, <2>3, <3>1 DEF Answered
  <2>7. "ensure" \in Steps /\ 1 \in 1 .. transientRequestAttempts
    BY <1>0 DEF Steps
  <2>4. call' \in Calls
    BY <1>0, <2>2, <2>6, <2>7 DEF Calls
  <2>5. found' \in [sn : KnownOrNot, age : 0 .. Refresh]
    BY <1>6, <2>3, SolarmanAssumption DEF Answered, SolarmanOK
  <2> QED
    BY <1>6, <2>4, <2>5 DEF Answered, SolarmanOK
<1>7. CASE Unauthorized
  BY <1>0, <1>7 DEF Unauthorized, SolarmanOK, Calls, Steps
<1>8. CASE TransientFailure
  <2>0. call.attempt \in 1 .. 2 /\ call.attempt < 2
    BY <1>0, <1>8 DEF TransientFailure, Calls
  <2> DEFINE n == call.attempt + 1
  <2>1. call' = [call EXCEPT !.step = "queue", !.attempt = n]
    BY <1>8 DEF TransientFailure
  <2>2. "queue" \in Steps /\ n \in 1 .. transientRequestAttempts
    BY <1>0, <2>0 DEF Steps
  <2> HIDE DEF n
  <2>3. call' \in Calls
    BY <1>0, <2>1, <2>2 DEF Calls
  <2> QED
    BY <1>8, <2>3 DEF TransientFailure, SolarmanOK
<1> QED
  BY <1>1, <1>2, <1>3, <1>4, <1>5, <1>6, <1>7, <1>8 DEF SolarmanWorks

LEMMA AgeTypes ==
    ASSUME SolarmanOK, SolarmanAges
    PROVE  SolarmanOK'
<1>1. token' \in 0 .. Lifetime /\ sinceSent' \in 0 .. Interval
  BY SolarmanAssumption DEF SolarmanOK, SolarmanAges
<1>2. found' \in [sn : KnownOrNot, age : 0 .. Refresh]
  BY SolarmanAssumption DEF SolarmanOK, SolarmanAges
<1>3. account' = account /\ call' = call
  BY DEF SolarmanAges
<1> QED
  BY <1>1, <1>2, <1>3 DEF SolarmanOK

-----------------------------------------------------------------------------
\* What the sources return and what the poll keeps of it.
Keys == ModbusKeys \cup SolarmanKeys
Surfaces == [sn : KnownOrNot, keys : SUBSET Keys]
Snapshots == [source : {"none", "modbus", "solarman"}, sn : KnownOrNot,
              keys : SUBSET Keys, power : Powers, sampled : Powers]
Evidences == [seen : SUBSET Milestones, last : StatusWords, since : 0 .. Minute,
              changes : 0 .. Budget, exhausted : BOOLEAN, records : Nat]

ChainOK ==
    /\ installation \in Installations
    /\ asked \in 0 .. 2
    /\ surface \in Surfaces
    /\ first \in Surfaces
    /\ accepted \in Snapshots
    /\ logged \in StatusWords
    /\ evidence \in Evidences

Typed == SessionOK /\ SolarmanOK /\ ChainOK

LEMMA Orders ==
    ASSUME ChainOK
    PROVE  /\ installation.order \in {<<"modbus", "solarman">>, <<"solarman", "modbus">>}
           /\ Len(installation.order) = 2
           /\ installation.configured \in KnownOrNot
           /\ installation.stationed \in BOOLEAN
           /\ asked # 0 => asked \in 1 .. 2
<1>1. installation \in [order : {<<"modbus", "solarman">>, <<"solarman", "modbus">>},
                        projects : BOOLEAN, observes : BOOLEAN, configured : Serials \cup {"unknown"},
                        stationed : BOOLEAN]
  BY ChainAssumption DEF ChainOK
<1>2. installation.order \in {<<"modbus", "solarman">>, <<"solarman", "modbus">>}
      /\ installation.configured \in Serials \cup {"unknown"}
      /\ installation.stationed \in BOOLEAN
  BY <1>1
<1>3. Len(<<"modbus", "solarman">>) = 2 /\ Len(<<"solarman", "modbus">>) = 2
  OBVIOUS
<1> QED
  BY <1>2, <1>3 DEF ChainOK, KnownOrNot

LEMMA SnapshotTypes ==
    /\ NoSnapshot \in Snapshots
    /\ NoSurface \in Surfaces
    /\ SessionOK => ModbusSnapshot \in Snapshots
    /\ SolarmanOK => SolarmanSnapshots \subseteq Snapshots
<1>0. 0 \in Powers /\ "unknown" \in KnownOrNot /\ {} \in SUBSET Keys
  BY WordTypes DEF KnownOrNot
<1>1. NoSnapshot \in Snapshots /\ NoSurface \in Surfaces
  BY <1>0 DEF NoSnapshot, NoSurface, Snapshots, Surfaces
<1>2. ASSUME SessionOK PROVE ModbusSnapshot \in Snapshots
  <2>1. session.power \in Powers /\ session.sampled \in Powers
    BY <1>2 DEF SessionOK, Sessions
  <2>2. ModbusSN \in KnownOrNot /\ ModbusKeys \in SUBSET Keys
    BY ChainAssumption DEF KnownOrNot, Keys
  <2> QED
    BY <2>1, <2>2 DEF ModbusSnapshot, Snapshots
<1>3. ASSUME SolarmanOK PROVE SolarmanSnapshots \subseteq Snapshots
  <2>1. call.sn \in KnownOrNot
    BY <1>3 DEF SolarmanOK, Calls
  <2>2. SUBSET SolarmanKeys \ {{}} \subseteq SUBSET Keys
    BY DEF Keys
  <2> QED
    BY <1>0, <2>1, <2>2 DEF SolarmanSnapshots, Snapshots
<1> QED
  BY <1>1, <1>2, <1>3

LEMMA ObserveTypes ==
    ASSUME evidence \in Evidences, NEW s \in StatusWords, NEW w
    PROVE  observe(s, w) \in Evidences
<1> DEFINE e == evidence
           fresh == Marks(w) \ e.seen
           changed == e.last # "none" /\ s # e.last
           counted == changed /\ e.changes < Budget /\ e.since >= Minute
           changes == IF counted THEN e.changes + 1 ELSE e.changes
           announced == changed /\ changes >= Budget /\ ~e.exhausted
           recorded == fresh # {} \/ counted \/ announced
           seen == e.seen \cup fresh
           last == LastRecorded(recorded, s)
           since == IF counted \/ (recorded /\ e.last = "none") THEN 0 ELSE e.since
           exhausted == e.exhausted \/ announced
           records == IF recorded THEN e.records + 1 ELSE e.records
<1>1. observe(s, w) = [seen |-> seen, last |-> last, since |-> since, changes |-> changes,
                       exhausted |-> exhausted, records |-> records]
  BY DEF observe
<1>2. seen \in SUBSET Milestones
  BY DEF Marks, Milestones, Evidences
<1>3. last \in StatusWords
  BY DEF LastRecorded, Evidences
<1>4. since \in 0 .. Minute
  BY ChainAssumption DEF Evidences
<1>5. changes \in 0 .. Budget
  BY ChainAssumption DEF Evidences
<1>6. exhausted \in BOOLEAN
  BY DEF Evidences
<1>7. records \in Nat
  BY DEF Evidences
<1> HIDE DEF seen, last, since, changes, exhausted, records
<1> QED
  BY <1>1, <1>2, <1>3, <1>4, <1>5, <1>6, <1>7 DEF Evidences

\* Projection only removes keys.
LEMMA Projected ==
    ASSUME NEW s \in Snapshots
    PROVE  LET t == projectToPrimarySurface(s)
           IN /\ t \in Snapshots
              /\ t.source = s.source /\ t.sn = s.sn /\ t.power = s.power /\ t.sampled = s.sampled
              /\ Learned => Ordinary(t.keys) \subseteq surface.keys
<1> DEFINE kept == {k \in s.keys : k \in Alerts \cup surface.keys}
<1>1. projectToPrimarySurface(s) = IF Learned THEN [s EXCEPT !.keys = kept] ELSE s
  BY DEF projectToPrimarySurface
<1>2. kept \in SUBSET Keys
  BY DEF Snapshots
<1>3. kept \ Alerts \subseteq surface.keys
  OBVIOUS
<1> HIDE DEF kept
<1> QED
  BY <1>1, <1>2, <1>3 DEF Snapshots, Ordinary

LEMMA ReturnedTypes ==
    ASSUME SessionOK, ChainOK, asked # 0, NEW s \in Snapshots, Returned(s) \/ TryNext
    PROVE  ChainOK'
<1>1. CASE TryNext
  <2>1. asked \in 1 .. 2 /\ Len(installation.order) = 2
    BY Orders
  <2>2. asked' \in 0 .. 2
    BY <1>1, <2>1 DEF TryNext
  <2> QED
    BY <1>1, <2>2 DEF TryNext, ChainOK
<1>2. CASE Accept(s)
  <2>1. accepted' \in Snapshots
    BY <1>2, Projected DEF Accept
  <2>2. [sn |-> s.sn, keys |-> s.keys] \in Surfaces
    BY DEF Snapshots, Surfaces
  <2>3. surface' \in Surfaces /\ first' \in Surfaces
    BY <1>2, <2>2 DEF Accept, rememberPrimarySurface, ChainOK
  <2>4. session.status \in StatusWords
    BY DEF SessionOK, Sessions
  <2>5. evidence' \in Evidences /\ logged' \in StatusWords
    BY <1>2, <2>4, ObserveTypes DEF Accept, ChainOK
  <2>6. asked' = 0 /\ installation' = installation
    BY <1>2 DEF Accept
  <2> QED
    BY <2>1, <2>3, <2>5, <2>6 DEF ChainOK
<1> QED
  BY <1>1, <1>2 DEF Returned

\* What a source returned is accepted as it is, but for the keys it loses.
LEMMA ReturnedIsGenuine ==
    ASSUME NEW s \in Snapshots, s.source = "modbus" => s.power = s.sampled,
           Returned(s) \/ TryNext, PowerIsReal
    PROVE  PowerIsReal'
<1>1. CASE Accept(s)
  <2>1. accepted'.source = s.source /\ accepted'.power = s.power /\ accepted'.sampled = s.sampled
    BY <1>1, Projected DEF Accept
  <2> QED
    BY <2>1 DEF PowerIsReal
<1>2. CASE TryNext
  BY <1>2 DEF TryNext, PowerIsReal
<1> QED
  BY <1>1, <1>2 DEF Returned

-----------------------------------------------------------------------------
LEMMA PowerInit == Init => Typed /\ SampledOK /\ PowerIsReal
<1> SUFFICES ASSUME Init PROVE Typed /\ SampledOK /\ PowerIsReal
  OBVIOUS
<1>1. SessionOK /\ SampledOK
  <2>1. session = NoSession /\ capabilities = FALSE /\ status \in Statuses
    BY DEF Init, ModbusInit
  <2>2. session \in Sessions /\ session.next = 0
    BY <2>1, NoSessionType
  <2>3. SampledOK
    BY <2>2 DEF SampledOK
  <2> QED
    BY <2>1, <2>2, <2>3 DEF SessionOK
<1>2. SolarmanOK
  BY CallTypes, SolarmanAssumption DEF Init, SolarmanInit, SolarmanOK
<1>3. evidence \in Evidences
  BY ChainAssumption DEF Init, NoEvidence, Evidences, StatusWords
<1>4. ChainOK
  BY <1>3, SnapshotTypes DEF Init, ChainOK, StatusWords
<1>5. PowerIsReal
  BY DEF Init, PowerIsReal, NoSnapshot
<1> QED
  BY <1>1, <1>2, <1>4, <1>5 DEF Typed

LEMMA PowerStep ==
    ASSUME Typed, SampledOK, PowerIsReal, [Next]_vars
    PROVE  Typed' /\ SampledOK' /\ PowerIsReal'
<1> USE DEF Typed
<1>1. CASE PollBegins
  <2>1. ChainOK'
    BY <1>1, SnapshotTypes DEF PollBegins, ChainOK
  <2>2. SessionOK' /\ SampledOK' /\ SolarmanOK'
    BY <1>1 DEF PollBegins, modbusVars, solarmanVars, SessionOK, SampledOK, SolarmanOK
  <2>3. PowerIsReal'
    BY <1>1 DEF PollBegins, PowerIsReal, NoSnapshot
  <2> QED
    BY <2>1, <2>2, <2>3
<1>2. CASE ModbusOpens \/ ModbusReads
  <2>1. SessionOK' /\ SampledOK'
    BY <1>2, EmptySession, ReadsKeepWords DEF ModbusOpens, ModbusReads
  <2> QED
    BY <1>2, <2>1 DEF ModbusOpens, ModbusReads, solarmanVars, chainVars, SolarmanOK, ChainOK, PowerIsReal
<1>3. CASE ModbusSucceeds
  <2>1. ModbusSnapshot \in Snapshots
    BY SnapshotTypes
  <2>2. session.next = 9
    BY <1>3, Plan DEF ModbusSucceeds, SessionOK, Sessions
  <2>3. ModbusSnapshot.power = ModbusSnapshot.sampled
    BY <2>2 DEF SampledOK, ModbusSnapshot
  <2>4. asked # 0 /\ Close /\ Returned(ModbusSnapshot)
    BY <1>3 DEF ModbusSucceeds, Asking
  <2>5. ChainOK' /\ PowerIsReal'
    BY <2>1, <2>3, <2>4, ReturnedTypes, ReturnedIsGenuine
  <2>6. SessionOK' /\ SampledOK'
    BY <2>4, EmptySession
  <2> QED
    BY <1>3, <2>5, <2>6 DEF ModbusSucceeds, solarmanVars, SolarmanOK
<1>4. CASE ModbusFails
  <2>1. NoSnapshot \in Snapshots /\ (NoSnapshot.source = "modbus" => NoSnapshot.power = NoSnapshot.sampled)
    BY SnapshotTypes DEF NoSnapshot
  <2>2. asked # 0 /\ Close /\ TryNext
    BY <1>4 DEF ModbusFails, Asking
  <2>3. ChainOK' /\ PowerIsReal'
    BY <2>1, <2>2, ReturnedTypes, ReturnedIsGenuine
  <2>4. SessionOK' /\ SampledOK'
    BY <2>2, EmptySession
  <2> QED
    BY <1>4, <2>3, <2>4 DEF ModbusFails, solarmanVars, SolarmanOK
<1>5. CASE SolarmanOpens \/ SolarmanRequests
  <2>1. SolarmanOK'
    BY <1>5, Orders, FetchTypes, WorkTypes DEF SolarmanOpens, SolarmanRequests
  <2> QED
    BY <1>5, <2>1 DEF SolarmanOpens, SolarmanRequests, modbusVars, chainVars, SessionOK, SampledOK,
       ChainOK, PowerIsReal
<1>6. CASE SolarmanSucceeds
  <2>1. PICK s \in SolarmanSnapshots : Returned(s)
    BY <1>6 DEF SolarmanSucceeds
  <2>2. s \in Snapshots /\ s.source = "solarman"
    BY SnapshotTypes DEF SolarmanSnapshots
  <2>3. asked # 0 /\ SolarmanReturns
    BY <1>6 DEF SolarmanSucceeds, Asking
  <2>4. ChainOK' /\ PowerIsReal'
    BY <2>1, <2>2, <2>3, ReturnedTypes, ReturnedIsGenuine
  <2>5. SolarmanOK'
    BY <2>3, Orders, FetchTypes
  <2> QED
    BY <1>6, <2>4, <2>5 DEF SolarmanSucceeds, modbusVars, SessionOK, SampledOK
<1>7. CASE SolarmanFails
  <2>1. NoSnapshot \in Snapshots /\ (NoSnapshot.source = "modbus" => NoSnapshot.power = NoSnapshot.sampled)
    BY SnapshotTypes DEF NoSnapshot
  <2>2. asked # 0 /\ SolarmanReturns /\ TryNext
    BY <1>7 DEF SolarmanFails, Asking
  <2>3. ChainOK' /\ PowerIsReal'
    BY <2>1, <2>2, ReturnedTypes, ReturnedIsGenuine
  <2>4. SolarmanOK'
    BY <2>2, Orders, FetchTypes
  <2> QED
    BY <1>7, <2>3, <2>4 DEF SolarmanFails, modbusVars, SessionOK, SampledOK
<1>8. CASE InverterMoves
  BY <1>8 DEF InverterMoves, InverterChanges, modbusVars, solarmanVars, chainVars, SessionOK, SampledOK,
     SolarmanOK, ChainOK, PowerIsReal
<1>9. CASE AccountMoves
  BY <1>9 DEF AccountMoves, AccountChanges, modbusVars, solarmanVars, chainVars, SessionOK, SampledOK,
     SolarmanOK, ChainOK, PowerIsReal
<1>10. CASE Tick
  <2>1. SolarmanOK'
    BY <1>10, AgeTypes DEF Tick
  <2>2. evidence' \in Evidences
    BY <1>10, ChainAssumption DEF Tick, ChainOK, Evidences
  <2>3. ChainOK' /\ PowerIsReal'
    BY <1>10, <2>2 DEF Tick, ChainOK, PowerIsReal
  <2> QED
    BY <1>10, <2>1, <2>3 DEF Tick, modbusVars, SessionOK, SampledOK
<1>11. CASE UNCHANGED vars
  BY <1>11 DEF vars, modbusVars, solarmanVars, chainVars, SessionOK, SampledOK,
     SolarmanOK, ChainOK, PowerIsReal
<1> QED
  BY <1>1, <1>2, <1>3, <1>4, <1>5, <1>6, <1>7, <1>8, <1>9, <1>10, <1>11 DEF Next, PollWorks

LEMMA TypedMeansTypeOK == Typed => TypeOK
<1> SUFFICES ASSUME Typed PROVE TypeOK
  OBVIOUS
<1>1. Len(fetchReadPlan) + 1 = 9
  BY DEF fetchReadPlan
<1> QED
  BY <1>1 DEF Typed, TypeOK, SessionOK, SolarmanOK, ChainOK, Sessions, Words, StatusWords, Calls, Steps,
     Todos, KnownOrNot, Surfaces, Snapshots, Evidences, Keys

\* A power that a Modbus snapshot reports was measured by the inverter, though
\* the decoders never see both of its words at the same moment, for every width
\* of a register.
THEOREM PowerCorrect == Spec => []PowerIsReal
<1>1. Init => Typed /\ SampledOK /\ PowerIsReal
  BY PowerInit
<1>2. Typed /\ SampledOK /\ PowerIsReal /\ [Next]_vars => (Typed /\ SampledOK /\ PowerIsReal)'
  BY PowerStep
<1> QED
  BY <1>1, <1>2, PTL DEF Spec

\* Every variable of the sources, the chain and the observer keeps its type.
THEOREM TypeCorrect == Spec => []TypeOK
<1>1. Init => Typed /\ SampledOK /\ PowerIsReal
  BY PowerInit
<1>2. Typed /\ SampledOK /\ PowerIsReal /\ [Next]_vars => (Typed /\ SampledOK /\ PowerIsReal)'
  BY PowerStep
<1>3. Typed => TypeOK
  BY TypedMeansTypeOK
<1> QED
  BY <1>1, <1>2, <1>3, PTL DEF Spec

-----------------------------------------------------------------------------
\* With projection the learned surface is that of the first source's last
\* snapshot, which outlives the polls in which the first source fails.
SurfaceOK == ChainOK /\ (installation.projects => surface = first) /\ SameInverter

LEMMA ReturnedFits ==
    ASSUME SurfaceOK, asked # 0, NEW s \in Snapshots, s.source = installation.order[asked],
           ChainOK', Returned(s) \/ TryNext
    PROVE  SurfaceOK'
<1>1. CASE TryNext
  BY <1>1 DEF TryNext, SurfaceOK, SameInverter
<1>2. CASE Accept(s)
  <2>1. installation' = installation
    BY <1>2 DEF Accept
  <2>2. asked \in 1 .. 2
    BY Orders DEF SurfaceOK
  <2>3. CASE asked = 1
    <3>1. installation.projects => surface' = first'
      BY <1>2, <2>3 DEF Accept, rememberPrimarySurface
    <3>2. accepted'.source = installation.order[1]
      BY <1>2, <2>3 DEF Accept
    <3> QED
      BY <2>1, <3>1, <3>2 DEF SurfaceOK, SameInverter
  <2>4. CASE asked = 2
    <3>1. surface' = surface /\ first' = first
      BY <1>2, <2>4 DEF Accept
    <3>2. SUFFICES ASSUME installation.projects, first # NoSurface
                   PROVE  accepted'.sn = first.sn /\ Ordinary(accepted'.keys) \subseteq first.keys
      BY <2>1, <3>1 DEF SurfaceOK, SameInverter
    <3>3. Learned /\ surface = first
      BY <3>2 DEF SurfaceOK, Learned
    <3>4. accepted' = projectToPrimarySurface(s) /\ Fits(s)
      BY <1>2, <2>4, <3>2 DEF Accept
    <3>5. s.sn = surface.sn
      BY <2>4, <3>2, <3>3, <3>4 DEF Fits, fallbackDeviceConflictsWithPrimary
    <3> QED
      BY <3>3, <3>4, <3>5, Projected
  <2> QED
    BY <2>2, <2>3, <2>4
<1> QED
  BY <1>1, <1>2 DEF Returned

LEMMA SurfaceStep ==
    ASSUME Typed, SurfaceOK, ChainOK', [Next]_vars
    PROVE  SurfaceOK'
<1>1. CASE PollBegins
  BY <1>1 DEF PollBegins, SurfaceOK, SameInverter, NoSnapshot
<1>2. CASE ModbusSucceeds
  <2>1. ModbusSnapshot \in Snapshots /\ ModbusSnapshot.source = "modbus"
    BY SnapshotTypes DEF Typed, ModbusSnapshot
  <2> QED
    BY <1>2, <2>1, ReturnedFits DEF ModbusSucceeds, Asking
<1>3. CASE ModbusFails \/ SolarmanFails
  BY <1>3 DEF ModbusFails, SolarmanFails, TryNext, SurfaceOK, SameInverter
<1>4. CASE SolarmanSucceeds
  <2>1. PICK s \in SolarmanSnapshots : Returned(s)
    BY <1>4 DEF SolarmanSucceeds
  <2>2. s \in Snapshots /\ s.source = "solarman"
    BY SnapshotTypes DEF Typed, SolarmanSnapshots
  <2> QED
    BY <1>4, <2>1, <2>2, ReturnedFits DEF SolarmanSucceeds, Asking
<1>5. CASE ModbusOpens \/ ModbusReads \/ SolarmanOpens \/ SolarmanRequests \/ InverterMoves \/ AccountMoves
  BY <1>5 DEF ModbusOpens, ModbusReads, SolarmanOpens, SolarmanRequests, InverterMoves, AccountMoves,
     chainVars, SurfaceOK, SameInverter
<1>6. CASE Tick
  BY <1>6 DEF Tick, SurfaceOK, SameInverter
<1>7. CASE UNCHANGED vars
  BY <1>7 DEF vars, chainVars, SurfaceOK, SameInverter
<1> QED
  BY <1>1, <1>2, <1>3, <1>4, <1>5, <1>6, <1>7 DEF Next, PollWorks

\* Once the first source has answered, a fallback that is projected speaks of
\* its inverter and adds no ordinary metric to what it reported, for every set
\* of inverters and installations.
THEOREM InverterCorrect == Spec => []SameInverter
<1>1. Init => Typed /\ SampledOK /\ PowerIsReal
  BY PowerInit
<1>2. Typed /\ SampledOK /\ PowerIsReal /\ [Next]_vars => (Typed /\ SampledOK /\ PowerIsReal)'
  BY PowerStep
<1>3. Init => SurfaceOK
  BY <1>1 DEF Init, SurfaceOK, SameInverter, Typed
<1>4. SurfaceOK /\ Typed /\ Typed' /\ [Next]_vars => SurfaceOK'
  BY SurfaceStep DEF Typed
<1>5. SurfaceOK => SameInverter
  BY DEF SurfaceOK
<1> QED
  BY <1>1, <1>2, <1>3, <1>4, <1>5, PTL DEF Spec

-----------------------------------------------------------------------------
\* Every record is paid for by a milestone or by a unit of the budget: the
\* record that announces the end of the budget is the one that spends its last.
EvidenceOK ==
    /\ evidence \in Evidences
    /\ evidence.changes >= Budget => evidence.exhausted
    /\ evidence.records <= Cardinality(evidence.seen) + evidence.changes

LEMMA MilestonesCount ==
    /\ Cardinality(Milestones) = 3
    /\ \A T \in SUBSET Milestones : IsFiniteSet(T) /\ Cardinality(T) \in 0 .. 3
    /\ \A T \in SUBSET Milestones : \A m \in Milestones \ T : Cardinality(T \cup {m}) = Cardinality(T) + 1
    /\ \A T, U \in SUBSET Milestones : T \subseteq U => Cardinality(T) <= Cardinality(U)
<1>1. IsFiniteSet({"first"}) /\ Cardinality({"first"}) = 1
  BY FS_Singleton
<1>2. IsFiniteSet({"first"} \cup {"nonzero"}) /\ Cardinality({"first"} \cup {"nonzero"}) = 2
  BY <1>1, FS_AddElement
<1>3. /\ IsFiniteSet(({"first"} \cup {"nonzero"}) \cup {"nonzero_non_ffff"})
      /\ Cardinality(({"first"} \cup {"nonzero"}) \cup {"nonzero_non_ffff"}) = 3
  BY <1>2, FS_AddElement
<1>4. ({"first"} \cup {"nonzero"}) \cup {"nonzero_non_ffff"} = Milestones
  BY DEF Milestones
<1>5. IsFiniteSet(Milestones) /\ Cardinality(Milestones) = 3
  BY <1>3, <1>4
<1>6. ASSUME NEW T \in SUBSET Milestones
      PROVE  IsFiniteSet(T) /\ Cardinality(T) \in 0 .. 3
  <2>1. IsFiniteSet(T) /\ Cardinality(T) <= 3
    BY <1>5, FS_Subset
  <2>2. Cardinality(T) \in Nat
    BY <2>1, FS_CardinalityType
  <2> QED
    BY <2>1, <2>2
<1>7. ASSUME NEW T \in SUBSET Milestones, NEW m \in Milestones \ T
      PROVE  Cardinality(T \cup {m}) = Cardinality(T) + 1
  BY <1>6, FS_AddElement
<1>8. ASSUME NEW T \in SUBSET Milestones, NEW U \in SUBSET Milestones, T \subseteq U
      PROVE  Cardinality(T) <= Cardinality(U)
  <2>1. T \in SUBSET U
    BY <1>8
  <2> QED
    BY <1>6, <2>1, FS_Subset
<1> QED
  BY <1>5, <1>6, <1>7, <1>8

LEMMA ObserveKeepsCount ==
    ASSUME EvidenceOK, NEW s \in StatusWords, NEW w
    PROVE  LET o == observe(s, w)
           IN /\ o.changes >= Budget => o.exhausted
              /\ o.records <= Cardinality(o.seen) + o.changes
<1> DEFINE e == evidence
           fresh == Marks(w) \ e.seen
           changed == e.last # "none" /\ s # e.last
           counted == changed /\ e.changes < Budget /\ e.since >= Minute
           changes == IF counted THEN e.changes + 1 ELSE e.changes
           announced == changed /\ changes >= Budget /\ ~e.exhausted
           recorded == fresh # {} \/ counted \/ announced
           seen == e.seen \cup fresh
           exhausted == e.exhausted \/ announced
           records == IF recorded THEN e.records + 1 ELSE e.records
           o == observe(s, w)
<1>1. o.seen = seen /\ o.changes = changes /\ o.exhausted = exhausted /\ o.records = records
  BY DEF observe
<1>2. /\ e.changes \in Nat /\ e.records \in Nat /\ Budget \in Nat /\ e.exhausted \in BOOLEAN
      /\ e.seen \in SUBSET Milestones
  BY ChainAssumption DEF EvidenceOK, Evidences
<1>3. fresh \subseteq Milestones /\ seen \in SUBSET Milestones /\ e.seen \subseteq seen
  BY <1>2 DEF Marks, Milestones
<1>4. changes >= Budget => exhausted
  BY <1>2 DEF EvidenceOK
<1>5. Cardinality(seen) \in Nat /\ Cardinality(e.seen) \in Nat /\ Cardinality(e.seen) <= Cardinality(seen)
  BY <1>2, <1>3, MilestonesCount
<1>6. ASSUME fresh # {} PROVE Cardinality(e.seen) + 1 <= Cardinality(seen)
  <2>1. PICK m \in fresh : TRUE
    BY <1>6
  <2>2. Cardinality(e.seen \cup {m}) = Cardinality(e.seen) + 1
    BY <1>2, <1>3, MilestonesCount
  <2>3. e.seen \cup {m} \in SUBSET Milestones /\ e.seen \cup {m} \subseteq seen
    BY <1>2, <1>3
  <2>4. Cardinality(e.seen \cup {m}) <= Cardinality(seen)
    BY <1>3, <2>3, MilestonesCount
  <2> QED
    BY <2>2, <2>4
<1>7. announced => counted
  BY <1>2 DEF EvidenceOK
<1>8. e.records <= Cardinality(e.seen) + e.changes
  BY DEF EvidenceOK
<1>9. records <= Cardinality(seen) + changes
  <2>1. CASE counted
    <3>1. changes = e.changes + 1 /\ records = e.records + 1
      BY <2>1
    <3> HIDE DEF counted, changes, records, seen
    <3> QED
      BY <1>2, <1>5, <1>8, <3>1
  <2>2. CASE ~counted /\ fresh # {}
    <3>1. changes = e.changes /\ records = e.records + 1
      BY <2>2
    <3>2. Cardinality(e.seen) + 1 <= Cardinality(seen)
      BY <1>6, <2>2
    <3> HIDE DEF changes, records, seen
    <3> QED
      BY <1>2, <1>5, <1>8, <3>1, <3>2
  <2>3. CASE ~counted /\ fresh = {}
    <3>1. changes = e.changes /\ records = e.records
      BY <1>7, <2>3
    <3> HIDE DEF changes, records, seen
    <3> QED
      BY <1>2, <1>5, <1>8, <3>1
  <2> QED
    BY <2>1, <2>2, <2>3
<1> QED
  BY <1>1, <1>4, <1>9

LEMMA EvidenceStep ==
    ASSUME Typed, Typed', EvidenceOK, [Next]_vars
    PROVE  EvidenceOK'
<1>0. evidence' \in Evidences /\ session.status \in StatusWords
  BY DEF Typed, ChainOK, SessionOK, Sessions
<1>1. CASE evidence' = evidence
  BY <1>1 DEF EvidenceOK
<1>2. ASSUME NEW s, Accept(s)
      PROVE  EvidenceOK'
  <2>1. evidence' = evidence \/ evidence' = observe(session.status, session.bms)
    BY <1>2 DEF Accept
  <2> QED
    BY <1>0, <1>1, <2>1, ObserveKeepsCount DEF EvidenceOK
<1>3. ASSUME NEW s, Returned(s)
      PROVE  EvidenceOK'
  BY <1>1, <1>2, <1>3 DEF Returned, TryNext
<1>4. CASE Tick
  <2>1. /\ evidence'.changes = evidence.changes /\ evidence'.exhausted = evidence.exhausted
        /\ evidence'.records = evidence.records /\ evidence'.seen = evidence.seen
    BY <1>4 DEF Tick, EvidenceOK, Evidences
  <2> QED
    BY <1>0, <2>1 DEF EvidenceOK
<1>5. CASE PollWorks
  BY <1>1, <1>3, <1>5 DEF PollWorks, ModbusOpens, ModbusReads, ModbusSucceeds, ModbusFails, SolarmanOpens,
     SolarmanRequests, SolarmanSucceeds, SolarmanFails, TryNext, chainVars
<1>6. CASE PollBegins \/ InverterMoves \/ AccountMoves \/ UNCHANGED vars
  BY <1>1, <1>6 DEF PollBegins, InverterMoves, AccountMoves, vars, chainVars
<1> QED
  BY <1>4, <1>5, <1>6 DEF Next

\* However long the inverter is observed, the evidence log holds at most one
\* record for each milestone and one for each unit of the budget, for every
\* budget and every rate.
THEOREM EvidenceCorrect == Spec => []EvidenceIsBounded
<1>1. Init => Typed /\ SampledOK /\ PowerIsReal
  BY PowerInit
<1>2. Typed /\ SampledOK /\ PowerIsReal /\ [Next]_vars => (Typed /\ SampledOK /\ PowerIsReal)'
  BY PowerStep
<1>3. Init => EvidenceOK
  <2>1. Init => evidence \in Evidences
    BY <1>1 DEF Typed, ChainOK
  <2>2. Cardinality({}) = 0
    BY FS_EmptySet
  <2> QED
    BY <2>1, <2>2, ChainAssumption DEF Init, NoEvidence, EvidenceOK
<1>4. EvidenceOK /\ Typed /\ Typed' /\ [Next]_vars => EvidenceOK'
  BY EvidenceStep
<1>5. EvidenceOK => EvidenceIsBounded
  <2> SUFFICES ASSUME EvidenceOK PROVE EvidenceIsBounded
    OBVIOUS
  <2>1. /\ evidence.changes \in 0 .. Budget /\ evidence.records \in Nat /\ Budget \in Nat
        /\ evidence.seen \in SUBSET Milestones
    BY ChainAssumption DEF EvidenceOK, Evidences
  <2>2. Cardinality(evidence.seen) \in 0 .. 3 /\ Cardinality(Milestones) = 3
    BY <2>1, MilestonesCount
  <2> QED
    BY <2>1, <2>2 DEF EvidenceOK, EvidenceIsBounded
<1> QED
  BY <1>1, <1>2, <1>3, <1>4, <1>5, PTL DEF Spec

-----------------------------------------------------------------------------
\* The observer compares with what it recorded last, and with nothing only
\* while it has recorded nothing.
LoggedOK ==
    /\ evidence.last = logged
    /\ logged = "none" => evidence.seen = {}

\* One observation: it is recorded, or the words are the recorded ones, or the
\* rate or the budget forbids it.
LEMMA ObserveLogs ==
    ASSUME EvidenceOK, LoggedOK, NEW s \in Statuses, NEW w
    PROVE  LET o == observe(s, w)
           IN /\ o.records = evidence.records \/ o.records = evidence.records + 1
              /\ o.records # evidence.records => o.last = s
              /\ o.records = evidence.records => o.last = evidence.last /\ evidence.last # "none"
              /\ o.last = s \/ evidence.since < Minute \/ o.exhausted
              /\ s # "none"
<1> DEFINE e == evidence
           fresh == Marks(w) \ e.seen
           changed == e.last # "none" /\ s # e.last
           counted == changed /\ e.changes < Budget /\ e.since >= Minute
           changes == IF counted THEN e.changes + 1 ELSE e.changes
           announced == changed /\ changes >= Budget /\ ~e.exhausted
           recorded == fresh # {} \/ counted \/ announced
           exhausted == e.exhausted \/ announced
           records == IF recorded THEN e.records + 1 ELSE e.records
           o == observe(s, w)
<1>1. o.last = LastRecorded(recorded, s) /\ o.exhausted = exhausted /\ o.records = records
  BY DEF observe
<1>2. /\ e.changes \in Nat /\ e.records \in Nat /\ Budget \in Nat /\ e.exhausted \in BOOLEAN
      /\ e.since \in Nat /\ Minute \in Nat
      /\ (e.changes >= Budget => e.exhausted)
  BY ChainAssumption DEF EvidenceOK, Evidences
<1>3. e.last = "none" => fresh # {}
  BY DEF LoggedOK, Marks
<1>4. s # "none"
  BY StatusesAssumption
<1>5. records = (IF recorded THEN e.records + 1 ELSE e.records)
  OBVIOUS
<1>6. LastRecorded(recorded, s) = (IF recorded THEN s ELSE e.last)
  BY DEF LastRecorded
<1>7. recorded \/ s = e.last \/ e.since < Minute \/ exhausted
  BY <1>2, <1>3
<1>8. ~recorded => e.last # "none"
  BY <1>3
<1> HIDE DEF recorded, records, exhausted, o, e
<1>9. CASE recorded
  BY <1>1, <1>2, <1>4, <1>5, <1>6, <1>9 DEF o, e
<1>10. CASE ~recorded
  BY <1>1, <1>2, <1>4, <1>5, <1>6, <1>7, <1>8, <1>10 DEF o, e
<1> QED
  BY <1>9, <1>10

\* A session that is complete has read the status words.
StatusRead == session.next = 9 => session.status \in Statuses

LEMMA StatusReadStep ==
    ASSUME Typed, StatusRead, [Next]_vars
    PROVE  StatusRead'
<1>0. /\ session.next \in 0 .. 9 /\ session \in Sessions /\ status \in Statuses
  BY DEF Typed, SessionOK, Sessions
<1>1. CASE session' = session
  BY <1>1 DEF StatusRead
<1>2. CASE Opens \/ Close
  <2>1. session'.next # 9
    <3>1. CASE Opens
      <4>1. PICK n \in {1, 4} : session' = [NoSession EXCEPT !.next = n]
        BY <3>1 DEF Opens
      <4>2. session'.next = n
        BY <4>1 DEF NoSession
      <4> QED
        BY <4>1, <4>2
    <3>2. CASE Close
      BY <3>2, NoSessionType DEF Close
    <3> QED
      BY <1>2, <3>1, <3>2
  <2> QED
    BY <2>1 DEF StatusRead
<1>3. CASE ReadStatus
  BY <1>0, <1>3 DEF ReadStatus, StatusRead, Sessions
<1>4. CASE ReadGate \/ ReadMode \/ ReadLow \/ ReadHigh \/ ReadBms
  <2>1. session.next \in 1 .. 7
    <3>1. \/ session.next \in 1 .. 3
          \/ Reading("mode") \/ Reading("low") \/ Reading("high") \/ Reading("bms")
      BY <1>4 DEF ReadGate, Gates, ReadMode, ReadLow, ReadHigh, ReadBms
    <3> QED
      BY <1>0, <3>1, Plan
  <2>2. session'.next = session.next + 1
    BY <1>0, <1>4 DEF ReadGate, ReadMode, ReadLow, ReadHigh, ReadBms, Sessions
  <2> QED
    BY <2>1, <2>2 DEF StatusRead
<1> QED
  BY <1>1, <1>2, <1>3, <1>4 DEF Next, PollBegins, PollWorks, ModbusOpens, ModbusReads, ReadApproved,
     ModbusSucceeds, ModbusFails, SolarmanOpens, SolarmanRequests, SolarmanSucceeds, SolarmanFails,
     InverterMoves, InverterChanges, AccountMoves, Tick, vars, modbusVars

\* An observer belongs to a chain that asks Modbus first.
LEMMA ObservedIsFirst ==
    ASSUME Typed, installation.observes, Asking("modbus")
    PROVE  asked = 1
<1>1. installation \in Installations /\ asked \in 0 .. 2 /\ asked # 0 /\ installation.order[asked] = "modbus"
  BY DEF Typed, ChainOK, Asking
<1>2. installation.order[1] = "modbus"
  BY <1>1, ChainAssumption
<1>3. installation.order \in {<<"modbus", "solarman">>, <<"solarman", "modbus">>}
  BY Orders DEF Typed
<1>4. installation.order = <<"modbus", "solarman">>
  BY <1>2, <1>3
<1>5. installation.order[2] = "solarman"
  BY <1>4
<1> QED
  BY <1>1, <1>5

LEMMA LoggedStep ==
    ASSUME Typed, EvidenceOK, LoggedOK, StatusRead, [Next]_vars
    PROVE  /\ LoggedOK'
           /\ ModbusSucceeds /\ installation.observes
                  => logged' = session.status \/ evidence.since < Minute \/ evidence'.exhausted
<1>0. /\ evidence \in Evidences /\ asked \in 0 .. 2
  BY DEF Typed, ChainOK
<1>1. CASE evidence' = evidence /\ logged' = logged /\ ~(ModbusSucceeds /\ installation.observes)
  BY <1>1 DEF LoggedOK
<1>2. CASE ModbusSucceeds /\ installation.observes
  <2>1. asked = 1
    BY <1>2, ObservedIsFirst DEF ModbusSucceeds
  <2>2. Accept(ModbusSnapshot)
    BY <1>2, <2>1 DEF ModbusSucceeds, Returned, Fits
  <2> DEFINE o == observe(session.status, session.bms)
  <2>3. /\ evidence' = o
        /\ logged' = (IF o.records # evidence.records THEN session.status ELSE logged)
    BY <1>2, <2>1, <2>2 DEF Accept
  <2>4. session.status \in Statuses
    <3>1. session.next = 9
      BY <1>2, Plan DEF ModbusSucceeds, Typed, SessionOK, Sessions
    <3> QED
      BY <3>1 DEF StatusRead
  <2>5. /\ o.records # evidence.records => o.last = session.status
        /\ o.records = evidence.records => o.last = evidence.last /\ evidence.last # "none"
        /\ o.last = session.status \/ evidence.since < Minute \/ o.exhausted
        /\ session.status # "none"
    BY <2>4, ObserveLogs
  <2> HIDE DEF o
  <2>6. evidence'.last = logged' /\ logged' # "none"
    BY <2>3, <2>5 DEF LoggedOK
  <2> QED
    BY <2>3, <2>5, <2>6 DEF LoggedOK
<1>3. CASE ModbusSucceeds /\ ~installation.observes
  BY <1>1, <1>3 DEF ModbusSucceeds, Returned, Accept, TryNext
<1>4. CASE SolarmanSucceeds
  <2>1. PICK s \in SolarmanSnapshots : Returned(s)
    BY <1>4 DEF SolarmanSucceeds
  <2>2. ~(asked = 1 /\ installation.observes)
    BY <1>4, ChainAssumption DEF SolarmanSucceeds, Asking, Typed, ChainOK
  <2>3. evidence' = evidence /\ logged' = logged
    BY <2>1, <2>2 DEF Returned, Accept, TryNext
  <2>4. ~Asking("modbus")
    BY <1>4 DEF SolarmanSucceeds, Asking
  <2> QED
    BY <1>1, <2>3, <2>4 DEF ModbusSucceeds
<1>5. CASE Tick
  <2>1. evidence'.last = evidence.last /\ evidence'.seen = evidence.seen /\ logged' = logged
    BY <1>0, <1>5 DEF Tick, Evidences
  <2>2. asked' = asked
    BY <1>5 DEF Tick
  <2>3. ~ModbusSucceeds
    <3>1. ModbusSucceeds => session.next = 9 /\ session' = NoSession
      BY Plan DEF ModbusSucceeds, Close, Typed, SessionOK, Sessions
    <3>2. session' = session
      BY <1>5 DEF Tick, modbusVars
    <3> QED
      BY <3>1, <3>2, NoSessionType
  <2> QED
    BY <2>1, <2>3 DEF LoggedOK
<1>6. CASE ModbusOpens \/ ModbusReads \/ ModbusFails \/ SolarmanOpens \/ SolarmanRequests \/ SolarmanFails
           \/ PollBegins \/ InverterMoves \/ AccountMoves \/ UNCHANGED vars
  <2>1. evidence' = evidence /\ logged' = logged
    BY <1>6 DEF ModbusOpens, ModbusReads, ModbusFails, SolarmanOpens, SolarmanRequests, SolarmanFails,
       TryNext, PollBegins, InverterMoves, AccountMoves, vars, chainVars
  <2> QED
    BY <1>1, <1>2, <2>1
<1> QED
  BY <1>2, <1>3, <1>4, <1>5, <1>6 DEF Next, PollWorks

\* The evidence log holds the words of the last observed snapshot, but for what
\* the rate or the budget keeps out, for every budget and every rate.
THEOREM DriftCorrect == Spec => DriftIsRecorded
<1> DEFINE Inv == Typed /\ SampledOK /\ PowerIsReal
<1>1. Init => Inv
  BY PowerInit
<1>2. Inv /\ [Next]_vars => Inv'
  BY PowerStep
<1>3. Init => EvidenceOK
  <2>1. Init => evidence \in Evidences
    BY <1>1 DEF Typed, ChainOK
  <2>2. Cardinality({}) = 0
    BY FS_EmptySet
  <2> QED
    BY <2>1, <2>2, ChainAssumption DEF Init, NoEvidence, EvidenceOK
<1>4. Inv /\ Inv' /\ EvidenceOK /\ [Next]_vars => EvidenceOK'
  BY EvidenceStep
<1>5. Init => LoggedOK /\ StatusRead
  BY NoSessionType DEF Init, NoEvidence, LoggedOK, ModbusInit, StatusRead
<1>6. Inv /\ StatusRead /\ [Next]_vars => StatusRead'
  BY StatusReadStep
<1>7. Inv /\ EvidenceOK /\ LoggedOK /\ StatusRead /\ [Next]_vars => LoggedOK'
  BY LoggedStep
<1>8. Inv /\ EvidenceOK /\ LoggedOK /\ StatusRead /\ [Next]_vars
        => [ModbusSucceeds /\ installation.observes
                => logged' = session.status \/ evidence.since < Minute \/ evidence'.exhausted]_vars
  BY LoggedStep
<1> HIDE DEF Inv
<1> QED
  BY <1>1, <1>2, <1>3, <1>4, <1>5, <1>6, <1>7, <1>8, PTL DEF Spec, DriftIsRecorded

-----------------------------------------------------------------------------
\* The way to the end of a poll.  A request is under way exactly when the fetch
\* knows what it still has to ask for.
TodoOK(c) ==
    /\ c.step \in {"ensure", "queue", "sent"} => c.todo # <<>>
    /\ c.step \in {"idle", "resolve", "lookup"} => c.todo = <<>>

LEMMA TodoLengths ==
    /\ \A t \in Todos : t # <<>> => Len(t) \in 1 .. 3
    /\ \A t \in Todos : Len(t) > 1 => Tail(t) \in Todos \ {<<>>} /\ Len(Tail(t)) = Len(t) - 1
<1>1. Len(<<>>) = 0 /\ Len(<<"current">>) = 1
  OBVIOUS
<1>2. /\ Len(<<"devices", "current">>) = 2
      /\ Tail(<<"devices", "current">>) = <<"current">>
  OBVIOUS
<1>3. /\ Len(<<"stations", "devices", "current">>) = 3
      /\ Tail(<<"stations", "devices", "current">>) = <<"devices", "current">>
  OBVIOUS
<1>4. <<"current">> # <<>> /\ <<"devices", "current">> # <<>>
  OBVIOUS
<1> QED
  BY <1>1, <1>2, <1>3, <1>4 DEF Todos

\* The steps that are left to a request, by where it is: those of the requests
\* that follow it and of a renewal, and its own.
Later(c) == 13 * (Len(c.todo) - 1) + (IF c.renewed THEN 0 ELSE 6)

LEMMA LaterIs ==
    ASSUME NEW c, NEW n \in 1 .. 3, Len(c.todo) = n, c.renewed \in BOOLEAN
    PROVE  /\ Later(c) \in 0 .. 32
           /\ c.renewed => Later(c) = 13 * n - 13
           /\ ~c.renewed => Later(c) = 13 * n - 7
<1>1. 13 * (n - 1) = 13 * n - 13
  OBVIOUS
<1>2. Later(c) = 13 * (n - 1) + (IF c.renewed THEN 0 ELSE 6)
  BY DEF Later
<1>3. CASE c.renewed
  BY <1>1, <1>2, <1>3
<1>4. CASE ~c.renewed
  BY <1>1, <1>2, <1>4
<1> QED
  BY <1>3, <1>4

LEMMA StepsLeft ==
    ASSUME NEW c \in Calls, TodoOK(c)
    PROVE  /\ c.step = "idle" => SolarmanLeft(c) = 44
           /\ c.step = "resolve" => SolarmanLeft(c) = 43
           /\ c.step = "lookup" => SolarmanLeft(c) = 40
           /\ c.todo = <<>> /\ c.step = "queue_token" => SolarmanLeft(c) = 42
           /\ c.todo = <<>> /\ c.step = "sent_token" => SolarmanLeft(c) = 41
           /\ c.todo # <<>> =>
                  /\ Later(c) \in 0 .. 32
                  /\ c.step = "ensure" => SolarmanLeft(c) = Later(c) + 7
                  /\ c.step = "queue_token" => SolarmanLeft(c) = Later(c) + 6
                  /\ c.step = "sent_token" => SolarmanLeft(c) = Later(c) + 5
                  /\ c.step = "queue" => SolarmanLeft(c) = Later(c) + 6 - 2 * c.attempt
                  /\ c.step = "sent" => SolarmanLeft(c) = Later(c) + 5 - 2 * c.attempt
           /\ SolarmanLeft(c) \in 1 .. 44
<1>0. /\ c.step \in Steps /\ c.todo \in Todos /\ c.attempt \in 1 .. 2 /\ c.renewed \in BOOLEAN
  BY CallTypes DEF Calls
<1>1. CASE c.todo = <<>>
  <2>1. c.step \in {"idle", "resolve", "lookup", "queue_token", "sent_token"}
    BY <1>0, <1>1 DEF TodoOK, Steps
  <2>2. SolarmanLeft(c) = Discovering[c.step]
    BY <1>1 DEF SolarmanLeft
  <2>3. /\ Discovering["idle"] = 44 /\ Discovering["resolve"] = 43 /\ Discovering["lookup"] = 40
        /\ Discovering["queue_token"] = 42 /\ Discovering["sent_token"] = 41
    BY DEF Discovering
  <2>4. SolarmanLeft(c) \in 1 .. 44
    BY <2>1, <2>2, <2>3
  <2> QED
    BY <1>1, <2>2, <2>3, <2>4
<1>2. CASE c.todo # <<>>
  <2>1. c.step \in {"ensure", "queue", "sent", "queue_token", "sent_token"}
    BY <1>0, <1>2 DEF TodoOK, Steps
  <2>2. SolarmanLeft(c) = Later(c) + Trying(c)[c.step]
    BY <1>2 DEF SolarmanLeft, Later
  <2>3. /\ Trying(c)["ensure"] = 7 /\ Trying(c)["queue_token"] = 6 /\ Trying(c)["sent_token"] = 5
        /\ Trying(c)["queue"] = 6 - 2 * c.attempt /\ Trying(c)["sent"] = 5 - 2 * c.attempt
    BY DEF Trying
  <2>4. Later(c) \in 0 .. 32
    <3>1. PICK n \in 1 .. 3 : Len(c.todo) = n
      BY <1>0, <1>2, TodoLengths
    <3> QED
      BY <1>0, <3>1, LaterIs
  <2>5. CASE c.step \in {"ensure", "queue_token", "sent_token"}
    <3>1. /\ c.step = "ensure" => SolarmanLeft(c) = Later(c) + 7
          /\ c.step = "queue_token" => SolarmanLeft(c) = Later(c) + 6
          /\ c.step = "sent_token" => SolarmanLeft(c) = Later(c) + 5
      BY <2>2, <2>3
    <3>2. SolarmanLeft(c) \in 1 .. 44
      BY <2>4, <2>5, <3>1
    <3> QED
      BY <1>2, <2>4, <2>5, <3>1, <3>2
  <2>6. CASE c.step = "queue"
    <3>1. SolarmanLeft(c) = Later(c) + 6 - 2 * c.attempt
      BY <1>0, <2>2, <2>3, <2>4, <2>6
    <3>2. SolarmanLeft(c) \in 1 .. 44
      BY <1>0, <2>4, <3>1
    <3> QED
      BY <1>2, <2>4, <2>6, <3>1, <3>2
  <2>7. CASE c.step = "sent"
    <3>1. SolarmanLeft(c) = Later(c) + 5 - 2 * c.attempt
      BY <1>0, <2>2, <2>3, <2>4, <2>7
    <3>2. SolarmanLeft(c) \in 1 .. 44
      BY <1>0, <2>4, <3>1
    <3> QED
      BY <1>2, <2>4, <2>7, <3>1, <3>2
  <2> QED
    BY <2>1, <2>5, <2>6, <2>7
<1> QED
  BY <1>1, <1>2

\* A request brings the end of its fetch nearer, a retry and a renewal too.
LEMMA SolarmanDescends ==
    ASSUME SolarmanOK, TodoOK(call), NEW stationed \in BOOLEAN, SolarmanWorks(stationed)
    PROVE  TodoOK(call') /\ SolarmanLeft(call') < SolarmanLeft(call)
<1>0. /\ call \in Calls /\ call' \in Calls /\ transientRequestAttempts = 2
      /\ call.step \in Steps /\ call.todo \in Todos /\ call.attempt \in 1 .. 2 /\ call.renewed \in BOOLEAN
  BY CallTypes, WorkTypes DEF SolarmanOK, Calls
<1>1. SolarmanLeft(call) \in 1 .. 44
  BY <1>0, StepsLeft
<1>2. CASE resolveDeviceSN
  <2>1. /\ call.step = "resolve" /\ call.todo = <<>> /\ call'.todo = <<>>
        /\ call'.step \in {"lookup", "queue_token"}
    BY <1>0, <1>2 DEF resolveDeviceSN, At, Goto, TodoOK, Calls
  <2>2. TodoOK(call')
    BY <2>1 DEF TodoOK
  <2> QED
    BY <1>0, <2>1, <2>2, StepsLeft
<1>3. CASE LookUp(stationed)
  <2>1. /\ call.step = "lookup" /\ call'.step = "ensure"
        /\ call'.todo \in {<<"current">>, <<"devices", "current">>, <<"stations", "devices", "current">>}
    BY <1>0, <1>3 DEF LookUp, Discovery, At, Calls
  <2>2. call'.todo # <<>>
    BY <2>1
  <2>3. TodoOK(call')
    BY <2>1, <2>2 DEF TodoOK
  <2>4. SolarmanLeft(call) = 40 /\ SolarmanLeft(call') = Later(call') + 7 /\ Later(call') \in 0 .. 32
    BY <1>0, <2>1, <2>2, <2>3, StepsLeft
  <2> QED
    BY <2>3, <2>4
<1>4. CASE ensureToken
  <2>1. /\ call.step = "ensure" /\ call.todo # <<>> /\ call'.todo = call.todo
        /\ call'.renewed = call.renewed /\ call'.attempt = call.attempt
        /\ call'.step \in {"queue", "queue_token"}
    BY <1>0, <1>4 DEF ensureToken, At, Goto, TodoOK, Calls
  <2>2. TodoOK(call') /\ Later(call') = Later(call)
    BY <2>1 DEF TodoOK, Later
  <2>3. SolarmanLeft(call) = Later(call) + 7 /\ Later(call) \in 0 .. 32
    BY <1>0, <2>1, StepsLeft
  <2>4. call'.step = "queue" => SolarmanLeft(call') = Later(call) + 6 - 2 * call.attempt
    BY <1>0, <2>1, <2>2, StepsLeft
  <2>5. call'.step = "queue_token" => SolarmanLeft(call') = Later(call) + 6
    BY <1>0, <2>1, <2>2, StepsLeft
  <2>6. CASE call'.step = "queue"
    BY <1>0, <2>2, <2>3, <2>4, <2>6
  <2>7. CASE call'.step = "queue_token"
    BY <2>2, <2>3, <2>5, <2>7
  <2> QED
    BY <2>1, <2>6, <2>7
<1>5. CASE waitForRequestBudget
  <2>1. /\ call'.todo = call.todo /\ call'.renewed = call.renewed /\ call'.attempt = call.attempt
        /\ \/ call.step = "queue" /\ call'.step = "sent"
           \/ call.step = "queue_token" /\ call'.step = "sent_token"
    BY <1>0, <1>5 DEF waitForRequestBudget, At, Goto, Calls
  <2>2. TodoOK(call') /\ Later(call') = Later(call)
    BY <2>1 DEF TodoOK, Later
  <2>3. CASE call.todo = <<>>
    <3>1. call.step = "queue_token" /\ call'.step = "sent_token"
      BY <2>1, <2>3 DEF TodoOK
    <3> QED
      BY <1>0, <2>1, <2>2, <2>3, <3>1, StepsLeft
  <2>4. CASE call.todo # <<>> /\ call.step = "queue"
    <3>1. SolarmanLeft(call) = Later(call) + 6 - 2 * call.attempt /\ Later(call) \in 0 .. 32
      BY <1>0, <2>4, StepsLeft
    <3>2. SolarmanLeft(call') = Later(call) + 5 - 2 * call.attempt
      BY <1>0, <2>1, <2>2, <2>4, StepsLeft
    <3> QED
      BY <1>0, <2>2, <3>1, <3>2
  <2>5. CASE call.todo # <<>> /\ call.step = "queue_token"
    <3>1. SolarmanLeft(call) = Later(call) + 6 /\ Later(call) \in 0 .. 32
      BY <1>0, <2>5, StepsLeft
    <3>2. SolarmanLeft(call') = Later(call) + 5
      BY <1>0, <2>1, <2>2, <2>5, StepsLeft
    <3> QED
      BY <2>2, <3>1, <3>2
  <2> QED
    BY <2>1, <2>3, <2>4, <2>5
<1>6. CASE TokenObtained
  <2>1. /\ call.step = "sent_token" /\ call'.todo = call.todo /\ call'.renewed = call.renewed
        /\ call'.attempt = 1 /\ call'.step = (IF call.todo = <<>> THEN "lookup" ELSE "queue")
    BY <1>0, <1>6 DEF TokenObtained, At, Calls
  <2>2. TodoOK(call') /\ Later(call') = Later(call)
    BY <2>1 DEF TodoOK, Later
  <2>3. CASE call.todo = <<>>
    BY <1>0, <2>1, <2>2, <2>3, StepsLeft
  <2>4. CASE call.todo # <<>>
    <3>1. SolarmanLeft(call) = Later(call) + 5 /\ Later(call) \in 0 .. 32
      BY <1>0, <2>1, <2>4, StepsLeft
    <3>2. SolarmanLeft(call') = Later(call) + 6 - 2 * 1
      BY <1>0, <2>1, <2>2, <2>4, StepsLeft
    <3> QED
      BY <2>2, <3>1, <3>2
  <2> QED
    BY <2>3, <2>4
<1>7. CASE Answered
  <2>1. /\ call.step = "sent" /\ Len(call.todo) > 1 /\ call.todo # <<>>
        /\ call'.step = "ensure" /\ call'.todo = Tail(call.todo) /\ call'.renewed = FALSE
    BY <1>0, <1>7 DEF Answered, At, TodoOK, Calls
  <2>2. call'.todo # <<>> /\ Len(call'.todo) = Len(call.todo) - 1 /\ Len(call.todo) \in 1 .. 3
    BY <1>0, <2>1, TodoLengths
  <2>3. TodoOK(call')
    BY <2>1, <2>2 DEF TodoOK
  <2>9. PICK n \in 1 .. 3 : Len(call.todo) = n
    BY <2>2
  <2>4. n > 1 /\ Len(call'.todo) = n - 1 /\ Len(call.todo) = n
    BY <2>1, <2>2, <2>9
  <2>5. n \in 1 .. 3 /\ n - 1 \in 1 .. 3
    BY <2>4
  <2>6. SolarmanLeft(call') = Later(call') + 7 /\ Later(call') = 13 * (n - 1) - 7
    BY <1>0, <2>1, <2>2, <2>3, <2>4, <2>5, StepsLeft, LaterIs
  <2>7. SolarmanLeft(call) = Later(call) + 5 - 2 * call.attempt
    BY <1>0, <2>1, StepsLeft
  <2>8. Later(call) \in {13 * n - 13, 13 * n - 7}
    BY <1>0, <2>4, <2>5, LaterIs
  <2> QED
    BY <1>0, <2>3, <2>6, <2>7, <2>8
<1>8. CASE Unauthorized
  <2>1. /\ call.step = "sent" /\ call.renewed = FALSE /\ call.todo # <<>>
        /\ call'.step = "queue_token" /\ call'.todo = call.todo /\ call'.renewed = TRUE
    BY <1>0, <1>8 DEF Unauthorized, At, TodoOK, Calls
  <2>2. TodoOK(call')
    BY <2>1 DEF TodoOK
  <2>3. PICK n \in 1 .. 3 : Len(call.todo) = n
    BY <1>0, <2>1, TodoLengths
  <2>4. Later(call) = 13 * n - 7 /\ Later(call') = 13 * n - 13
    BY <2>1, <2>3, LaterIs
  <2>5. SolarmanLeft(call) = Later(call) + 5 - 2 * call.attempt
    BY <1>0, <2>1, StepsLeft
  <2>6. SolarmanLeft(call') = Later(call') + 6
    BY <1>0, <2>1, <2>2, StepsLeft
  <2> QED
    BY <1>0, <2>2, <2>4, <2>5, <2>6
<1>9. CASE TransientFailure
  <2>1. /\ call.step = "sent" /\ call.attempt = 1 /\ call.todo # <<>>
        /\ call'.step = "queue" /\ call'.todo = call.todo /\ call'.renewed = call.renewed
        /\ call'.attempt = 2
    BY <1>0, <1>9 DEF TransientFailure, At, TodoOK, Calls
  <2>2. TodoOK(call') /\ Later(call') = Later(call)
    BY <2>1 DEF TodoOK, Later
  <2>3. SolarmanLeft(call) = Later(call) + 5 - 2 * 1 /\ Later(call) \in 0 .. 32
    BY <1>0, <2>1, StepsLeft
  <2>4. SolarmanLeft(call') = Later(call) + 6 - 2 * 2
    BY <1>0, <2>1, <2>2, StepsLeft
  <2> QED
    BY <2>2, <2>3, <2>4
<1> QED
  BY <1>2, <1>3, <1>4, <1>5, <1>6, <1>7, <1>8, <1>9 DEF SolarmanWorks

LEMMA FetchDescends ==
    ASSUME SolarmanOK, NEW configured \in KnownOrNot, SolarmanFetch(configured)
    PROVE  TodoOK(call') /\ SolarmanLeft(call') < SolarmanLeft(call)
<1>1. call.step = "idle" /\ call.todo = <<>> /\ call \in Calls /\ call' \in Calls
  BY FetchTypes DEF SolarmanFetch, NoCall, SolarmanOK
<1>2. SolarmanLeft(call) = 44
  BY <1>1, StepsLeft DEF TodoOK
<1>3. CASE configured = "unknown"
  <2>1. call'.step = "resolve" /\ call'.todo = <<>>
    BY <1>3 DEF SolarmanFetch, NoCall
  <2>2. TodoOK(call')
    BY <2>1 DEF TodoOK
  <2> QED
    BY <1>1, <1>2, <2>1, <2>2, StepsLeft
<1>4. CASE configured # "unknown"
  <2>1. call'.step = "ensure" /\ call'.todo = <<"current">>
    BY <1>4 DEF SolarmanFetch, NoCall
  <2>2. TodoOK(call') /\ call'.todo # <<>>
    BY <2>1 DEF TodoOK
  <2>3. Later(call') \in 0 .. 32 /\ SolarmanLeft(call') = Later(call') + 7
    BY <1>1, <2>1, <2>2, StepsLeft
  <2>4. SolarmanLeft(call') < 44
    BY <2>3
  <2> QED
    BY <1>2, <2>2, <2>4
<1> QED
  BY <1>3, <1>4

\* A session brings the end of its plan nearer.
LEMMA ModbusDescends ==
    ASSUME SessionOK, Opens \/ ReadApproved
    PROVE  ModbusLeft' < ModbusLeft
<1>0. session.next \in 0 .. 9 /\ session \in Sessions /\ Len(fetchReadPlan) = 8
  BY DEF SessionOK, Sessions, fetchReadPlan
<1>1. ModbusLeft = 10 - session.next
  BY <1>0 DEF ModbusLeft
<1>2. session'.next \in Int => ModbusLeft' = 10 - session'.next
  BY <1>0 DEF ModbusLeft
<1>3. CASE Opens
  <2>1. session.next = 0 /\ (session'.next = 4 \/ session'.next = 1)
    BY <1>3, NoSessionType DEF Opens
  <2> QED
    BY <1>1, <1>2, <2>1
<1>4. CASE ReadApproved
  <2>1. session'.next = session.next + 1
    BY <1>0, <1>4 DEF ReadApproved, ReadGate, ReadMode, ReadLow, ReadHigh, ReadBms, ReadStatus, Sessions
  <2> QED
    BY <1>0, <1>1, <1>2, <2>1
<1> QED
  BY <1>3, <1>4

\* What is left of a poll, source by source.
LEMMA PollSpan ==
    ASSUME Typed, TodoOK(call)
    PROVE  /\ ModbusLeft \in 1 .. 10 /\ SolarmanLeft(call) \in 1 .. 44
           /\ asked = 0 => PollLeft = 0
           /\ asked = 1 => PollLeft \in 47 .. 90
           /\ asked = 2 => PollLeft \in 2 .. 45
<1>1. ModbusLeft \in 1 .. 10
  BY DEF ModbusLeft, Typed, SessionOK, Sessions, fetchReadPlan
<1>2. SolarmanLeft(call) \in 1 .. 44
  BY StepsLeft DEF Typed, SolarmanOK
<1>3. Len(installation.order) = 2
  BY Orders DEF Typed
<1>4. ASSUME asked \in 1 .. 2
      PROVE  \E n \in 1 .. 44 : PollLeft = 1 + 45 * (2 - asked) + n
  <2>1. CASE Asking("modbus")
    BY <1>1, <1>3, <1>4, <2>1 DEF PollLeft
  <2>2. CASE ~Asking("modbus")
    BY <1>2, <1>3, <1>4, <2>2 DEF PollLeft
  <2> QED
    BY <2>1, <2>2
<1>5. asked = 1 => PollLeft \in 47 .. 90
  BY <1>4
<1>6. asked = 2 => PollLeft \in 2 .. 45
  BY <1>4
<1>7. asked = 0 => PollLeft = 0
  BY DEF PollLeft
<1> QED
  BY <1>1, <1>2, <1>5, <1>6, <1>7

LEMMA SpanNext ==
    ASSUME Typed', TodoOK(call')
    PROVE  /\ PollLeft' \in 0 .. 90
           /\ asked' = 0 => PollLeft' = 0
           /\ asked' = 2 => PollLeft' \in 2 .. 45
<1>1. ModbusLeft' \in 1 .. 10
  BY DEF ModbusLeft, Typed, SessionOK, Sessions, fetchReadPlan
<1>2. SolarmanLeft(call') \in 1 .. 44
  BY StepsLeft DEF Typed, SolarmanOK
<1>3. Len(installation'.order) = 2
  <2>1. installation'.order \in {<<"modbus", "solarman">>, <<"solarman", "modbus">>}
    BY ChainAssumption DEF Typed, ChainOK
  <2>2. Len(<<"modbus", "solarman">>) = 2 /\ Len(<<"solarman", "modbus">>) = 2
    OBVIOUS
  <2> QED
    BY <2>1, <2>2
<1>4. asked' \in 0 .. 2
  BY DEF Typed, ChainOK
<1>5. ASSUME asked' \in 1 .. 2
      PROVE  \E n \in 1 .. 44 : PollLeft' = 1 + 45 * (2 - asked') + n
  <2>1. CASE Asking("modbus")'
    <3>1. PollLeft' = 1 + 45 * (2 - asked') + ModbusLeft'
      BY <1>3, <1>5, <2>1 DEF PollLeft
    <3> QED
      BY <1>1, <3>1
  <2>2. CASE ~Asking("modbus")'
    BY <1>2, <1>3, <1>5, <2>2 DEF PollLeft
  <2> QED
    BY <2>1, <2>2
<1>6. asked' = 1 => PollLeft' \in 47 .. 90
  BY <1>5
<1>7. asked' = 2 => PollLeft' \in 2 .. 45
  BY <1>5
<1>8. asked' = 0 => PollLeft' = 0
  BY DEF PollLeft
<1> QED
  BY <1>4, <1>6, <1>7, <1>8

\* The end of the poll or the next source is nearer than any step of this one.
LEMMA ReturnsDescend ==
    ASSUME Typed, TodoOK(call), Typed', TodoOK(call'), asked # 0,
           TryNext \/ \E s : Returned(s)
    PROVE  PollLeft' < PollLeft
<1>1. asked \in 1 .. 2 /\ Len(installation.order) = 2
  BY Orders DEF Typed
<1>2. asked' = 0 \/ (asked = 1 /\ asked' = 2)
  BY <1>1 DEF TryNext, Returned, Accept
<1>3. /\ asked = 1 => PollLeft \in 47 .. 90
      /\ asked = 2 => PollLeft \in 2 .. 45
  BY PollSpan
<1>4. /\ asked' = 0 => PollLeft' = 0
      /\ asked' = 2 => PollLeft' \in 2 .. 45
  BY SpanNext
<1> QED
  BY <1>1, <1>2, <1>3, <1>4

LEMMA PollDescends ==
    ASSUME Typed, TodoOK(call), Typed', PollWorks
    PROVE  TodoOK(call') /\ PollLeft' < PollLeft
<1>1. CASE ModbusOpens \/ ModbusReads
  <2>1. /\ Asking("modbus") /\ Asking("modbus")' /\ call' = call
        /\ asked' = asked /\ installation' = installation
    BY <1>1 DEF ModbusOpens, ModbusReads, solarmanVars, chainVars, Asking
  <2>2. asked \in 1 .. 2 /\ Len(installation.order) = 2
    BY <2>1, Orders DEF Typed, Asking
  <2>3. ModbusLeft' < ModbusLeft
    BY <1>1, ModbusDescends DEF ModbusOpens, ModbusReads, Typed
  <2>4. ModbusLeft \in Int /\ ModbusLeft' \in Int
    BY DEF ModbusLeft, Typed, SessionOK, Sessions, fetchReadPlan
  <2>5. PICK k \in Int : PollLeft = k + ModbusLeft /\ PollLeft' = k + ModbusLeft'
    <3>1. PollLeft = 1 + 45 * (2 - asked) + ModbusLeft /\ PollLeft' = 1 + 45 * (2 - asked) + ModbusLeft'
      BY <2>1, <2>2 DEF PollLeft
    <3>2. 1 + 45 * (2 - asked) \in Int
      BY <2>2
    <3> QED
      BY <3>1, <3>2
  <2>7. PICK m \in Int, n \in Int : m = ModbusLeft /\ n = ModbusLeft' /\ n < m
    BY <2>3, <2>4
  <2>8. PollLeft = k + m /\ PollLeft' = k + n
    BY <2>5, <2>7
  <2>6. PollLeft' < PollLeft
    <3>1. \A i, j, l \in Int : i < j => l + i < l + j
      OBVIOUS
    <3>2. k \in Int /\ m \in Int /\ n \in Int /\ n < m
      BY <2>5, <2>7
    <3> QED
      BY <2>8, <3>1, <3>2
  <2> QED
    BY <2>1, <2>6
<1>2. CASE SolarmanOpens \/ SolarmanRequests
  <2>1. /\ Asking("solarman") /\ Asking("solarman")'
        /\ asked' = asked /\ installation' = installation
    BY <1>2 DEF SolarmanOpens, SolarmanRequests, chainVars, Asking
  <2>2. /\ asked \in 1 .. 2 /\ Len(installation.order) = 2
        /\ installation.configured \in KnownOrNot /\ installation.stationed \in BOOLEAN
    BY <2>1, Orders DEF Typed, Asking
  <2>3. ~Asking("modbus") /\ ~Asking("modbus")'
    BY <2>1 DEF Asking
  <2>4. TodoOK(call') /\ SolarmanLeft(call') < SolarmanLeft(call)
    BY <1>2, <2>2, FetchDescends, SolarmanDescends DEF SolarmanOpens, SolarmanRequests, Typed
  <2>5. SolarmanLeft(call) \in 1 .. 44 /\ SolarmanLeft(call') \in 1 .. 44
    <3>1. call \in Calls /\ call' \in Calls
      BY DEF Typed, SolarmanOK
    <3> QED
      BY <2>4, <3>1, StepsLeft
  <2>6. /\ PollLeft = 1 + 45 * (2 - asked) + SolarmanLeft(call)
        /\ PollLeft' = 1 + 45 * (2 - asked) + SolarmanLeft(call')
    BY <2>1, <2>2, <2>3 DEF PollLeft
  <2> QED
    BY <2>2, <2>4, <2>5, <2>6
<1>3. CASE ModbusSucceeds \/ ModbusFails
  <2>1. call' = call /\ asked # 0 /\ (TryNext \/ \E s : Returned(s))
    BY <1>3 DEF ModbusSucceeds, ModbusFails, solarmanVars, Asking
  <2> QED
    BY <2>1, ReturnsDescend
<1>4. CASE SolarmanSucceeds \/ SolarmanFails
  <2>1. call' = NoCall /\ asked # 0 /\ (TryNext \/ \E s : Returned(s))
    BY <1>4 DEF SolarmanSucceeds, SolarmanFails, SolarmanReturns, Asking
  <2>2. TodoOK(call')
    BY <2>1 DEF TodoOK, NoCall
  <2> QED
    BY <2>1, <2>2, ReturnsDescend
<1> QED
  BY <1>1, <1>2, <1>3, <1>4 DEF PollWorks

\* What is not a step of the poll moves its end neither nearer nor away.
LEMMA PollWaits ==
    ASSUME TodoOK(call), asked # 0, [Next]_vars, ~PollWorks
    PROVE  TodoOK(call') /\ PollLeft' = PollLeft
<1>1. ~PollBegins
  BY DEF PollBegins
<1>2. session' = session /\ call' = call /\ asked' = asked /\ installation' = installation
  BY <1>1 DEF Next, InverterMoves, InverterChanges, AccountMoves, AccountChanges, Tick, SolarmanAges,
     vars, modbusVars, solarmanVars, chainVars
<1> QED
  BY <1>2 DEF PollLeft, Asking, ModbusLeft

LEMMA TodoStep ==
    ASSUME Typed, TodoOK(call), Typed', [Next]_vars
    PROVE  TodoOK(call')
<1>1. CASE PollBegins
  BY <1>1 DEF PollBegins, solarmanVars
<1>2. CASE PollWorks
  BY <1>2, PollDescends
<1>3. CASE InverterMoves \/ AccountMoves \/ Tick \/ UNCHANGED vars
  <2>1. call' = call
    BY <1>3 DEF InverterMoves, AccountMoves, AccountChanges, Tick, SolarmanAges, vars, solarmanVars
  <2> QED
    BY <2>1
<1> QED
  BY <1>1, <1>2, <1>3 DEF Next

LEMMA PollStep ==
    ASSUME Typed, TodoOK(call), Typed', [Next]_vars
    PROVE  /\ PollLeft \in 0 .. Longest
           /\ PollWorks => PollLeft' < PollLeft
           /\ asked # 0 => PollLeft' <= PollLeft
<1>1. asked \in 0 .. 2
  BY DEF Typed, ChainOK
<1>2. PollLeft \in 0 .. Longest
  BY <1>1, PollSpan DEF Longest
<1>3. CASE PollWorks
  <2>1. TodoOK(call') /\ PollLeft' < PollLeft
    BY <1>3, PollDescends
  <2>2. PollLeft' <= PollLeft
    BY <1>2, <2>1, SpanNext DEF Longest
  <2> QED
    BY <1>2, <2>1, <2>2
<1>4. CASE ~PollWorks
  BY <1>2, <1>4, PollWaits DEF Longest
<1> QED
  BY <1>2, <1>3, <1>4

\* Every step of a poll brings its end nearer, and nothing but the next poll
\* moves it away: no 401, no transient failure, no renewed token and no change
\* of the inverter or the account makes a poll go on for ever, for every
\* lifetime of a token, every interval of the quota and every chain.
THEOREM PollCorrect == Spec => PollIsBounded
<1> DEFINE Inv == Typed /\ SampledOK /\ PowerIsReal
           Within == TodoOK(call)
<1>1. Init => Inv
  BY PowerInit
<1>2. Inv /\ [Next]_vars => Inv'
  BY PowerStep
<1>3. Init => Within
  BY DEF Init, SolarmanInit, NoCall, TodoOK
<1>4. Inv /\ Inv' /\ Within /\ [Next]_vars => Within'
  BY TodoStep
<1>5. Inv /\ Inv' /\ Within /\ [Next]_vars
        => [/\ PollLeft \in 0 .. Longest
            /\ PollWorks => PollLeft' < PollLeft
            /\ asked # 0 => PollLeft' <= PollLeft]_vars
  BY PollStep
<1> HIDE DEF Inv, Within
<1> QED
  BY <1>1, <1>2, <1>3, <1>4, <1>5, PTL DEF Spec, PollIsBounded
=============================================================================
