----------------------------- MODULE SourceChain -----------------------------
(***************************************************************************)
(* One poll of the inverter: Priority asks the local Modbus client and the *)
(* Solarman client in the configured order, learns the surface of the      *)
(* first source, refuses or projects what a later one answers, and lets    *)
(* the validation observer see what it accepts.                            *)
(***************************************************************************)
EXTENDS ModbusSession, SolarmanClient, FiniteSets

CONSTANTS
    ModbusSN,       \* the configured serial of the inverter on the local bus
    Budget,         \* status changes recorded per process: 64 in the program
    Minute,         \* ticks between two recorded changes
    Installations   \* the configurations to consider

\* Modbus reports its configured serial, a mixed chain must configure one.
\* The observer is enabled only with Modbus in the first place.
ASSUME ChainAssumption ==
    /\ ModbusSN \in Serials
    /\ Budget \in Nat \ {0}
    /\ Minute \in Nat
    /\ Installations \subseteq
           [order : {<<"modbus", "solarman">>, <<"solarman", "modbus">>},
            projects : BOOLEAN, observes : BOOLEAN, configured : Serials \cup {"unknown"},
            stationed : BOOLEAN]
    /\ \A i \in Installations : i.observes => i.order[1] = "modbus"

VARIABLES
    installation,
    asked,      \* position of the source being asked; 0 between two polls
    surface,    \* primarySurface
    accepted,   \* the snapshot of the poll, NoSnapshot while there is none
    evidence,   \* the validation observer
    first,      \* history: the last snapshot of the first source
    logged      \* history: the status words of the last record

chainVars == <<installation, asked, surface, accepted, evidence, first, logged>>
vars == <<modbusVars, status, account, solarmanVars, chainVars>>

\* Keys of metrics: one that both sources report, one that is a source's own,
\* and source-local alert words.
ModbusKeys == {"shared", "local", "words"}
SolarmanKeys == {"shared", "cloud", "alarm"}
Alerts == {"words", "alarm"}
Ordinary(keys) == keys \ Alerts

NoSnapshot == [source |-> "none", sn |-> "unknown", keys |-> {}, power |-> 0, sampled |-> 0]
NoSurface == [sn |-> "unknown", keys |-> {}]

ModbusSnapshot ==
    [source |-> "modbus", sn |-> ModbusSN, keys |-> ModbusKeys,
     power |-> session.power, sampled |-> session.sampled]

\* A snapshot has at least one metric.
SolarmanSnapshots ==
    [source : {"solarman"}, sn : {call.sn}, keys : SUBSET SolarmanKeys \ {{}},
     power : {0}, sampled : {0}]

-----------------------------------------------------------------------------
\* The observer: milestones of a raw word, once each, and changes of the status
\* words within a budget and a rate.
Marks(w) == {"first"} \cup (IF w = "zero" THEN {} ELSE {"nonzero"})
                      \cup (IF w = "other" THEN {"nonzero_non_ffff"} ELSE {})
Milestones == {"first", "nonzero", "nonzero_non_ffff"}

NoEvidence == [seen |-> {}, last |-> "none", since |-> 0, changes |-> 0, exhausted |-> FALSE, records |-> 0]

\* Wrong variant of LastRecorded: remembers what was merely seen.
LastRecorded_Seen(recorded, s) == s

LastRecorded(recorded, s) == IF recorded THEN s ELSE evidence.last

\* The status is compared with the one that was recorded last.
observe(s, w) ==
    LET e == evidence
        fresh == Marks(w) \ e.seen
        changed == e.last # "none" /\ s # e.last
        counted == changed /\ e.changes < Budget /\ e.since >= Minute
        changes == IF counted THEN e.changes + 1 ELSE e.changes
        announced == changed /\ changes >= Budget /\ ~e.exhausted
        recorded == fresh # {} \/ counted \/ announced
    IN [seen |-> e.seen \cup fresh,
        last |-> LastRecorded(recorded, s),
        since |-> IF counted \/ (recorded /\ e.last = "none") THEN 0 ELSE e.since,
        changes |-> changes,
        exhausted |-> e.exhausted \/ announced,
        records |-> IF recorded THEN e.records + 1 ELSE e.records]

-----------------------------------------------------------------------------
Init ==
    /\ ModbusInit
    /\ SolarmanInit
    /\ installation \in Installations
    /\ asked = 0
    /\ surface = NoSurface
    /\ accepted = NoSnapshot
    /\ evidence = NoEvidence
    /\ first = NoSurface
    /\ logged = "none"

Asking(name) == asked # 0 /\ installation.order[asked] = name
Learned == surface # NoSurface

\* Fetch begins with the first source.
PollBegins ==
    /\ asked = 0
    /\ asked' = 1
    /\ accepted' = NoSnapshot
    /\ UNCHANGED <<installation, surface, evidence, first, logged>>
    /\ UNCHANGED <<modbusVars, status, account, solarmanVars>>

rememberPrimarySurface(s) == surface' = [sn |-> s.sn, keys |-> s.keys]

\* Wrong variant of fallbackDeviceConflictsWithPrimary: nothing conflicts.
fallbackDeviceConflictsWithPrimary_Never(s) == FALSE

\* A fallback that knows its inverter must name the one that was learned.
fallbackDeviceConflictsWithPrimary(s) == Learned /\ s.sn # surface.sn

projectToPrimarySurface(s) ==
    IF Learned THEN [s EXCEPT !.keys = {k \in @ : k \in Alerts \cup surface.keys}] ELSE s

hasOrdinaryTelemetry(s) == Ordinary(s.keys) # {}

\* The first source is believed; a later one has to fit what was learned.
Fits(s) ==
    installation.projects /\ asked > 1 =>
        /\ ~fallbackDeviceConflictsWithPrimary(s)
        /\ Learned => hasOrdinaryTelemetry(projectToPrimarySurface(s))

Accept(s) ==
    /\ Fits(s)
    /\ accepted' = IF installation.projects /\ asked > 1 THEN projectToPrimarySurface(s) ELSE s
    /\ IF installation.projects /\ asked = 1 THEN rememberPrimarySurface(s) ELSE UNCHANGED surface
    /\ first' = IF asked = 1 THEN [sn |-> s.sn, keys |-> s.keys] ELSE first
    /\ evidence' = IF installation.observes /\ asked = 1
                   THEN observe(session.status, session.bms) ELSE evidence
    /\ logged' = IF evidence'.records # evidence.records THEN session.status ELSE logged
    /\ asked' = 0
    /\ UNCHANGED installation

\* The next source is asked, after the last one the poll has failed.
TryNext ==
    /\ asked' = IF asked = Len(installation.order) THEN 0 ELSE asked + 1
    /\ UNCHANGED <<installation, surface, accepted, evidence, first, logged>>

Returned(s) == Accept(s) \/ (~Fits(s) /\ TryNext)

-----------------------------------------------------------------------------
ModbusOpens ==
    /\ Asking("modbus") /\ Opens
    /\ UNCHANGED <<account, solarmanVars, chainVars>>

ModbusReads ==
    /\ Asking("modbus") /\ ReadApproved
    /\ UNCHANGED <<account, solarmanVars, chainVars>>

ModbusSucceeds ==
    /\ Asking("modbus") /\ Complete /\ Close
    /\ Returned(ModbusSnapshot)
    /\ UNCHANGED <<account, solarmanVars>>

\* A fetch may fail at every point, and has nothing to show for it.
ModbusFails ==
    /\ Asking("modbus") /\ Close
    /\ TryNext
    /\ UNCHANGED <<account, solarmanVars>>

SolarmanOpens ==
    /\ Asking("solarman") /\ SolarmanFetch(installation.configured)
    /\ UNCHANGED <<modbusVars, status, chainVars>>

SolarmanRequests ==
    /\ Asking("solarman") /\ SolarmanWorks(installation.stationed)
    /\ UNCHANGED <<modbusVars, status, chainVars>>

SolarmanSucceeds ==
    /\ Asking("solarman") /\ CurrentData /\ SolarmanReturns
    /\ \E s \in SolarmanSnapshots : Returned(s)
    /\ UNCHANGED <<modbusVars, status>>

SolarmanFails ==
    /\ Asking("solarman") /\ SolarmanRefused /\ SolarmanReturns
    /\ TryNext
    /\ UNCHANGED <<modbusVars, status>>

PollWorks ==
    \/ ModbusOpens \/ ModbusReads \/ ModbusSucceeds \/ ModbusFails
    \/ SolarmanOpens \/ SolarmanRequests \/ SolarmanSucceeds \/ SolarmanFails

InverterMoves == InverterChanges /\ UNCHANGED <<account, solarmanVars, chainVars>>
AccountMoves == AccountChanges /\ UNCHANGED <<modbusVars, status, chainVars>>

Tick ==
    /\ SolarmanAges
    /\ evidence' = [evidence EXCEPT !.since = IF @ < Minute THEN @ + 1 ELSE @]
    /\ UNCHANGED <<installation, asked, surface, accepted, first, logged, modbusVars, status>>

Next == PollBegins \/ PollWorks \/ InverterMoves \/ AccountMoves \/ Tick

Spec == Init /\ [][Next]_vars

\* Dialling, reading and waiting for an answer have deadlines, and time passes.
Fairness == WF_vars(PollWorks) /\ WF_vars(Tick)
FairSpec == Spec /\ Fairness

-----------------------------------------------------------------------------
TypeOK ==
    /\ capabilities \in BOOLEAN
    /\ session \in [next : 0 .. Len(fetchReadPlan) + 1, low : 0 .. Range16 - 1, sampled : Powers,
                    power : Powers, bms : BmsWords, status : Statuses \cup {"none"}]
    /\ status \in Statuses
    /\ account \in Serials
    /\ token \in 0 .. Lifetime
    /\ sinceSent \in 0 .. Interval
    /\ found \in [sn : Serials \cup {"unknown"}, age : 0 .. Refresh]
    /\ call \in [step : {"idle", "resolve", "lookup", "ensure", "queue", "sent", "queue_token", "sent_token"},
                 todo : {<<>>, <<"current">>, <<"devices", "current">>, <<"stations", "devices", "current">>},
                 attempt : 1 .. transientRequestAttempts, renewed : BOOLEAN,
                 sn : Serials \cup {"unknown"}]
    /\ installation \in Installations
    /\ asked \in 0 .. 2
    /\ surface \in [sn : Serials \cup {"unknown"}, keys : SUBSET (ModbusKeys \cup SolarmanKeys)]
    /\ first \in [sn : Serials \cup {"unknown"}, keys : SUBSET (ModbusKeys \cup SolarmanKeys)]
    /\ accepted \in [source : {"none", "modbus", "solarman"}, sn : Serials \cup {"unknown"},
                     keys : SUBSET (ModbusKeys \cup SolarmanKeys), power : Powers, sampled : Powers]
    /\ logged \in Statuses \cup {"none"}
    /\ evidence \in [seen : SUBSET Milestones, last : Statuses \cup {"none"}, since : 0 .. Minute,
                     changes : 0 .. Budget, exhausted : BOOLEAN, records : Nat]

\* A power in a Modbus snapshot is one that the inverter measured, although its
\* two words come from two reads and the power may change its sign in between.
PowerIsReal == accepted.source = "modbus" => accepted.power = accepted.sampled

\* With projection, and once the first source has answered, a fallback speaks
\* of the same inverter and adds no ordinary metric to it, whatever the first
\* source, the account or the discovery did since.
SameInverter ==
    installation.projects /\ first # NoSurface /\ accepted.source \notin {"none", installation.order[1]}
        => accepted.sn = first.sn /\ Ordinary(accepted.keys) \subseteq first.keys

\* The observer records no more than its milestones and its budget.
EvidenceIsBounded == evidence.records <= Cardinality(Milestones) + Budget

\* A change of the status words that came too soon after another is recorded
\* later if it lasts, unless the budget is spent.
SettledChangeIsRecorded ==
    \A s \in Statuses :
        installation.observes /\ <>[](status = s) /\ []<><<ModbusSucceeds>>_vars
            => <>[](logged = s \/ evidence.exhausted)

\* The log does not fall behind: after every observed snapshot its last record
\* holds the status words of that snapshot, unless the change came within the
\* rate or after the budget, however many snapshots went unrecorded before.
DriftIsRecorded ==
    [][ModbusSucceeds /\ installation.observes
           => logged' = session.status \/ evidence.since < Minute \/ evidence'.exhausted]_vars

\* The way to the end of a poll, counted in the steps it takes at most: the
\* discovery that a fetch may begin with, and for each of its requests a token,
\* a transmission and a retry, twice if a 401 renews the token in between.
Discovering == [idle |-> 44, resolve |-> 43, queue_token |-> 42, sent_token |-> 41, lookup |-> 40]
Trying(c) ==
    [ensure |-> 7, queue_token |-> 6, sent_token |-> 5, queue |-> 6 - 2 * c.attempt, sent |-> 5 - 2 * c.attempt]

SolarmanLeft(c) ==
    IF c.todo = <<>> THEN Discovering[c.step]
    ELSE 13 * (Len(c.todo) - 1) + (IF c.renewed THEN 0 ELSE 6) + Trying(c)[c.step]

ModbusLeft == Len(fetchReadPlan) + 2 - session.next

Longest == 90
PollLeft ==
    IF asked = 0 THEN 0
    ELSE 1 + 45 * (Len(installation.order) - asked)
           + (IF Asking("modbus") THEN ModbusLeft ELSE SolarmanLeft(call))

\* A poll is bounded by its own rules, whatever the inverter, the account and
\* the clock do: every step of it brings its end nearer and nothing else but
\* the next poll moves the end away, so that at most Longest of its steps are
\* ever between its begin and its end.
PollIsBounded ==
    [][/\ PollLeft \in 0 .. Longest
       /\ PollWorks => PollLeft' < PollLeft
       /\ asked # 0 => PollLeft' <= PollLeft]_vars

\* A poll ends: no 401, transient failure or quota holds it for ever.
PollEnds == asked # 0 ~> asked = 0
=============================================================================
