-------------------------- MODULE PollAlertsProofs --------------------------
(***************************************************************************)
(* PollAlerts, for any sources, installations, observers and times: type   *)
(* correctness, the observers are told what the state says, no reservation *)
(* of a mail leaks or is shared, and, where QUIT does not fail, the mails  *)
(* keep their cooldown and the active conditions are those that trouble    *)
(* the inverter.                                                           *)
(***************************************************************************)
EXTENDS PollAlerts, SequenceTheorems, TLAPS

USE PollAlertsAssumption DEF PollAlertsAssumption

Tasks == RuleNames \cup ObserverNames \cup {"silence"}

-----------------------------------------------------------------------------
(* What a poll still has to do                                             *)

\* The tasks left in w, and: the rules come before every other task.
Left(w) == {w[i] : i \in 1 .. Len(w)}
RulesFirst(w) ==
    \A i, j \in 1 .. Len(w) : i < j /\ w[j] \in RuleNames => w[i] \in RuleNames

LEMMA NamesOfRules == RuleNames = {"alarm", "grid", "soc", "temperature"} /\ Rules \in Seq(RuleNames)
<1>1. Len(Rules) = 4 /\ DOMAIN Rules = 1 .. 4
  BY DEF Rules
<1>2. Rules[1] = "alarm" /\ Rules[2] = "grid" /\ Rules[3] = "soc" /\ Rules[4] = "temperature"
  BY DEF Rules
<1>3. RuleNames = {"alarm", "grid", "soc", "temperature"}
  BY <1>1, <1>2 DEF RuleNames
<1>4. QED
  BY <1>3 DEF Rules

LEMMA TailLeft ==
    ASSUME NEW w \in Seq(Tasks), w # <<>>
    PROVE  /\ Tail(w) \in Seq(Tasks)
           /\ Head(w) \in Left(w)
           /\ Left(w) = Left(Tail(w)) \cup {Head(w)}
           /\ RulesFirst(w) => RulesFirst(Tail(w))
           /\ RulesFirst(w) /\ Head(w) \notin RuleNames => Left(w) \cap RuleNames = {}
<1>1. /\ Tail(w) \in Seq(Tasks) /\ Len(Tail(w)) = Len(w) - 1 /\ Len(w) \in Nat \ {0}
      /\ \A i \in 1 .. Len(Tail(w)) : Tail(w)[i] = w[i + 1]
  BY HeadTailProperties, EmptySeq, Zenon
<1>2. Head(w) = w[1]
  BY <1>1
<1>3. Head(w) \in Left(w)
  BY <1>1, <1>2 DEF Left
<1>4. Left(w) \subseteq Left(Tail(w)) \cup {Head(w)}
  <2>1. SUFFICES ASSUME NEW i \in 1 .. Len(w), i # 1 PROVE w[i] \in Left(Tail(w))
    BY <1>2 DEF Left
  <2>2. i - 1 \in 1 .. Len(Tail(w)) /\ Tail(w)[i - 1] = w[i]
    BY <1>1, <2>1
  <2>3. QED
    BY <2>2 DEF Left
<1>5. Left(Tail(w)) \subseteq Left(w)
  <2>1. SUFFICES ASSUME NEW i \in 1 .. Len(Tail(w)) PROVE w[i + 1] \in Left(w)
    BY <1>1 DEF Left
  <2>2. i + 1 \in 1 .. Len(w)
    BY <1>1
  <2>3. QED
    BY <2>2 DEF Left
<1>6. RulesFirst(w) => RulesFirst(Tail(w))
  <2>1. SUFFICES ASSUME RulesFirst(w), NEW i \in 1 .. Len(Tail(w)), NEW j \in 1 .. Len(Tail(w)),
                        i < j, Tail(w)[j] \in RuleNames
                 PROVE  Tail(w)[i] \in RuleNames
    BY DEF RulesFirst
  <2>2. i + 1 \in 1 .. Len(w) /\ j + 1 \in 1 .. Len(w) /\ i + 1 < j + 1
    BY <1>1, <2>1
  <2>3. QED
    BY <1>1, <2>1, <2>2 DEF RulesFirst
<1>7. RulesFirst(w) /\ Head(w) \notin RuleNames => Left(w) \cap RuleNames = {}
  <2>1. SUFFICES ASSUME RulesFirst(w), Head(w) \notin RuleNames, NEW i \in 1 .. Len(w),
                        w[i] \in RuleNames
                 PROVE  FALSE
    BY DEF Left
  <2>2. i # 1 /\ 1 < i /\ 1 \in 1 .. Len(w)
    BY <1>1, <1>2, <2>1
  <2>3. QED
    BY <1>2, <2>1, <2>2 DEF RulesFirst
<1>8. QED
  BY <1>1, <1>3, <1>4, <1>5, <1>6, <1>7

LEMMA ObserverFacts ==
    /\ Observers \in Seq(ObserverNames) /\ Len(Observers) \in Nat
    /\ DOMAIN Observers = 1 .. Len(Observers)
    /\ ObserverNames \cap RuleNames = {} /\ "silence" \notin ObserverNames \cup RuleNames
BY LenProperties, NamesOfRules

\* The work of a success, ...
LEMMA SuccessWork ==
    LET w == Rules \o Observers
    IN  w \in Seq(Tasks) /\ Left(w) = RuleNames \cup ObserverNames /\ RulesFirst(w)
<1> DEFINE w == Rules \o Observers
<1>1. /\ Rules \in Seq(Tasks) /\ Observers \in Seq(Tasks) /\ Len(Rules) = 4
      /\ \A i \in 1 .. 4 : Rules[i] \in RuleNames
  BY NamesOfRules, ObserverFacts DEF Tasks, Rules, RuleNames
<1>2. /\ w \in Seq(Tasks) /\ Len(w) = 4 + Len(Observers)
      /\ \A i \in 1 .. Len(w) : w[i] = IF i <= 4 THEN Rules[i] ELSE Observers[i - 4]
  <2>1. /\ w \in Seq(Tasks) /\ Len(w) = Len(Rules) + Len(Observers)
        /\ \A i \in 1 .. Len(Rules) + Len(Observers) :
              w[i] = IF i <= Len(Rules) THEN Rules[i] ELSE Observers[i - Len(Rules)]
    <3>1. Rules \in Seq(Tasks) /\ Observers \in Seq(Tasks)
      BY <1>1
    <3>2. QED
      BY <3>1, ConcatProperties
  <2>2. QED
    BY <1>1, <2>1
<1>3. \A i \in 1 .. Len(w) : IF i <= 4 THEN w[i] \in RuleNames ELSE w[i] \in ObserverNames
  BY <1>1, <1>2, ObserverFacts DEF ObserverNames
<1>4. RulesFirst(w)
  BY <1>2, <1>3, ObserverFacts DEF RulesFirst
<1>5. RuleNames \subseteq Left(w)
  <2>1. SUFFICES ASSUME NEW i \in 1 .. 4 PROVE Rules[i] \in Left(w)
    BY <1>1 DEF RuleNames, Rules
  <2>2. i \in 1 .. Len(w) /\ w[i] = Rules[i]
    BY <1>2, ObserverFacts
  <2>3. QED
    BY <2>2 DEF Left
<1>6. ObserverNames \subseteq Left(w)
  <2>1. SUFFICES ASSUME NEW i \in 1 .. Len(Observers) PROVE Observers[i] \in Left(w)
    BY ObserverFacts DEF ObserverNames
  <2>2. i + 4 \in 1 .. Len(w) /\ w[i + 4] = Observers[i]
    BY <1>2, ObserverFacts
  <2>3. QED
    BY <2>2 DEF Left
<1>7. Left(w) \subseteq RuleNames \cup ObserverNames
  <2>1. SUFFICES ASSUME NEW i \in 1 .. Len(w) PROVE w[i] \in RuleNames \cup ObserverNames
    BY DEF Left
  <2>2. QED
    BY <1>3
<1>8. Left(w) = RuleNames \cup ObserverNames
  BY <1>5, <1>6, <1>7
<1>9. QED
  BY <1>2, <1>4, <1>8

\* ... and of a failure.
LEMMA FailureWork ==
    LET w == Observers \o <<"silence">>
    IN  /\ w \in Seq(Tasks) /\ ObserverNames \subseteq Left(w)
        /\ Left(w) \cap RuleNames = {} /\ RulesFirst(w)
<1> DEFINE w == Observers \o <<"silence">>
<1>1. <<"silence">> \in Seq(Tasks) /\ Observers \in Seq(Tasks) /\ Len(<<"silence">>) = 1
  BY ObserverFacts DEF Tasks
<1>2. /\ w \in Seq(Tasks) /\ Len(w) = Len(Observers) + 1
      /\ \A i \in 1 .. Len(w) :
            w[i] = IF i <= Len(Observers) THEN Observers[i] ELSE <<"silence">>[i - Len(Observers)]
  BY <1>1, ConcatProperties
<1>3. \A i \in 1 .. Len(w) : w[i] \notin RuleNames
  <2>1. ASSUME NEW i \in 1 .. Len(w), i <= Len(Observers) PROVE w[i] \notin RuleNames
    BY <1>2, <2>1, ObserverFacts DEF ObserverNames
  <2>2. ASSUME NEW i \in 1 .. Len(w), ~(i <= Len(Observers)) PROVE w[i] \notin RuleNames
    <3>1. w[i] = <<"silence">>[1]
      BY <1>2, <2>2, ObserverFacts
    <3>2. QED
      BY <3>1, ObserverFacts
  <2>3. QED
    BY <2>1, <2>2
<1>4. ObserverNames \subseteq Left(w)
  <2>1. SUFFICES ASSUME NEW i \in 1 .. Len(Observers) PROVE Observers[i] \in Left(w)
    BY ObserverFacts DEF ObserverNames
  <2>2. i \in 1 .. Len(w) /\ w[i] = Observers[i]
    BY <1>2, ObserverFacts
  <2>3. QED
    BY <2>2 DEF Left
<1>5. QED
  BY <1>2, <1>3, <1>4 DEF Left, RulesFirst

LEMMA NoWork == <<>> \in Seq(Tasks) /\ Left(<<>>) = {} /\ RulesFirst(<<>>)
BY DEF Left, RulesFirst

-----------------------------------------------------------------------------
(* Type correctness                                                        *)

\* A poll that still has rules to evaluate has a snapshot of this installation,
\* and evaluates them first; who sends has a key, and the poll sends while it works.
WorkOK ==
    /\ RulesFirst(work)
    /\ Left(work) \cap RuleNames # {} => snapshot \in installation.snapshots
    /\ \A p \in Senders : stage[p] # "idle" => mail[p] \in Keys
    /\ ~mail["monitor"].recovered
    /\ monitor = "read" => stage["monitor"] = "idle"
    /\ stage["poll"] # "idle" => poll = "working"

TypeInv == TypeOK /\ WorkOK

LEMMA KeysTyped ==
    /\ NoKey.recovered = FALSE /\ Mail(Silent) \in Keys /\ Mail(Silent).recovered = FALSE
    /\ \A c \in Conditions : Mail(c) \in Keys /\ Recovery(c) \in Keys
    /\ \A k \in Keys : k.recovered => k.about \in Conditions
BY DEF NoKey, Mail, Recovery, Silent, Keys

LEMMA UndeliveredTyped ==
    ASSUME TypeInv, NEW p \in Senders, Undelivered(p)
    PROVE  /\ active' \subseteq Conditions
           /\ mail' = [mail EXCEPT ![p] = NoKey] /\ stage' = [stage EXCEPT ![p] = "idle"]
<1>1. mail[p].recovered => mail[p].about \in Conditions
  BY KeysTyped DEF TypeInv, TypeOK
<1>2. QED
  BY <1>1 DEF Undelivered, Sent, TypeInv, TypeOK

\* A sender that ends, or goes on with its key, keeps the senders typed.
LEMMA SendersTyped ==
    ASSUME TypeInv, NEW p \in Senders,
           \/ mail' = [mail EXCEPT ![p] = NoKey] /\ stage' = [stage EXCEPT ![p] = "idle"]
           \/ /\ mail' = mail /\ stage[p] # "idle"
              /\ \E g \in {"send", "mute", "quit"} : stage' = [stage EXCEPT ![p] = g],
           UNCHANGED <<poll, monitor>>
    PROVE  /\ mail' \in [Senders -> Keys \cup {NoKey}]
           /\ stage' \in [Senders -> {"idle", "reserve", "send", "mute", "quit"}]
           /\ \A q \in Senders : stage'[q] # "idle" => mail'[q] \in Keys
           /\ ~mail'["monitor"].recovered
           /\ monitor' = "read" => stage'["monitor"] = "idle"
           /\ stage'["poll"] # "idle" => poll' = "working"
<1>1. CASE mail' = [mail EXCEPT ![p] = NoKey] /\ stage' = [stage EXCEPT ![p] = "idle"]
  <2>1. \A q \in Senders : /\ mail'[q] = IF q = p THEN NoKey ELSE mail[q]
                           /\ stage'[q] = IF q = p THEN "idle" ELSE stage[q]
    BY <1>1 DEF TypeInv, TypeOK
  <2>2. mail' \in [Senders -> Keys \cup {NoKey}]
        /\ stage' \in [Senders -> {"idle", "reserve", "send", "mute", "quit"}]
    BY <1>1 DEF TypeInv, TypeOK
  <2>3. QED
    BY <2>1, <2>2, KeysTyped DEF TypeInv, WorkOK, Senders
<1>2. CASE /\ mail' = mail /\ stage[p] # "idle"
           /\ \E g \in {"send", "mute", "quit"} : stage' = [stage EXCEPT ![p] = g]
  <2>1. \A q \in Senders : stage'[q] # "idle" => stage[q] # "idle"
    BY <1>2 DEF TypeInv, TypeOK
  <2>2. stage' \in [Senders -> {"idle", "reserve", "send", "mute", "quit"}]
    BY <1>2 DEF TypeInv, TypeOK
  <2>3. QED
    BY <1>2, <2>1, <2>2 DEF TypeInv, TypeOK, WorkOK, Senders
<1>3. QED
  BY <1>1, <1>2

LEMMA SendingTyped ==
    ASSUME TypeInv, NEW p \in Senders, Reserve(p) \/ DialHangs(p) \/ Accepted(p) \/ SendEnds(p)
    PROVE  TypeInv'
<1>1. /\ \/ mail' = [mail EXCEPT ![p] = NoKey] /\ stage' = [stage EXCEPT ![p] = "idle"]
         \/ /\ mail' = mail /\ stage[p] # "idle"
            /\ \E g \in {"send", "mute", "quit"} : stage' = [stage EXCEPT ![p] = g]
      /\ UNCHANGED <<installation, poll, work, up, snapshot, silence, watch, heard>>
  BY UndeliveredTyped
     DEF Reserve, DialHangs, Accepted, SendEnds, NotDelivered, Delivered, Sent, outcome
<1>2. stage[p] # "idle"
  BY DEF Reserve, DialHangs, Accepted, SendEnds, NotDelivered, Delivered
<1>3. mail[p] \in Keys
  BY <1>2 DEF TypeInv, WorkOK
<1>4. active' \subseteq Conditions
  BY UndeliveredTyped
     DEF Reserve, DialHangs, Accepted, SendEnds, NotDelivered, Delivered, manager, TypeInv, TypeOK
<1>5. inFlight' \subseteq Keys /\ troubled' \subseteq Conditions
  BY <1>3 DEF Reserve, DialHangs, Accepted, SendEnds, NotDelivered, Delivered, TypeInv, TypeOK, outcome, manager
<1>6. 0 \in 0 .. Cooldown
  OBVIOUS
<1>7. sent' \in [Keys -> 0 .. Cooldown] /\ mailbox' \in [Keys -> 0 .. Cooldown]
  <2>1. sent' \in {sent, [sent EXCEPT ![mail[p]] = 0]}
        /\ mailbox' \in {mailbox, [mailbox EXCEPT ![mail[p]] = 0]}
    BY DEF Reserve, DialHangs, Accepted, SendEnds, NotDelivered, Delivered, manager
  <2>2. QED
    BY <1>3, <1>6, <2>1 DEF TypeInv, TypeOK
<1>8. TypeOK'
  BY <1>1, <1>4, <1>5, <1>7, SendersTyped DEF TypeInv, TypeOK, watch
<1>9. WorkOK'
  BY <1>1, SendersTyped DEF TypeInv, WorkOK, watch
<1>10. QED
  BY <1>8, <1>9 DEF TypeInv

\* The poll, or the monitor, begins to send, or goes on without.
LEMMA SendTyped ==
    ASSUME TypeInv, NEW p \in Senders, NEW k \in Keys, p = "monitor" => ~k.recovered,
           Send(p, k) \/ UNCHANGED <<mail, stage>>,
           IF p = "poll" THEN poll = "working" /\ UNCHANGED <<poll, monitor>>
           ELSE monitor' = "idle" /\ UNCHANGED poll
    PROVE  /\ mail' \in [Senders -> Keys \cup {NoKey}]
           /\ stage' \in [Senders -> {"idle", "reserve", "send", "mute", "quit"}]
           /\ \A q \in Senders : stage'[q] # "idle" => mail'[q] \in Keys
           /\ ~mail'["monitor"].recovered
           /\ monitor' = "read" => stage'["monitor"] = "idle"
           /\ stage'["poll"] # "idle" => poll' = "working"
BY DEF TypeInv, TypeOK, WorkOK, Senders, Send

LEMMA FetchedTyped ==
    ASSUME TypeInv, PollBegins \/ Fetched \/ ObserverPanics \/ PollEnds
    PROVE  TypeInv'
<1>1. CASE PollBegins \/ PollEnds
  BY <1>1 DEF PollBegins, PollEnds, Working, TypeInv, TypeOK, WorkOK, outcome, watch, manager
<1>2. CASE \E s \in installation.snapshots : FetchSucceeds(s)
  <2>1. PICK s \in installation.snapshots : FetchSucceeds(s)
    BY <1>2
  <2>2. work' \in Seq(Tasks) /\ RulesFirst(work') /\ troubled' \subseteq Conditions
        /\ silence' \in 0 .. Window /\ up' = TRUE
    BY <2>1, SuccessWork DEF FetchSucceeds
  <2>3. TypeOK'
    BY <2>1, <2>2 DEF FetchSucceeds, TypeInv, TypeOK, Tasks, watch, manager
  <2>4. QED
    BY <2>1, <2>2, <2>3 DEF FetchSucceeds, TypeInv, WorkOK, watch
<1>3. CASE FetchFails \/ ObserverPanics
  <2>1. work' \in Seq(Tasks) /\ RulesFirst(work') /\ Left(work') \cap RuleNames = {}
    BY <1>3, FailureWork DEF FetchFails, ObserverPanics, recordFailure
  <2>2. heard' \in [ObserverNames -> {"nothing", "success", "failure"}]
    BY <1>3 DEF FetchFails, ObserverPanics, TypeInv, TypeOK
  <2>3. up' = FALSE /\ poll' = "working"
        /\ UNCHANGED <<installation, snapshot, silence, troubled, watch, mail, stage, manager>>
    BY <1>3 DEF FetchFails, ObserverPanics, recordFailure
  <2>4. TypeOK'
    BY <2>1, <2>2, <2>3 DEF TypeInv, TypeOK, Tasks, watch, manager
  <2>5. QED
    BY <2>1, <2>3, <2>4 DEF TypeInv, WorkOK, watch
<1>4. QED
  BY <1>1, <1>2, <1>3 DEF Fetched

\* The next task leaves the others.
LEMMA NextTask ==
    ASSUME TypeInv, work # <<>>, work' = Tail(work), UNCHANGED <<installation, snapshot>>
    PROVE  /\ work' \in Seq(Tasks) /\ RulesFirst(work')
           /\ Left(work') \cap RuleNames # {} => snapshot' \in installation'.snapshots
BY TailLeft DEF TypeInv, TypeOK, WorkOK, Tasks

\* An evaluated rule is about a condition of the inverter.
LEMMA RuleTyped ==
    ASSUME TypeInv, work # <<>>, Head(work) \in RuleNames
    PROVE  /\ snapshot \in installation.snapshots /\ snapshot.source \in Sources
           /\ \A r \in RuleNames : activeKey(r, snapshot) \in Conditions
<1>1. snapshot \in installation.snapshots
  BY TailLeft DEF TypeInv, TypeOK, WorkOK, Tasks
<1>2. snapshot.source \in Sources
  BY <1>1 DEF TypeInv, TypeOK
<1>3. QED
  BY <1>1, <1>2, NamesOfRules DEF activeKey, Conditions

LEMMA WorksTyped ==
    ASSUME TypeInv, EvaluateRule \/ TellObserver \/ EvaluateNoSuccessfulPoll
    PROVE  TypeInv'
<1>1. CASE EvaluateRule
  <2> DEFINE c == activeKey(Head(work), snapshot)
  <2>1. c \in Conditions /\ work # <<>> /\ poll = "working"
    BY <1>1, RuleTyped DEF EvaluateRule, Working
  <2>2. /\ work' = Tail(work)
        /\ UNCHANGED <<installation, poll, outcome, watch, inFlight, sent, mailbox, heard>>
        /\ active' \in {active, active \cup {c}, active \ {c}}
        /\ Send("poll", Mail(c)) \/ Send("poll", Recovery(c)) \/ UNCHANGED <<mail, stage>>
    BY <1>1 DEF EvaluateRule
  <2>3. /\ work' \in Seq(Tasks) /\ RulesFirst(work')
        /\ Left(work') \cap RuleNames # {} => snapshot' \in installation'.snapshots
    BY <2>1, <2>2, NextTask DEF outcome
  <2>4. active' \subseteq Conditions
    BY <2>1, <2>2 DEF TypeInv, TypeOK
  <2>5. PICK k \in Keys : Send("poll", k) \/ UNCHANGED <<mail, stage>>
    BY <2>1, <2>2, KeysTyped
  <2> HIDE DEF c
  <2>6. /\ mail' \in [Senders -> Keys \cup {NoKey}]
        /\ stage' \in [Senders -> {"idle", "reserve", "send", "mute", "quit"}]
        /\ \A q \in Senders : stage'[q] # "idle" => mail'[q] \in Keys
        /\ ~mail'["monitor"].recovered
        /\ monitor' = "read" => stage'["monitor"] = "idle"
        /\ stage'["poll"] # "idle" => poll' = "working"
    BY <2>1, <2>2, <2>5, SendTyped DEF Senders, watch
  <2>7. TypeOK'
    BY <2>2, <2>3, <2>4, <2>6 DEF TypeInv, TypeOK, Tasks, outcome, watch
  <2>8. QED
    BY <2>3, <2>6, <2>7 DEF TypeInv, WorkOK
<1>2. CASE TellObserver
  <2>1. /\ work' \in Seq(Tasks) /\ RulesFirst(work')
        /\ Left(work') \cap RuleNames # {} => snapshot' \in installation'.snapshots
    BY <1>2, NextTask DEF TellObserver, outcome
  <2>2. heard' \in [ObserverNames -> {"nothing", "success", "failure"}]
    BY <1>2 DEF TellObserver, TypeInv, TypeOK
  <2>3. UNCHANGED <<installation, poll, outcome, watch, mail, stage, manager>>
    BY <1>2 DEF TellObserver
  <2>4. TypeOK'
    BY <2>1, <2>2, <2>3 DEF TypeInv, TypeOK, Tasks, outcome, watch, manager
  <2>5. QED
    BY <2>1, <2>3, <2>4 DEF TypeInv, WorkOK, watch, outcome
<1>3. CASE EvaluateNoSuccessfulPoll
  <2>1. /\ work' = <<>> /\ poll = "working"
        /\ UNCHANGED <<installation, poll, outcome, watch, manager, heard>>
        /\ Send("poll", Mail(Silent)) \/ UNCHANGED <<mail, stage>>
    BY <1>3 DEF EvaluateNoSuccessfulPoll, Working
  <2>2. /\ mail' \in [Senders -> Keys \cup {NoKey}]
        /\ stage' \in [Senders -> {"idle", "reserve", "send", "mute", "quit"}]
        /\ \A q \in Senders : stage'[q] # "idle" => mail'[q] \in Keys
        /\ ~mail'["monitor"].recovered
        /\ monitor' = "read" => stage'["monitor"] = "idle"
        /\ stage'["poll"] # "idle" => poll' = "working"
    BY <2>1, KeysTyped, SendTyped DEF Senders, watch
  <2>3. TypeOK'
    BY <2>1, <2>2, NoWork DEF TypeInv, TypeOK, Tasks, outcome, watch, manager
  <2>4. QED
    BY <2>1, <2>2, <2>3, NoWork DEF TypeInv, WorkOK
<1>4. QED
  BY <1>1, <1>2, <1>3

LEMMA OlderTyped ==
    ASSUME NEW limit \in Nat, NEW age \in 0 .. limit
    PROVE  /\ Older(age, limit) \in 0 .. limit /\ Older(age, limit) >= age
           /\ \A a \in 0 .. limit : a >= age => Older(a, limit) >= Older(age, limit)
BY DEF Older

LEMMA MonitorTyped ==
    ASSUME TypeInv, MonitorWorks \/ Tick
    PROVE  TypeInv'
<1>1. CASE MonitorReads
  BY <1>1 DEF MonitorReads, TypeInv, TypeOK, WorkOK, outcome, manager
<1>2. CASE MonitorDecides
  <2>1. /\ monitor' = "idle" /\ seen' = 0
        /\ UNCHANGED <<installation, poll, work, outcome, manager, heard>>
        /\ Send("monitor", Mail(Silent)) \/ UNCHANGED <<mail, stage>>
    BY <1>2 DEF MonitorDecides
  <2>2. /\ mail' \in [Senders -> Keys \cup {NoKey}]
        /\ stage' \in [Senders -> {"idle", "reserve", "send", "mute", "quit"}]
        /\ \A q \in Senders : stage'[q] # "idle" => mail'[q] \in Keys
        /\ ~mail'["monitor"].recovered
        /\ monitor' = "read" => stage'["monitor"] = "idle"
        /\ stage'["poll"] # "idle" => poll' = "working"
    BY <2>1, KeysTyped, SendTyped DEF Senders
  <2>3. seen' \in 0 .. Window
    BY <2>1
  <2>4. TypeOK'
    BY <2>1, <2>2, <2>3 DEF TypeInv, TypeOK, outcome, manager
  <2>5. QED
    BY <2>1, <2>2, <2>4 DEF TypeInv, WorkOK, outcome
<1>3. CASE Tick
  <2>1. silence' \in 0 .. Window /\ seen' \in 0 .. Window
    BY <1>3, OlderTyped DEF Tick, TypeInv, TypeOK
  <2>2. sent' \in [Keys -> 0 .. Cooldown] /\ mailbox' \in [Keys -> 0 .. Cooldown]
    BY <1>3, OlderTyped DEF Tick, TypeInv, TypeOK
  <2>3. TypeOK'
    BY <1>3, <2>1, <2>2 DEF Tick, TypeInv, TypeOK
  <2>4. QED
    BY <1>3, <2>3 DEF Tick, TypeInv, WorkOK
<1>4. QED
  BY <1>1, <1>2, <1>3 DEF MonitorWorks

LEMMA InitTyped == Init => TypeInv
<1> SUFFICES ASSUME Init PROVE TypeInv
  OBVIOUS
<1>1. sent \in [Keys -> 0 .. Cooldown] /\ mailbox \in [Keys -> 0 .. Cooldown]
  BY DEF Init
<1>2. silence \in 0 .. Window /\ seen \in 0 .. Window
  BY DEF Init
<1>3. work \in Seq(Tasks) /\ RulesFirst(work) /\ Left(work) = {}
  BY NoWork DEF Init
<1>4. TypeOK
  BY <1>1, <1>2, <1>3 DEF Init, TypeOK, Tasks
<1>5. QED
  BY <1>3, <1>4, KeysTyped DEF Init, TypeInv, WorkOK, Senders

LEMMA NextTyped == TypeInv /\ [Next]_vars => TypeInv'
<1> SUFFICES ASSUME TypeInv, [Next]_vars PROVE TypeInv'
  OBVIOUS
<1>1. CASE UNCHANGED vars
  BY <1>1 DEF vars, TypeInv, TypeOK, WorkOK
<1>2. CASE Next
  BY <1>2, SendingTyped, FetchedTyped, WorksTyped, MonitorTyped DEF Next, PollWorks
<1>3. QED
  BY <1>1, <1>2

\* The poll, the monitor, the manager and the observers keep their types.
THEOREM TypeCorrect == Spec => []TypeOK
<1>1. TypeInv => TypeOK
  BY DEF TypeInv
<1>2. QED
  BY <1>1, InitTyped, NextTyped, PTL DEF Spec

-----------------------------------------------------------------------------
(* The observers hear what the state says                                  *)

\* Whoever was told something else than the outcome is still to be told.
ToldInv ==
    \A o \in ObserverNames :
        heard[o] \in {"nothing", IF up THEN "success" ELSE "failure"}
        \/ (poll = "working" /\ o \in Left(work))

LEMMA ToldKept ==
    ASSUME TypeInv, ToldInv, [Next]_vars
    PROVE  ToldInv'
<1>0. work \in Seq(Tasks)
  BY DEF TypeInv, TypeOK, Tasks
<1>1. CASE UNCHANGED <<poll, work, up, heard>>
  BY <1>1 DEF ToldInv
<1>2. CASE PollBegins
  BY <1>2 DEF PollBegins, ToldInv, outcome
<1>3. CASE PollEnds
  BY <1>3, NoWork DEF PollEnds, ToldInv, outcome
<1>4. CASE \E s \in installation.snapshots : FetchSucceeds(s)
  BY <1>4, SuccessWork DEF FetchSucceeds, ToldInv
<1>5. CASE FetchFails \/ ObserverPanics
  BY <1>5, FailureWork DEF FetchFails, ObserverPanics, recordFailure, ToldInv
<1>6. CASE EvaluateRule
  <2>1. /\ work # <<>> /\ Head(work) \in RuleNames /\ work' = Tail(work)
        /\ UNCHANGED <<poll, up, heard>>
    BY <1>6 DEF EvaluateRule, outcome
  <2>2. \A o \in ObserverNames : o \in Left(work) => o \in Left(work')
    BY <1>0, <2>1, TailLeft, ObserverFacts
  <2>3. QED
    BY <2>1, <2>2 DEF ToldInv
<1>7. CASE TellObserver
  <2>1. /\ work # <<>> /\ work' = Tail(work) /\ Left(work) = Left(work') \cup {Head(work)}
        /\ UNCHANGED <<poll, up>>
        /\ heard' = [heard EXCEPT ![Head(work)] = IF up THEN "success" ELSE "failure"]
    BY <1>0, <1>7, TailLeft DEF TellObserver, outcome
  <2>2. \A o \in ObserverNames :
            heard'[o] = IF o = Head(work) THEN (IF up THEN "success" ELSE "failure") ELSE heard[o]
    BY <2>1 DEF TypeInv, TypeOK
  <2>3. QED
    BY <2>1, <2>2 DEF ToldInv
<1>8. CASE EvaluateNoSuccessfulPoll
  <2>1. /\ work # <<>> /\ Head(work) = "silence" /\ Tail(work) = <<>>
        /\ UNCHANGED <<poll, up, heard>>
    BY <1>8 DEF EvaluateNoSuccessfulPoll, outcome
  <2>2. Left(work) = {"silence"}
    BY <1>0, <2>1, TailLeft, NoWork
  <2>3. QED
    BY <2>1, <2>2, ObserverFacts DEF ToldInv
<1>9. ASSUME NEW p \in Senders, Reserve(p) \/ DialHangs(p) \/ Accepted(p) \/ SendEnds(p)
      PROVE  UNCHANGED <<poll, work, up, heard>>
  BY <1>9 DEF Reserve, DialHangs, Accepted, SendEnds, NotDelivered, Delivered, outcome
<1>10. CASE MonitorWorks \/ Tick \/ UNCHANGED vars
  BY <1>1, <1>10 DEF MonitorWorks, MonitorReads, MonitorDecides, Tick, vars, outcome
<1>11. QED
  BY <1>1, <1>2, <1>3, <1>4, <1>5, <1>6, <1>7, <1>8, <1>9, <1>10 DEF Next, Fetched, PollWorks

\* Between polls every observer was told last what the state says, also when an
\* observer panicked over a success, for any number of observers.
THEOREM ObserversCorrect == Spec => []ObserversAgree
<1>1. Init => ToldInv
  BY DEF Init, ToldInv
<1>2. ToldInv => ObserversAgree
  BY DEF ToldInv, ObserversAgree
<1>3. QED
  BY InitTyped, NextTyped, ToldKept, <1>1, <1>2, PTL DEF Spec

-----------------------------------------------------------------------------
(* The mails keep their cooldown                                           *)

Sending(p) == stage[p] \in {"send", "mute", "quit"}

\* A key under way is reserved, by one sender; until the server has the mail its
\* cooldown has elapsed; and what the server got is younger than what the manager
\* counts from only while the sender waits for QUIT.
SpacedInv ==
    /\ \A p \in Senders : Sending(p) => mail[p] \in inFlight
    /\ \A p, q \in Senders : p # q /\ Sending(p) /\ Sending(q) => mail[p] # mail[q]
    /\ \A p \in Senders : stage[p] = "send" => mailbox[mail[p]] = Cooldown
    /\ \A k \in Keys : (\E p \in Senders : stage[p] = "quit" /\ mail[p] = k)
                       \/ mailbox[k] >= sent[k]

LEMMA SpacedKept ==
    ASSUME CleanQuit, TypeInv, SpacedInv, [Next]_vars
    PROVE  SpacedInv'
<1>0. /\ mail \in [Senders -> Keys \cup {NoKey}]
      /\ stage \in [Senders -> {"idle", "reserve", "send", "mute", "quit"}]
      /\ sent \in [Keys -> 0 .. Cooldown] /\ mailbox \in [Keys -> 0 .. Cooldown]
      /\ \A p \in Senders : stage[p] # "idle" => mail[p] \in Keys
  BY DEF TypeInv, TypeOK, WorkOK
<1>1. CASE UNCHANGED <<mail, stage, inFlight, sent, mailbox>>
  BY <1>1 DEF SpacedInv, Sending
<1>2. ASSUME NEW p \in Senders, NEW k \in Keys, Send(p, k), stage[p] = "idle",
             UNCHANGED <<inFlight, sent, mailbox>>
      PROVE  SpacedInv'
  <2>1. \A q \in Senders : IF q = p THEN stage'[q] = "reserve"
                           ELSE stage'[q] = stage[q] /\ mail'[q] = mail[q]
    BY <1>0, <1>2 DEF Send
  <2>2. QED
    BY <1>2, <2>1 DEF SpacedInv, Sending
<1>3. ASSUME NEW p \in Senders, Reserve(p) PROVE SpacedInv'
  <2>1. CASE Free(mail[p])
    <3>1. /\ inFlight' = inFlight \cup {mail[p]} /\ stage' = [stage EXCEPT ![p] = "send"]
          /\ UNCHANGED <<mail, sent, mailbox>> /\ stage[p] = "reserve"
      BY <1>3, <2>1 DEF Reserve
    <3>2. mail[p] \in Keys /\ mail[p] \notin inFlight /\ sent[mail[p]] >= Cooldown
      BY <1>0, <2>1, <3>1 DEF Free
    <3>3. \A q \in Senders : q # p /\ Sending(q) => mail[q] # mail[p]
      BY <3>2 DEF SpacedInv
    <3>4. mailbox[mail[p]] = Cooldown
      <4>1. mailbox[mail[p]] >= sent[mail[p]]
        BY <3>1, <3>2, <3>3 DEF SpacedInv, Sending
      <4>2. mailbox[mail[p]] \in 0 .. Cooldown /\ sent[mail[p]] \in 0 .. Cooldown
        BY <1>0, <3>2
      <4>3. QED
        BY <3>2, <4>1, <4>2
    <3>5. \A q \in Senders : stage'[q] = IF q = p THEN "send" ELSE stage[q]
      BY <1>0, <3>1
    <3>6. QED
      BY <3>1, <3>3, <3>4, <3>5 DEF SpacedInv, Sending
  <2>2. CASE ~Free(mail[p])
    <3>1. /\ mail' = [mail EXCEPT ![p] = NoKey] /\ stage' = [stage EXCEPT ![p] = "idle"]
          /\ UNCHANGED <<inFlight, sent, mailbox>> /\ stage[p] = "reserve"
      BY <1>3, <2>2 DEF Reserve, Undelivered, Sent
    <3>2. \A q \in Senders : IF q = p THEN stage'[q] = "idle"
                             ELSE stage'[q] = stage[q] /\ mail'[q] = mail[q]
      BY <1>0, <3>1
    <3>3. QED
      BY <3>1, <3>2 DEF SpacedInv, Sending
  <2>3. QED
    BY <2>1, <2>2
<1>4. ASSUME NEW p \in Senders, Accepted(p) PROVE SpacedInv'
  <2>1. /\ stage[p] = "send" /\ stage' = [stage EXCEPT ![p] = "quit"]
        /\ mailbox' = [mailbox EXCEPT ![mail[p]] = 0] /\ UNCHANGED <<mail, inFlight, sent>>
    BY <1>4 DEF Accepted
  <2>2. \A q \in Senders : stage'[q] = IF q = p THEN "quit" ELSE stage[q]
    BY <1>0, <2>1
  <2>3. \A k \in Keys : k # mail[p] => mailbox'[k] = mailbox[k]
    BY <1>0, <2>1
  <2>4. \A q \in Senders : q # p /\ Sending(q) => mail[q] # mail[p]
    BY <2>1 DEF SpacedInv, Sending
  <2>5. QED
    BY <1>0, <2>1, <2>2, <2>3, <2>4 DEF SpacedInv, Sending
<1>4a. ASSUME NEW p \in Senders, DialHangs(p) PROVE SpacedInv'
  <2>1. stage[p] = "send" /\ UNCHANGED <<mail, inFlight, sent, mailbox>>
    BY <1>4a DEF DialHangs, manager
  <2>2. \A q \in Senders : stage'[q] = IF q = p THEN "mute" ELSE stage[q]
    BY <1>0, <1>4a DEF DialHangs
  <2>3. QED
    BY <2>1, <2>2 DEF SpacedInv, Sending
<1>5. ASSUME NEW p \in Senders, SendEnds(p) PROVE SpacedInv'
  <2>1. /\ mail' = [mail EXCEPT ![p] = NoKey] /\ stage' = [stage EXCEPT ![p] = "idle"]
        /\ inFlight' = inFlight \ {mail[p]} /\ mailbox' = mailbox /\ Sending(p)
        /\ \/ stage[p] # "quit" /\ sent' = sent
           \/ stage[p] = "quit" /\ sent' = [sent EXCEPT ![mail[p]] = 0]
    BY <1>5 DEF SendEnds, NotDelivered, Delivered, Undelivered, Sent, Sending
  <2>2. \A q \in Senders : IF q = p THEN stage'[q] = "idle"
                           ELSE stage'[q] = stage[q] /\ mail'[q] = mail[q]
    BY <1>0, <2>1
  <2>3. \A q \in Senders : q # p /\ Sending(q) => mail[q] # mail[p] /\ mail[q] \in inFlight'
    BY <2>1 DEF SpacedInv
  <2>4. mail[p] \in Keys
    BY <1>0, <2>1 DEF Sending
  <2>5. \A k \in Keys : (\E q \in Senders : stage'[q] = "quit" /\ mail'[q] = k)
                        \/ mailbox'[k] >= sent'[k]
    <3>1. SUFFICES ASSUME NEW k \in Keys PROVE (\E q \in Senders : stage'[q] = "quit" /\ mail'[q] = k)
                                               \/ mailbox'[k] >= sent'[k]
      OBVIOUS
    <3>2. CASE stage[p] = "quit" /\ k = mail[p]
      <4>1. sent'[k] = 0 /\ mailbox'[k] \in 0 .. Cooldown
        BY <1>0, <2>1, <2>4, <3>2
      <4>2. QED
        BY <4>1
    <3>3. CASE ~(stage[p] = "quit" /\ k = mail[p])
      <4>1. sent'[k] = sent[k] /\ mailbox'[k] = mailbox[k]
        BY <1>0, <2>1, <2>4, <3>3
      <4>2. CASE \E q \in Senders : stage[q] = "quit" /\ mail[q] = k
        <5>1. PICK q \in Senders : stage[q] = "quit" /\ mail[q] = k
          BY <4>2
        <5>2. q # p
          BY <3>3, <5>1
        <5>3. QED
          BY <2>2, <5>1, <5>2
      <4>3. CASE mailbox[k] >= sent[k]
        BY <4>1, <4>3
      <4>4. QED
        BY <4>2, <4>3 DEF SpacedInv
    <3>4. QED
      BY <3>2, <3>3
  <2>6. QED
    BY <2>1, <2>2, <2>3, <2>5 DEF SpacedInv, Sending
<1>6. CASE Tick
  <2>1. /\ \A k \in Keys : sent'[k] = Older(sent[k], Cooldown)
        /\ \A k \in Keys : mailbox'[k] = Older(mailbox[k], Cooldown)
        /\ UNCHANGED <<mail, stage, inFlight>>
    BY <1>6 DEF Tick
  <2>2. \A k \in Keys : mailbox[k] = Cooldown => mailbox'[k] = Cooldown
    BY <1>0, <2>1 DEF Older
  <2>3. \A k \in Keys : mailbox[k] >= sent[k] => mailbox'[k] >= sent'[k]
    <3>1. SUFFICES ASSUME NEW k \in Keys, mailbox[k] >= sent[k] PROVE mailbox'[k] >= sent'[k]
      OBVIOUS
    <3>2. mailbox[k] \in 0 .. Cooldown /\ sent[k] \in 0 .. Cooldown
      BY <1>0
    <3>3. Older(mailbox[k], Cooldown) >= Older(sent[k], Cooldown)
      BY <3>1, <3>2, OlderTyped
    <3>4. QED
      BY <2>1, <3>3
  <2>4. QED
    BY <1>0, <2>1, <2>2, <2>3 DEF SpacedInv, Sending
<1>7. CASE PollBegins \/ Fetched \/ TellObserver \/ PollEnds \/ ObserverPanics
           \/ MonitorReads \/ UNCHANGED vars
  BY <1>1, <1>7
     DEF PollBegins, Fetched, FetchFails, FetchSucceeds, TellObserver, PollEnds, ObserverPanics,
         MonitorReads, vars, manager
<1>8. CASE EvaluateRule
  <2> DEFINE c == activeKey(Head(work), snapshot)
  <2>1. /\ Mail(c) \in Keys /\ Recovery(c) \in Keys
        /\ stage["poll"] = "idle" /\ UNCHANGED <<inFlight, sent, mailbox>>
    BY <1>8, RuleTyped, KeysTyped DEF EvaluateRule, Working
  <2>2. Send("poll", Mail(c)) \/ Send("poll", Recovery(c)) \/ UNCHANGED <<mail, stage>>
    BY <1>8 DEF EvaluateRule
  <2> HIDE DEF c
  <2>3. QED
    BY <1>1, <1>2, <2>1, <2>2 DEF Senders
<1>9. CASE EvaluateNoSuccessfulPoll
  <2>1. /\ Send("poll", Mail(Silent)) \/ UNCHANGED <<mail, stage>>
        /\ stage["poll"] = "idle" /\ UNCHANGED <<inFlight, sent, mailbox>>
    BY <1>9 DEF EvaluateNoSuccessfulPoll, Working, manager
  <2>2. QED
    BY <1>1, <1>2, <2>1, KeysTyped DEF Senders
<1>10. CASE MonitorDecides
  <2>1. /\ Send("monitor", Mail(Silent)) \/ UNCHANGED <<mail, stage>>
        /\ stage["monitor"] = "idle" /\ UNCHANGED <<inFlight, sent, mailbox>>
    BY <1>10 DEF MonitorDecides, TypeInv, WorkOK, manager
  <2>2. QED
    BY <1>1, <1>2, <2>1, KeysTyped DEF Senders
<1>11. QED
  BY <1>3, <1>4, <1>4a, <1>5, <1>6, <1>7, <1>8, <1>9, <1>10 DEF Next, PollWorks, MonitorWorks

\* Where QUIT does not fail, poll and monitor together never mail one key twice
\* within its cooldown, for any cooldown and any set of conditions.
THEOREM SpacedCorrect == CleanQuit => (Spec => MailsSpaced)
<1> SUFFICES ASSUME CleanQuit PROVE Spec => MailsSpaced
  OBVIOUS
<1>1. Init => SpacedInv
  BY DEF Init, SpacedInv, Sending
<1>2. TypeInv /\ SpacedInv /\ [Next]_vars => SpacedInv'
  BY SpacedKept
<1>3. TypeInv /\ SpacedInv /\ [Next]_vars
        => [\A p \in Senders :
              stage[p] = "send" /\ stage'[p] = "quit" => mailbox[mail[p]] = Cooldown]_vars
  BY DEF SpacedInv
<1>4. QED
  BY InitTyped, NextTyped, <1>1, <1>2, <1>3, PTL DEF Spec, MailsSpaced

-----------------------------------------------------------------------------
(* No reservation leaks                                                    *)

\* Who sends has reserved its key, alone, and nobody else's key is reserved.
HeldInv ==
    /\ \A p \in Senders : Sending(p) => mail[p] \in inFlight
    /\ \A p, q \in Senders : p # q /\ Sending(p) /\ Sending(q) => mail[p] # mail[q]
    /\ \A k \in inFlight : \E p \in Senders : Sending(p) /\ mail[p] = k

\* A sender that is not sending, before and after, leaves the reservations alone.
LEMMA HeldFrame ==
    ASSUME HeldInv, NEW p \in Senders, ~Sending(p), ~Sending(p)', inFlight' = inFlight,
           \A q \in Senders \ {p} : stage'[q] = stage[q] /\ mail'[q] = mail[q]
    PROVE  HeldInv'
<1>1. \A q \in Senders : Sending(q)' => q # p /\ Sending(q) /\ mail'[q] = mail[q]
  BY DEF Sending
<1>2. \A q \in Senders : Sending(q) => q # p /\ Sending(q)' /\ mail'[q] = mail[q]
  BY DEF Sending
<1>3. \A q \in Senders : Sending(q)' => mail'[q] \in inFlight'
  BY <1>1 DEF HeldInv
<1>4. \A q, r \in Senders : q # r /\ Sending(q)' /\ Sending(r)' => mail'[q] # mail'[r]
  BY <1>1 DEF HeldInv
<1>5. \A k \in inFlight' : \E q \in Senders : Sending(q)' /\ mail'[q] = k
  BY <1>2 DEF HeldInv
<1> QED
  BY <1>3, <1>4, <1>5 DEF HeldInv

LEMMA HeldKept ==
    ASSUME TypeInv, HeldInv, [Next]_vars
    PROVE  HeldInv'
<1>0. /\ mail \in [Senders -> Keys \cup {NoKey}]
      /\ stage \in [Senders -> {"idle", "reserve", "send", "mute", "quit"}]
  BY DEF TypeInv, TypeOK
<1>1. CASE UNCHANGED <<mail, stage, inFlight>>
  BY <1>1 DEF HeldInv, Sending
<1>2. ASSUME NEW p \in Senders, NEW k, Send(p, k), stage[p] = "idle", inFlight' = inFlight
      PROVE  HeldInv'
  <2>1. stage'[p] = "reserve" /\ \A q \in Senders \ {p} : stage'[q] = stage[q] /\ mail'[q] = mail[q]
    BY <1>0, <1>2 DEF Send
  <2> QED
    BY <1>2, <2>1, HeldFrame DEF Sending
<1>3. ASSUME NEW p \in Senders, Reserve(p) PROVE HeldInv'
  <2>1. CASE Free(mail[p])
    <3>1. /\ inFlight' = inFlight \cup {mail[p]} /\ mail' = mail /\ mail[p] \notin inFlight
          /\ \A q \in Senders : stage'[q] = IF q = p THEN "send" ELSE stage[q]
      BY <1>0, <1>3, <2>1 DEF Reserve, Free
    <3>2. ~Sending(p) /\ Sending(p)'
      BY <1>3, <3>1 DEF Reserve, Sending
    <3>3. \A q \in Senders \ {p} : (Sending(q)' <=> Sending(q)) /\ (Sending(q) => mail[q] # mail[p])
      BY <3>1 DEF Sending, HeldInv
    <3>4. \A q \in Senders : Sending(q)' => mail'[q] \in inFlight'
      BY <3>1, <3>3 DEF HeldInv
    <3>5. \A q, r \in Senders : q # r /\ Sending(q)' /\ Sending(r)' => mail'[q] # mail'[r]
      BY <3>1, <3>3 DEF HeldInv
    <3>6. \A k \in inFlight' : \E q \in Senders : Sending(q)' /\ mail'[q] = k
      BY <3>1, <3>2, <3>3 DEF HeldInv
    <3> QED
      BY <3>4, <3>5, <3>6 DEF HeldInv
  <2>2. CASE ~Free(mail[p])
    <3>1. /\ stage[p] = "reserve" /\ stage'[p] = "idle" /\ inFlight' = inFlight
          /\ \A q \in Senders \ {p} : stage'[q] = stage[q] /\ mail'[q] = mail[q]
      BY <1>0, <1>3, <2>2 DEF Reserve, Undelivered, Sent
    <3> QED
      BY <3>1, HeldFrame DEF Sending
  <2> QED
    BY <2>1, <2>2
<1>4. ASSUME NEW p \in Senders, Accepted(p) PROVE HeldInv'
  <2>1. /\ stage[p] = "send" /\ UNCHANGED <<mail, inFlight>>
        /\ \A q \in Senders : stage'[q] = IF q = p THEN "quit" ELSE stage[q]
    BY <1>0, <1>4 DEF Accepted
  <2>2. \A q \in Senders : Sending(q)' <=> Sending(q)
    BY <2>1 DEF Sending
  <2> QED
    BY <2>1, <2>2 DEF HeldInv
<1>4a. ASSUME NEW p \in Senders, DialHangs(p) PROVE HeldInv'
  <2>1. /\ stage[p] = "send" /\ UNCHANGED <<mail, inFlight>>
        /\ \A q \in Senders : stage'[q] = IF q = p THEN "mute" ELSE stage[q]
    BY <1>0, <1>4a DEF DialHangs, manager
  <2>2. \A q \in Senders : Sending(q)' <=> Sending(q)
    BY <2>1 DEF Sending
  <2> QED
    BY <2>1, <2>2 DEF HeldInv
<1>5. ASSUME NEW p \in Senders, SendEnds(p) PROVE HeldInv'
  <2>1. /\ Sending(p) /\ stage'[p] = "idle" /\ inFlight' = inFlight \ {mail[p]}
        /\ \A q \in Senders \ {p} : stage'[q] = stage[q] /\ mail'[q] = mail[q]
    BY <1>0, <1>5 DEF SendEnds, NotDelivered, Delivered, Undelivered, Sent, Sending
  <2>2. \A q \in Senders : Sending(q)' <=> q # p /\ Sending(q)
    BY <2>1 DEF Sending
  <2>3. \A q \in Senders \ {p} : Sending(q) => mail[q] # mail[p]
    BY <2>1 DEF HeldInv
  <2>4. \A q \in Senders : Sending(q)' => mail'[q] \in inFlight'
    BY <2>1, <2>2, <2>3 DEF HeldInv
  <2>5. \A q, r \in Senders : q # r /\ Sending(q)' /\ Sending(r)' => mail'[q] # mail'[r]
    BY <2>1, <2>2 DEF HeldInv
  <2>6. \A k \in inFlight' : \E q \in Senders : Sending(q)' /\ mail'[q] = k
    BY <2>1, <2>2 DEF HeldInv
  <2> QED
    BY <2>4, <2>5, <2>6 DEF HeldInv
<1>6. CASE PollBegins \/ Fetched \/ TellObserver \/ PollEnds \/ ObserverPanics
           \/ MonitorReads \/ Tick \/ UNCHANGED vars
  BY <1>1, <1>6
     DEF PollBegins, Fetched, FetchFails, FetchSucceeds, TellObserver, PollEnds, ObserverPanics,
         MonitorReads, Tick, vars, manager
<1>7. CASE EvaluateRule
  <2>1. stage["poll"] = "idle" /\ inFlight' = inFlight
        /\ (UNCHANGED <<mail, stage>> \/ \E k : Send("poll", k))
    BY <1>7 DEF EvaluateRule, Working
  <2> QED
    BY <1>1, <1>2, <2>1 DEF Senders
<1>8. CASE EvaluateNoSuccessfulPoll
  <2>1. stage["poll"] = "idle" /\ inFlight' = inFlight
        /\ (UNCHANGED <<mail, stage>> \/ \E k : Send("poll", k))
    BY <1>8 DEF EvaluateNoSuccessfulPoll, Working, manager
  <2> QED
    BY <1>1, <1>2, <2>1 DEF Senders
<1>9. CASE MonitorDecides
  <2>1. stage["monitor"] = "idle" /\ inFlight' = inFlight
        /\ (UNCHANGED <<mail, stage>> \/ \E k : Send("monitor", k))
    BY <1>9 DEF MonitorDecides, TypeInv, WorkOK, manager
  <2> QED
    BY <1>1, <1>2, <2>1 DEF Senders
<1> QED
  BY <1>3, <1>4, <1>4a, <1>5, <1>6, <1>7, <1>8, <1>9 DEF Next, PollWorks, MonitorWorks

\* Whether or not QUIT fails, a key is reserved exactly as long as one sender
\* has it under way, for any set of conditions and any cooldown.
THEOREM HeldCorrect == Spec => []ReservationsAreHeld
<1>1. Init => HeldInv
  BY DEF Init, HeldInv, Sending
<1>2. TypeInv /\ HeldInv /\ [Next]_vars => HeldInv'
  BY HeldKept
<1>3. HeldInv => ReservationsAreHeld
  BY DEF HeldInv, ReservationsAreHeld, Sending
<1> QED
  BY InitTyped, NextTyped, <1>1, <1>2, <1>3, PTL DEF Spec

-----------------------------------------------------------------------------
(* The active conditions are those that trouble the inverter               *)

Key(r) == activeKey(r, snapshot)
Says(r) == Verdict(r, snapshot)
Recovering == stage["poll"] \in {"reserve", "send", "mute"} /\ mail["poll"].recovered

\* A rule that is still due disagrees only in what its evaluation will settle.
Disputed(r) == Says(r) = "raised" \/ (Says(r) = "cleared" /\ ~installation.notifyRecovery)

\* What the snapshot says of a condition holds of its troubles before its rule is
\* evaluated; elsewhere the two sets agree, but for the recovery under way.
DueInv ==
    /\ poll # "working" => work = <<>>
    /\ \A r \in Left(work) \cap RuleNames :
         /\ Says(r) = "raised" => Key(r) \in troubled
         /\ Says(r) = "cleared" /\ ~installation.notifyRecovery => Key(r) \notin troubled

RecoveryInv ==
    stage["poll"] # "idle" /\ mail["poll"].recovered =>
        LET c == mail["poll"].about
        IN  /\ c \notin active /\ (c \in troubled <=> stage["poll"] # "quit")
            /\ c.rule \in RuleNames /\ c = Key(c.rule) /\ Says(c.rule) = "cleared"

AgreeInv ==
    \A c \in Conditions :
        \/ c \in active <=> c \in troubled
        \/ Recovering /\ c = mail["poll"].about
        \/ \E r \in Left(work) \cap RuleNames : Key(r) = c /\ Disputed(r)

TroubleInv == DueInv /\ RecoveryInv /\ AgreeInv

LEMMA SaysSame ==
    ASSUME UNCHANGED <<installation, snapshot>>, NEW r
    PROVE  Says(r)' = Says(r) /\ Key(r)' = Key(r) /\ (Disputed(r)' <=> Disputed(r))
BY DEF Says, Key, Disputed, Verdict, activeKey, evaluateAlarmMetrics, evaluateGridDown,
       evaluateBatterySOC, evaluateHighTemperature, RecoveryLevel, Hysteresis

LEMMA SaysNew ==
    ASSUME NEW s, snapshot' = s, UNCHANGED installation, NEW r
    PROVE  Says(r)' = Verdict(r, s) /\ Key(r)' = activeKey(r, s)
           /\ (Disputed(r)' <=> \/ Verdict(r, s) = "raised"
                                \/ Verdict(r, s) = "cleared" /\ ~installation.notifyRecovery)
BY DEF Says, Key, Disputed, Verdict, activeKey, evaluateAlarmMetrics, evaluateGridDown,
       evaluateBatterySOC, evaluateHighTemperature, RecoveryLevel, Hysteresis

LEMMA KeyFacts ==
    ASSUME NEW s, s.source \in Sources
    PROVE  /\ \A r \in RuleNames : /\ activeKey(r, s) \in Conditions /\ activeKey(r, s).rule = r
                                   /\ Reports(s, activeKey(r, s)) <=> Verdict(r, s) = "raised"
                                   /\ Clears(s, activeKey(r, s)) <=> Verdict(r, s) = "cleared"
           /\ \A c \in Conditions : Reports(s, c) \/ Clears(s, c)
                  => c.rule \in RuleNames /\ c = activeKey(c.rule, s)
<1>1. \A r \in RuleNames : /\ activeKey(r, s) \in Conditions /\ activeKey(r, s).rule = r
                           /\ activeKey(r, s).source \in {"any", s.source}
  BY NamesOfRules DEF activeKey, Conditions
<1>2. \A c \in Conditions : c.source \in {"any", s.source}
          => c.rule \in RuleNames /\ c = activeKey(c.rule, s)
  BY NamesOfRules DEF activeKey, Conditions
<1>3. QED
  BY <1>1, <1>2 DEF Reports, Clears

\* A step that leaves the snapshot, the conditions and the tasks keeps TroubleInv.
LEMMA TroubleFrame ==
    ASSUME TroubleInv,
           UNCHANGED <<installation, snapshot, poll, work, active, troubled>>,
           mail'["poll"] = mail["poll"] /\ stage'["poll"] = stage["poll"]
    PROVE  TroubleInv'
BY SaysSame DEF TroubleInv, DueInv, RecoveryInv, AgreeInv, Recovering

LEMMA FetchTroubles ==
    ASSUME TypeInv, TroubleInv, NEW s \in installation.snapshots, FetchSucceeds(s)
    PROVE  TroubleInv'
<1>1. /\ poll = "fetching" /\ poll' = "working" /\ work' = Rules \o Observers /\ snapshot' = s
      /\ troubled' = {c \in Conditions :
                  Reports(s, c) \/ (c \in troubled /\ (installation.notifyRecovery \/ ~Clears(s, c)))}
      /\ UNCHANGED <<installation, active, mail, stage>>
  BY DEF FetchSucceeds, manager
<1>2. stage["poll"] = "idle" /\ Left(work) = {}
  BY <1>1, NoWork DEF TypeInv, WorkOK, TroubleInv, DueInv
<1>3. \A c \in Conditions : c \in active <=> c \in troubled
  BY <1>2 DEF TroubleInv, AgreeInv, Recovering
<1>4. s.source \in Sources
  BY DEF TypeInv, TypeOK
<1>5. Left(work') \cap RuleNames = RuleNames
  BY <1>1, SuccessWork
<1>6. DueInv'
  <2>1. \A r \in RuleNames :
          /\ Verdict(r, s) = "raised" => activeKey(r, s) \in troubled'
          /\ Verdict(r, s) = "cleared" /\ ~installation.notifyRecovery => activeKey(r, s) \notin troubled'
    BY <1>1, <1>4, KeyFacts
  <2>2. QED
    BY <1>1, <1>5, <2>1, SaysNew DEF DueInv
<1>7. AgreeInv'
  <2>1. SUFFICES ASSUME NEW c \in Conditions, ~(c \in active <=> c \in troubled')
                 PROVE  \E r \in RuleNames : /\ activeKey(r, s) = c
                           /\ \/ Verdict(r, s) = "raised"
                              \/ Verdict(r, s) = "cleared" /\ ~installation.notifyRecovery
    BY <1>1, <1>5, SaysNew DEF AgreeInv
  <2>2. Reports(s, c) \/ (Clears(s, c) /\ ~installation.notifyRecovery)
    BY <1>1, <1>3, <2>1
  <2>3. QED
    BY <1>4, <2>2, KeyFacts DEF Reports, Clears
<1>8. RecoveryInv'
  BY <1>1, <1>2 DEF RecoveryInv
<1>9. QED
  BY <1>6, <1>7, <1>8 DEF TroubleInv

LEMMA FailureTroubles ==
    ASSUME TypeInv, TroubleInv, FetchFails \/ ObserverPanics
    PROVE  TroubleInv'
<1>0. work \in Seq(Tasks)
  BY DEF TypeInv, TypeOK, Tasks
<1>1. Left(work) \cap RuleNames = {} /\ stage["poll"] = "idle"
  <2>1. CASE FetchFails
    BY <2>1, NoWork DEF FetchFails, TypeInv, WorkOK, TroubleInv, DueInv
  <2>2. CASE ObserverPanics
    BY <1>0, <2>2, TailLeft, ObserverFacts DEF ObserverPanics, Working, TypeInv, WorkOK
  <2>3. QED
    BY <2>1, <2>2
<1>2. /\ poll' = "working" /\ Left(work') \cap RuleNames = {}
      /\ UNCHANGED <<installation, snapshot, active, troubled, mail, stage>>
  BY FailureWork DEF FetchFails, ObserverPanics, recordFailure, manager
<1>3. QED
  BY <1>1, <1>2 DEF TroubleInv, DueInv, RecoveryInv, AgreeInv, Recovering

LEMMA RuleTroubles ==
    ASSUME TypeInv, TroubleInv, EvaluateRule
    PROVE  TroubleInv'
<1> DEFINE r == Head(work)
           c == Key(r)
<1>1. /\ work \in Seq(Tasks) /\ work # <<>> /\ r \in RuleNames /\ work' = Tail(work)
      /\ stage["poll"] = "idle" /\ poll = "working" /\ poll' = "working"
      /\ UNCHANGED <<installation, snapshot, troubled>>
      /\ stage \in [Senders -> {"idle", "reserve", "send", "mute", "quit"}]
      /\ mail \in [Senders -> Keys \cup {NoKey}]
  BY DEF EvaluateRule, Working, outcome, TypeInv, TypeOK, Tasks
<1>2. /\ Left(work) = Left(work') \cup {r} /\ snapshot.source \in Sources
      /\ c \in Conditions /\ c.rule = r
  BY <1>1, TailLeft, RuleTyped, KeyFacts DEF Key
<1>3. \A t \in RuleNames : t # r => Key(t) # c
  BY <1>2, KeyFacts DEF Key
<1>4. /\ Says(r) = "raised" => c \in troubled
      /\ Says(r) = "cleared" /\ ~installation.notifyRecovery => c \notin troubled
      /\ ~Disputed(r) => (c \in active <=> c \in troubled)
  <2>1. r \in Left(work) \cap RuleNames
    BY <1>1, <1>2
  <2>2. ~Disputed(r) => (c \in active <=> c \in troubled)
    BY <1>1, <1>2, <1>3 DEF TroubleInv, AgreeInv, Recovering
  <2>3. QED
    BY <2>1, <2>2 DEF TroubleInv, DueInv
<1>5. /\ active' \in {active \cup {c}, active \ {c}, active}
      /\ \/ /\ Says(r) = "raised" /\ active' = active \cup {c} /\ Send("poll", Mail(c))
         \/ /\ Says(r) = "cleared" /\ c \in active /\ active' = active \ {c}
            /\ installation.notifyRecovery /\ Send("poll", Recovery(c))
         \/ /\ Says(r) = "cleared" /\ c \in active /\ active' = active \ {c}
            /\ ~installation.notifyRecovery /\ UNCHANGED <<mail, stage>>
         \/ /\ Says(r) # "raised" /\ (Says(r) = "cleared" => c \notin active)
            /\ UNCHANGED <<active, mail, stage>>
  BY DEF EvaluateRule, Key, Says
<1> HIDE DEF r, c
<1>6. ASSUME NEW k, Send("poll", k)
      PROVE  mail'["poll"] = k /\ stage'["poll"] = "reserve"
  BY <1>1, <1>6 DEF Send, Senders
<1>7. \/ c \in active' <=> c \in troubled
      \/ Says(r) = "cleared" /\ Send("poll", Recovery(c)) /\ c \notin active' /\ c \in troubled
  BY <1>4, <1>5 DEF Disputed
<1>8. DueInv'
  BY <1>1, <1>2, SaysSame DEF TroubleInv, DueInv
<1>9. RecoveryInv'
  <2>1. CASE Says(r) = "cleared" /\ Send("poll", Recovery(c)) /\ c \notin active' /\ c \in troubled
    <3>1. mail'["poll"] = Recovery(c) /\ stage'["poll"] = "reserve"
      BY <1>6, <2>1
    <3>2. Recovery(c).about = c
      BY DEF Recovery
    <3>3. QED
      BY <1>1, <1>2, <2>1, <3>1, <3>2, SaysSame DEF RecoveryInv, c
  <2>2. CASE ~Send("poll", Recovery(c))
    <3>1. mail'["poll"].recovered => stage'["poll"] = "idle"
      <4>1. CASE Send("poll", Mail(c))
        BY <1>6, <4>1 DEF Mail
      <4>2. CASE UNCHANGED <<mail, stage>>
        BY <1>1, <4>2
      <4>3. QED
        BY <1>5, <2>2, <4>1, <4>2
    <3>2. QED
      BY <3>1 DEF RecoveryInv
  <2>3. CASE Send("poll", Recovery(c)) /\ (c \in active' <=> c \in troubled)
    <3>1. mail'["poll"] = Recovery(c)
      BY <1>6, <2>3
    <3>2. Says(r) = "cleared" /\ c \in active /\ active' = active \ {c} /\ installation.notifyRecovery
      <4>1. Recovery(c) # Mail(c)
        BY DEF Recovery, Mail
      <4>2. ~Send("poll", Mail(c))
        BY <1>6, <3>1, <4>1
      <4>3. ~UNCHANGED <<mail, stage>>
        BY <1>1, <1>6, <2>3
      <4>4. QED
        BY <1>5, <4>2, <4>3
    <3>3. QED
      BY <1>4, <2>3, <3>2 DEF Disputed
  <2>4. QED
    BY <1>7, <2>1, <2>2, <2>3
<1>10. AgreeInv'
  <2>1. SUFFICES ASSUME NEW d \in Conditions, ~(d \in active' <=> d \in troubled')
                 PROVE  \/ Recovering' /\ d = mail'["poll"].about
                        \/ \E t \in Left(work') \cap RuleNames : Key(t)' = d /\ Disputed(t)'
    BY DEF AgreeInv
  <2>2. CASE d = c
    <3>1. Send("poll", Recovery(c))
      BY <1>1, <1>7, <2>1, <2>2
    <3>2. QED
      BY <1>6, <2>2, <3>1 DEF Recovering, Recovery
  <2>3. CASE d # c
    <3>1. ~(d \in active <=> d \in troubled)
      BY <1>1, <1>5, <2>1, <2>3
    <3>2. PICK t \in Left(work) \cap RuleNames : Key(t) = d /\ Disputed(t)
      BY <1>1, <3>1 DEF TroubleInv, AgreeInv, Recovering
    <3>3. t # r
      BY <2>3, <3>2 DEF c
    <3>4. QED
      BY <1>1, <1>2, <3>2, <3>3, SaysSame
  <2>4. QED
    BY <2>2, <2>3
<1>11. QED
  BY <1>8, <1>9, <1>10 DEF TroubleInv

LEMMA TaskTroubles ==
    ASSUME TypeInv, TroubleInv,
           PollBegins \/ TellObserver \/ EvaluateNoSuccessfulPoll \/ PollEnds
    PROVE  TroubleInv'
<1>0. work \in Seq(Tasks)
  BY DEF TypeInv, TypeOK, Tasks
<1>1. /\ UNCHANGED <<installation, snapshot, active, troubled>> /\ stage["poll"] = "idle"
      /\ poll' # "working" => work' = <<>>
  BY DEF PollBegins, TellObserver, EvaluateNoSuccessfulPoll, PollEnds, Working, outcome, manager,
         TroubleInv, DueInv, TypeInv, WorkOK
<1>2. Left(work) \cap RuleNames = {} /\ Left(work') \cap RuleNames = {}
  <2>1. CASE PollBegins \/ PollEnds
    BY <2>1, NoWork DEF PollBegins, PollEnds, Working, TroubleInv, DueInv
  <2>2. CASE TellObserver \/ EvaluateNoSuccessfulPoll
    <3>1. work # <<>> /\ Head(work) \notin RuleNames /\ work' = Tail(work)
      <4>1. CASE TellObserver
        BY <4>1, ObserverFacts DEF TellObserver
      <4>2. CASE EvaluateNoSuccessfulPoll
        BY <4>2, ObserverFacts DEF EvaluateNoSuccessfulPoll
      <4>3. QED
        BY <2>2, <4>1, <4>2
    <3>2. QED
      BY <1>0, <3>1, TailLeft DEF TypeInv, WorkOK
  <2>3. QED
    BY <2>1, <2>2
<1>3. ~(stage'["poll"] # "idle" /\ mail'["poll"].recovered)
  <2>1. CASE UNCHANGED <<mail, stage>>
    BY <1>1, <2>1
  <2>2. CASE Send("poll", Mail(Silent))
    BY <2>2, KeysTyped DEF Send, TypeInv, TypeOK, Senders
  <2>3. QED
    BY <2>1, <2>2 DEF PollBegins, TellObserver, EvaluateNoSuccessfulPoll, PollEnds
<1>4. AgreeInv'
  BY <1>1, <1>2, <1>3 DEF TroubleInv, AgreeInv, Recovering
<1>5. QED
  BY <1>1, <1>2, <1>3, <1>4 DEF TroubleInv, DueInv, RecoveryInv

\* The monitor sends no recoveries.
LEMMA SenderTroubles ==
    ASSUME CleanQuit, TypeInv, TroubleInv, NEW p \in Senders,
           Reserve(p) \/ DialHangs(p) \/ Accepted(p) \/ SendEnds(p)
    PROVE  TroubleInv'
<1> DEFINE c == mail["poll"].about
<1>0. /\ UNCHANGED <<installation, snapshot, poll, work>>
      /\ stage \in [Senders -> {"idle", "reserve", "send", "mute", "quit"}]
      /\ mail \in [Senders -> Keys \cup {NoKey}]
      /\ stage[p] # "idle" /\ (SendEnds(p) /\ stage[p] = "quit" => Delivered(p))
  BY DEF Reserve, DialHangs, Accepted, SendEnds, NotDelivered, Delivered, outcome, TypeInv, TypeOK
<1>1. CASE ~mail[p].recovered
  <2>1. UNCHANGED <<active, troubled>>
    BY <1>1 DEF Reserve, DialHangs, Accepted, SendEnds, NotDelivered, Delivered, Undelivered, outcome, manager
  <2>2. CASE p = "monitor"
    <3>1. mail'["poll"] = mail["poll"] /\ stage'["poll"] = stage["poll"]
      BY <1>0, <2>2
         DEF Reserve, DialHangs, Accepted, SendEnds, NotDelivered, Delivered, Undelivered, Sent, Senders
    <3>2. QED
      BY <1>0, <2>1, <3>1, TroubleFrame
  <2>3. CASE p = "poll"
    <3>1. ~mail'["poll"].recovered
      BY <1>0, <1>1, <2>3, KeysTyped
         DEF Reserve, DialHangs, Accepted, SendEnds, NotDelivered, Delivered, Undelivered, Sent, Senders
    <3>2. DueInv'
      BY <1>0, <2>1, SaysSame DEF TroubleInv, DueInv
    <3>3. AgreeInv'
      BY <1>0, <1>1, <2>1, <2>3, SaysSame DEF TroubleInv, AgreeInv, Recovering
    <3>4. QED
      BY <3>1, <3>2, <3>3 DEF TroubleInv, RecoveryInv
  <2>4. QED
    BY <2>2, <2>3 DEF Senders
<1>2. CASE mail[p].recovered
  <2>1. p = "poll" /\ mail["poll"].recovered /\ c \in Conditions
    BY <1>0, <1>2, KeysTyped DEF TypeInv, WorkOK, Senders
  <2>2. /\ c \notin active /\ (c \in troubled <=> stage["poll"] # "quit")
        /\ c.rule \in RuleNames /\ c = Key(c.rule) /\ Says(c.rule) = "cleared"
    BY <1>0, <2>1 DEF TroubleInv, RecoveryInv
  <2>3. \A r \in Left(work) \cap RuleNames : Says(r) = "raised" => Key(r) # c
    BY <2>2 DEF Key, activeKey
  <2>4. \/ /\ stage'["poll"] \in {"send", "mute", "quit"} /\ mail' = mail /\ active' = active
           /\ troubled' = IF stage'["poll"] = "quit" THEN troubled \ {c} ELSE troubled
           /\ stage["poll"] # "quit"
        \/ /\ stage'["poll"] = "idle" /\ stage["poll"] # "quit"
           /\ active' = active \cup {c} /\ troubled' = troubled
        \/ /\ stage'["poll"] = "idle" /\ stage["poll"] = "quit"
           /\ active' = active /\ troubled' = troubled
    <3>1. CASE Reserve("poll")
      BY <1>0, <2>1, <3>1 DEF Reserve, Undelivered, Sent, outcome, Senders
    <3>2. CASE Accepted("poll")
      BY <1>0, <2>1, <3>2 DEF Accepted, Senders
    <3>2a. CASE DialHangs("poll")
      BY <1>0, <2>1, <3>2a DEF DialHangs, manager, outcome, Senders
    <3>3. CASE NotDelivered("poll")
      BY <1>0, <2>1, <3>3 DEF NotDelivered, Undelivered, Sent, outcome, Senders
    <3>4. CASE Delivered("poll")
      BY <1>0, <2>1, <3>4 DEF Delivered, Sent, outcome, Senders
    <3>5. QED
      BY <2>1, <3>1, <3>2, <3>2a, <3>3, <3>4 DEF SendEnds
  <2> HIDE DEF c
  <2>5. DueInv'
    BY <1>0, <2>3, <2>4, SaysSame DEF TroubleInv, DueInv
  <2>6. RecoveryInv'
    <3>1. CASE stage'["poll"] = "idle"
      BY <3>1 DEF RecoveryInv
    <3>2. CASE stage'["poll"] # "idle"
      BY <1>0, <2>2, <2>4, <3>2, SaysSame DEF RecoveryInv, c
    <3>3. QED
      BY <3>1, <3>2
  <2>7. AgreeInv'
    <3>1. SUFFICES ASSUME NEW d \in Conditions, ~(d \in active' <=> d \in troubled')
                   PROVE  \/ Recovering' /\ d = mail'["poll"].about
                          \/ \E t \in Left(work') \cap RuleNames : Key(t)' = d /\ Disputed(t)'
      BY DEF AgreeInv
    <3>2. CASE d = c
      BY <1>0, <2>1, <2>2, <2>4, <3>1, <3>2 DEF Recovering, c
    <3>3. CASE d # c
      <4>1. ~(d \in active <=> d \in troubled)
        BY <2>4, <3>1, <3>3
      <4>2. PICK t \in Left(work) \cap RuleNames : Key(t) = d /\ Disputed(t)
        BY <3>3, <4>1 DEF TroubleInv, AgreeInv, c
      <4>3. QED
        BY <1>0, <4>2, SaysSame
    <3>4. QED
      BY <3>2, <3>3
  <2>8. QED
    BY <2>5, <2>6, <2>7 DEF TroubleInv
<1>3. QED
  BY <1>1, <1>2

LEMMA TroubleKept ==
    ASSUME CleanQuit, TypeInv, TroubleInv, [Next]_vars
    PROVE  TroubleInv'
<1>1. CASE MonitorWorks \/ Tick \/ UNCHANGED vars
  <2>1. /\ UNCHANGED <<installation, snapshot, poll, work, active, troubled>>
        /\ mail'["poll"] = mail["poll"] /\ stage'["poll"] = stage["poll"]
    BY <1>1
       DEF MonitorWorks, MonitorReads, MonitorDecides, Send, Tick, vars, outcome, manager,
           TypeInv, TypeOK, Senders
  <2>2. QED
    BY <2>1, TroubleFrame
<1>2. QED
  BY <1>1, FetchTroubles, FailureTroubles, RuleTroubles, TaskTroubles, SenderTroubles
     DEF Next, Fetched, PollWorks

\* Where QUIT does not fail, the conditions the manager holds active between polls are
\* those that trouble the inverter, for any sources, thresholds and snapshots.
THEOREM ActiveCorrect == CleanQuit => (Spec => []ActiveAgrees)
<1> SUFFICES ASSUME CleanQuit PROVE Spec => []ActiveAgrees
  OBVIOUS
<1>1. Init => TroubleInv
  <2>1. SUFFICES ASSUME Init PROVE TroubleInv
    OBVIOUS
  <2>2. Left(work) = {} /\ work = <<>> /\ active = {} /\ troubled = {} /\ stage["poll"] = "idle"
    BY <2>1, NoWork DEF Init, Senders
  <2>3. QED
    BY <2>2 DEF TroubleInv, DueInv, RecoveryInv, AgreeInv
<1>2. TypeInv /\ TroubleInv /\ [Next]_vars => TroubleInv'
  BY TroubleKept
<1>3. TypeInv /\ TroubleInv => ActiveAgrees
  <2>1. SUFFICES ASSUME TypeInv, TroubleInv, poll = "waiting" PROVE active = troubled
    BY DEF ActiveAgrees
  <2>2. Left(work) = {} /\ ~Recovering
    BY <2>1, NoWork DEF TypeInv, WorkOK, TroubleInv, DueInv, Recovering
  <2>3. \A c \in Conditions : c \in active <=> c \in troubled
    BY <2>1, <2>2 DEF TroubleInv, AgreeInv
  <2>4. QED
    BY <2>1, <2>3 DEF TypeInv, TypeOK
<1>4. QED
  BY InitTyped, NextTyped, <1>1, <1>2, <1>3, PTL DEF Spec

=============================================================================
