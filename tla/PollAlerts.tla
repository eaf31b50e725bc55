----------------------------- MODULE PollAlerts -----------------------------
(***************************************************************************)
(* The poll runner of the inverter with its mail alerts (bridge/internal/  *)
(* poller/poller.go, alert/manager.go, alert/rules.go, alert/smtp.go). The *)
(* poll fetches, records the outcome, evaluates the alert rules one after  *)
(* the other and tells its observers; a monitor beside it watches for      *)
(* silence. Both send through one manager, which reserves a key while a    *)
(* mail is under way and keeps a cooldown per key, all in memory.          *)
(***************************************************************************)
EXTENDS Naturals, Sequences

CONSTANTS
    Sources,        \* the sources a snapshot can come from
    Installations,  \* thresholds, whether recoveries are mailed, and the snapshots of one
                    \* inverter, to choose from
    Observers,      \* the poll observers, in their order
    Cooldown,       \* ticks between two mails of one key
    Window,         \* ticks without a successful poll that are reported, 0 for never
    CleanQuit       \* TRUE: QUIT never fails once the server has accepted the mail

VARIABLES
    installation,   \* chosen once
    poll,           \* "waiting" for the ticker, "fetching" or "working"
    work,           \* what the poll still has to do: rules, observers, silence
    up,             \* the recorded outcome of the last poll
    snapshot,       \* the last accepted snapshot
    silence,        \* ticks since the last successful poll or the start, up to Window
    monitor,        \* "idle", or "read" its status
    seen,           \* the silence the monitor has read, still growing
    mail,           \* of each sender: the key it is sending, or NoKey
    stage,          \* of each sender: "idle", "reserve", "send", "mute" when the server does
                    \* not greet it, or "quit"
    active,         \* of the manager: the conditions that are active,
    inFlight,       \* the keys that are reserved,
    sent,           \* ticks since the delivery of each key, Cooldown once elapsed
    mailbox,        \* the same for what the server accepted
    heard,          \* what each observer was told last
    troubled        \* conditions the snapshots raised and that are not known to be over: their
                    \* recovery is mailed or, without such mails, the snapshots cleared them

vars == <<installation, poll, work, up, snapshot, silence, monitor, seen, mail, stage,
          active, inFlight, sent, mailbox, heard, troubled>>

manager == <<active, inFlight, sent, mailbox>>
outcome == <<up, snapshot, silence, troubled>>
watch == <<monitor, seen>>

Senders == {"poll", "monitor"}
Rules == <<"alarm", "grid", "soc", "temperature">>
RuleNames == {Rules[i] : i \in DOMAIN Rules}
ObserverNames == {Observers[i] : i \in DOMAIN Observers}

ASSUME PollAlertsAssumption ==
    /\ Cooldown \in Nat \ {0} /\ Window \in Nat
    /\ CleanQuit \in BOOLEAN
    /\ "any" \notin Sources
    /\ \A i \in Installations : \A s \in i.snapshots : s.source \in Sources
    /\ Observers \in Seq(ObserverNames)
    /\ ObserverNames \cap (RuleNames \cup {"silence"}) = {}

\* An alarm belongs to a source, every other condition to the inverter.
Conditions ==
    [rule : {"alarm"}, source : Sources] \cup [rule : {"grid", "soc", "temperature"}, source : {"any"}]
Silent == [rule |-> "silence", source |-> "any"]
NoCondition == [rule |-> "none", source |-> "any"]

\* The key of a mail about a condition, or about its recovery.
Mail(c) == [about |-> c, recovered |-> FALSE]
Recovery(c) == [about |-> c, recovered |-> TRUE]
NoKey == Mail(NoCondition)
Keys == [about : Conditions, recovered : BOOLEAN] \cup {Mail(Silent)}

NoSnapshot == [source |-> "any", words |-> {}, volts |-> {}, levels |-> {}, degrees |-> {}]

-----------------------------------------------------------------------------
(* The rules: what one says of a snapshot. "between" lies in the hysteresis *)
(* band, "absent" means that no metric of the rule is there.                *)

Hysteresis == 5
RecoveryLevel(threshold) == IF threshold + Hysteresis > 100 THEN 100 ELSE threshold + Hysteresis

evaluateAlarmMetrics(s) ==
    CASE s.words = {} -> "absent"
      [] \E w \in s.words : w # 0 -> "raised"
      [] OTHER -> "cleared"

evaluateGridDown(s) ==
    IF installation.grid = 0 \/ s.volts = {} THEN "absent"
    ELSE IF \E v \in s.volts : v > installation.grid THEN "cleared" ELSE "raised"

evaluateBatterySOC(s) ==
    IF installation.soc = 0 \/ s.levels = {} THEN "absent"
    ELSE IF \E l \in s.levels : l <= installation.soc THEN "raised"
    ELSE IF \A l \in s.levels : l >= RecoveryLevel(installation.soc) THEN "cleared" ELSE "between"

evaluateHighTemperature(s) ==
    IF installation.temperature = 0 \/ s.degrees = {} THEN "absent"
    ELSE IF \E d \in s.degrees : d >= installation.temperature THEN "raised"
    ELSE IF \A d \in s.degrees : d + Hysteresis <= installation.temperature THEN "cleared"
    ELSE "between"

Verdict(rule, s) ==
    CASE rule = "alarm" -> evaluateAlarmMetrics(s)
      [] rule = "grid" -> evaluateGridDown(s)
      [] rule = "soc" -> evaluateBatterySOC(s)
      [] rule = "temperature" -> evaluateHighTemperature(s)

activeKey(rule, s) == [rule |-> rule, source |-> IF rule = "alarm" THEN s.source ELSE "any"]

Reports(s, c) == c.source \in {"any", s.source} /\ Verdict(c.rule, s) = "raised"
Clears(s, c) == c.source \in {"any", s.source} /\ Verdict(c.rule, s) = "cleared"

-----------------------------------------------------------------------------
(* The manager: NotifyDelivered of each sender *)

Send(p, key) == mail' = [mail EXCEPT ![p] = key] /\ stage' = [stage EXCEPT ![p] = "reserve"]
Sent(p) == mail' = [mail EXCEPT ![p] = NoKey] /\ stage' = [stage EXCEPT ![p] = "idle"]

\* Wrong variant of Undelivered: a recovery that was not delivered is given up.
Undelivered_Forgets(p) == Sent(p) /\ UNCHANGED active

\* A recovery that was not delivered stays due.
Undelivered(p) ==
    /\ Sent(p)
    /\ active' = active \cup {c \in {mail[p].about} : mail[p].recovered}

\* Wrong variant of Free: only the cooldown counts.
Free_WhenCooled(key) == sent[key] >= Cooldown

Free(key) == key \notin inFlight /\ sent[key] >= Cooldown

Reserve(p) ==
    /\ stage[p] = "reserve"
    /\ IF Free(mail[p])
       THEN /\ inFlight' = inFlight \cup {mail[p]}
            /\ stage' = [stage EXCEPT ![p] = "send"]
            /\ UNCHANGED <<mail, active>>
       ELSE Undelivered(p) /\ UNCHANGED inFlight
    /\ UNCHANGED <<installation, poll, work, outcome, watch, sent, mailbox, heard>>

\* The connection is there and the server does not greet, or not answer STARTTLS: dial
\* reads without a deadline, which Notify sets only after it, and ignores the context.
DialHangs(p) ==
    /\ stage[p] = "send"
    /\ stage' = [stage EXCEPT ![p] = "mute"]
    /\ UNCHANGED <<installation, poll, work, outcome, watch, mail, manager, heard>>

\* The server takes the mail, ...
Accepted(p) ==
    /\ stage[p] = "send"
    /\ stage' = [stage EXCEPT ![p] = "quit"]
    /\ mailbox' = [mailbox EXCEPT ![mail[p]] = 0]
    /\ troubled' = troubled \ {c \in {mail[p].about} : mail[p].recovered}
    /\ UNCHANGED <<installation, poll, work, up, snapshot, silence, watch, mail,
                   active, inFlight, sent, heard>>

\* ... and the send fails before that, or, for the sender, after it.
NotDelivered(p) ==
    /\ stage[p] \in {"send", "mute"} \/ (stage[p] = "quit" /\ ~CleanQuit)
    /\ inFlight' = inFlight \ {mail[p]}
    /\ Undelivered(p)
    /\ UNCHANGED <<installation, poll, work, outcome, watch, sent, mailbox, heard>>

Delivered(p) ==
    /\ stage[p] = "quit"
    /\ inFlight' = inFlight \ {mail[p]}
    /\ sent' = [sent EXCEPT ![mail[p]] = 0]
    /\ Sent(p)
    /\ UNCHANGED <<installation, poll, work, outcome, watch, active, mailbox, heard>>

-----------------------------------------------------------------------------
(* The poll *)

Working == poll = "working" /\ stage["poll"] = "idle"

PollBegins ==
    /\ poll = "waiting"
    /\ poll' = "fetching"
    /\ UNCHANGED <<installation, work, outcome, watch, mail, stage, manager, heard>>

FetchSucceeds(s) ==
    /\ poll = "fetching"
    /\ poll' = "working" /\ work' = Rules \o Observers
    /\ up' = TRUE /\ snapshot' = s /\ silence' = 0
    /\ troubled' = {c \in Conditions :
                    Reports(s, c) \/ (c \in troubled /\ (installation.notifyRecovery \/ ~Clears(s, c)))}
    /\ UNCHANGED <<installation, watch, mail, stage, manager, heard>>

\* recordFailure: the outcome, then every observer, then the check for silence.
recordFailure ==
    /\ up' = FALSE
    /\ poll' = "working" /\ work' = Observers \o <<"silence">>

\* An error of Fetch, or a panic in it.
FetchFails ==
    /\ poll = "fetching"
    /\ recordFailure
    /\ UNCHANGED <<installation, snapshot, silence, troubled, watch, mail, stage,
                   manager, heard>>

\* NotifyActive, Resolve or nothing.
EvaluateRule ==
    /\ Working /\ work # <<>> /\ Head(work) \in RuleNames
    /\ work' = Tail(work)
    /\ LET c == activeKey(Head(work), snapshot)
           v == Verdict(Head(work), snapshot)
       IN CASE v = "raised" ->
                 active' = active \cup {c} /\ Send("poll", Mail(c))
            [] v = "cleared" /\ c \in active ->
                 /\ active' = active \ {c}
                 /\ IF installation.notifyRecovery
                    THEN Send("poll", Recovery(c))
                    ELSE UNCHANGED <<mail, stage>>
            [] OTHER -> UNCHANGED <<active, mail, stage>>
    /\ UNCHANGED <<installation, poll, outcome, watch, inFlight, sent, mailbox, heard>>

TellObserver ==
    /\ Working /\ work # <<>> /\ Head(work) \in ObserverNames
    /\ work' = Tail(work)
    /\ heard' = [heard EXCEPT ![Head(work)] = IF up THEN "success" ELSE "failure"]
    /\ UNCHANGED <<installation, poll, outcome, watch, mail, stage, manager>>

\* Wrong variant of ObserverPanics: the recovered panic is only recorded.
ObserverPanics_Untold ==
    /\ Working /\ up /\ work # <<>> /\ Head(work) \in ObserverNames
    /\ heard' = [heard EXCEPT ![Head(work)] = "success"]
    /\ up' = FALSE /\ work' = <<"silence">>
    /\ UNCHANGED <<installation, poll, snapshot, silence, troubled, watch, mail, stage,
                   manager>>

\* An observer of a success panics: the poll becomes a failed one.
ObserverPanics ==
    /\ Working /\ up /\ work # <<>> /\ Head(work) \in ObserverNames
    /\ heard' = [heard EXCEPT ![Head(work)] = "success"]
    /\ recordFailure
    /\ UNCHANGED <<installation, snapshot, silence, troubled, watch, mail, stage,
                   manager>>

EvaluateNoSuccessfulPoll ==
    /\ Working /\ work = <<"silence">>
    /\ work' = <<>>
    /\ IF Window > 0 /\ silence >= Window THEN Send("poll", Mail(Silent)) ELSE UNCHANGED <<mail, stage>>
    /\ UNCHANGED <<installation, poll, outcome, watch, manager, heard>>

PollEnds ==
    /\ Working /\ work = <<>>
    /\ poll' = "waiting"
    /\ UNCHANGED <<installation, work, outcome, watch, mail, stage, manager, heard>>

-----------------------------------------------------------------------------
(* The monitor and the clock *)

\* Wrong variant of MonitorReads: the check belongs to the poll loop.
MonitorReads_InLoop ==
    /\ Window > 0 /\ poll = "waiting"
    /\ monitor = "idle" /\ stage["monitor"] = "idle"
    /\ monitor' = "read" /\ seen' = silence
    /\ UNCHANGED <<installation, poll, work, outcome, mail, stage, manager, heard>>

MonitorReads ==
    /\ Window > 0
    /\ monitor = "idle" /\ stage["monitor"] = "idle"
    /\ monitor' = "read" /\ seen' = silence
    /\ UNCHANGED <<installation, poll, work, outcome, mail, stage, manager, heard>>

\* A poll may have succeeded since the monitor read its status.
MonitorDecides ==
    /\ monitor = "read"
    /\ monitor' = "idle" /\ seen' = 0
    /\ IF seen >= Window THEN Send("monitor", Mail(Silent)) ELSE UNCHANGED <<mail, stage>>
    /\ UNCHANGED <<installation, poll, work, outcome, manager, heard>>

Older(age, limit) == IF age < limit THEN age + 1 ELSE age

Tick ==
    /\ silence' = Older(silence, Window)
    /\ seen' = IF monitor = "read" THEN Older(seen, Window) ELSE seen
    /\ sent' = [k \in Keys |-> Older(sent[k], Cooldown)]
    /\ mailbox' = [k \in Keys |-> Older(mailbox[k], Cooldown)]
    /\ UNCHANGED <<installation, poll, work, up, snapshot, troubled, monitor, mail, stage,
                   active, inFlight, heard>>

-----------------------------------------------------------------------------
Init ==
    /\ installation \in Installations
    /\ poll = "waiting" /\ work = <<>>
    /\ up = FALSE /\ snapshot = NoSnapshot /\ silence = 0 /\ troubled = {}
    /\ monitor = "idle" /\ seen = 0
    /\ mail = [p \in Senders |-> NoKey] /\ stage = [p \in Senders |-> "idle"]
    /\ active = {} /\ inFlight = {}
    /\ sent = [k \in Keys |-> Cooldown] /\ mailbox = [k \in Keys |-> Cooldown]
    /\ heard = [o \in ObserverNames |-> "nothing"]

Fetched == FetchFails \/ \E s \in installation.snapshots : FetchSucceeds(s)
PollWorks == EvaluateRule \/ TellObserver \/ EvaluateNoSuccessfulPoll \/ PollEnds
MonitorWorks == MonitorReads \/ MonitorDecides
SendEnds(p) == NotDelivered(p) \/ Delivered(p)

Next ==
    \/ PollBegins \/ Fetched \/ PollWorks \/ ObserverPanics
    \/ MonitorWorks \/ Tick
    \/ \E p \in Senders : Reserve(p) \/ DialHangs(p) \/ Accepted(p) \/ SendEnds(p)

Spec == Init /\ [][Next]_vars

\* Goroutines are scheduled, tickers fire, a send that got through its dial ends by its
\* deadline, and an outage of the mail server ends too. A Fetch may hang for ever, and so
\* may a dial.
Fairness ==
    /\ WF_vars(PollWorks) /\ WF_vars(MonitorWorks) /\ WF_vars(Tick)
    /\ \A p \in Senders : WF_vars(Reserve(p)) /\ WF_vars(stage[p] # "mute" /\ SendEnds(p))
    /\ \A p \in Senders : SF_vars(mail[p] = Mail(Silent) /\ Accepted(p))

FairSpec == Spec /\ Fairness

-----------------------------------------------------------------------------
TypeOK ==
    /\ installation \in Installations
    /\ up \in BOOLEAN
    /\ poll \in {"waiting", "fetching", "working"}
    /\ work \in Seq(RuleNames \cup ObserverNames \cup {"silence"})
    /\ snapshot \in installation.snapshots \cup {NoSnapshot}
    /\ silence \in 0..Window /\ seen \in 0..Window
    /\ monitor \in {"idle", "read"}
    /\ mail \in [Senders -> Keys \cup {NoKey}]
    /\ stage \in [Senders -> {"idle", "reserve", "send", "mute", "quit"}]
    /\ active \subseteq Conditions /\ troubled \subseteq Conditions
    /\ inFlight \subseteq Keys
    /\ sent \in [Keys -> 0..Cooldown] /\ mailbox \in [Keys -> 0..Cooldown]
    /\ heard \in [ObserverNames -> {"nothing", "success", "failure"}]

\* Poll and monitor together never mail one key twice within its cooldown, however
\* long a send takes or how often it fails (docs/alerts.md, "Repeated alerts with the
\* same key are suppressed for ALERTS_COOLDOWN"; reserveSend, finishSend).
MailsSpaced ==
    [][\A p \in Senders :
         stage[p] = "send" /\ stage'[p] = "quit" => mailbox[mail[p]] = Cooldown]_vars

\* The keys in flight are the keys under way, each of one sender, however a send ends
\* and whether or not QUIT fails: a reservation that leaked would silence its condition
\* for the life of the process (reserveSend, finishSend).
ReservationsAreHeld ==
    LET sending == {p \in Senders : stage[p] \in {"send", "mute", "quit"}} IN
    /\ inFlight = {mail[p] : p \in sending}
    /\ \A p, q \in sending : mail[p] = mail[q] => p = q

\* Between polls the active conditions are exactly those some source reported and has
\* not taken back, over failovers, failed polls and hysteresis bands, and with recovery
\* mails those whose recovery the mail server has not got yet, over failed and
\* suppressed sends (NotifyActive, Resolve, the rules; docs/alerts.md, "a clear Jinko
\* or Solarman fallback snapshot cannot resolve an active Deye/Modbus" condition).
ActiveAgrees == poll = "waiting" => active = troubled

\* Between polls what the observers were told last is what the state says, also when
\* an observer panicked over a success (pollOnce, recordFailure).
ObserversAgree ==
    poll = "waiting" =>
        \A o \in ObserverNames :
            heard[o] # "nothing" => heard[o] = IF up THEN "success" ELSE "failure"

Mute(p) == stage[p] = "mute" /\ mail[p] = Mail(Silent)

\* Silence is mailed although a Fetch may hang for ever, or the poll in the dial of
\* another mail, unless the server is mute to the very mail about it: "This monitor is
\* intentionally outside the poll loop so it still fires when a source Fetch call hangs"
\* (runNoSuccessfulPollMonitor).
SilenceIsReported ==
    (\A p \in Senders : []<>~Mute(p))
        => (Window > 0 /\ silence = Window ~> mailbox[Mail(Silent)] < Cooldown \/ silence < Window)
=============================================================================
