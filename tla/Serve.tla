-------------------------------- MODULE Serve --------------------------------
(***************************************************************************)
(* The life of the process (runServe in app/app.go, Run in poller.go) over *)
(* its configuration and what it publishes: it is started with one of the  *)
(* operator's configurations, builds its parts, polls, is told to stop or  *)
(* crashes at any moment, and is started again.                            *)
(*                                                                         *)
(* Any configured source may answer a poll: how Priority chooses is in     *)
(* SourceChain and AlertCorrelation.  The background maintenance is idle   *)
(* or in a transaction that outlives its context (JinkoToken).  Runner and *)
(* maintenance send their mails themselves, and a mail may hang for ever   *)
(* (PollAlerts, DialHangs).                                                *)
(***************************************************************************)
EXTENDS Configuration, Discovery

CONSTANT Configs     \* the configurations the operator may start the bridge with

VARIABLES
    install,     \* what stays when the configuration changes: the identity and the manifest
    stage,       \* "off", "built", "serving", "stopping", "joining" or "closing"
    cancelled,   \* is the context of runServe done?
    runner,      \* stream -> "waiting", "fetching", "mailing" before its observers are told,
                 \* "reporting" silence once they are, or "finished"
    keeper,      \* RunBackground: "idle", "busy", "mailing" or "done"
    refused      \* why the last start was refused, or "no"

published == <<disk, mem, job, link, broker>>
process == <<conf, stage, cancelled, runner, keeper, refused>>
vars == <<install, process, published, faults>>

Inverter == "inverter"
Streams == {Inverter, Meter}

ASSUME ServeAssumption ==
    Configs \subseteq Configurations /\ Sources = KnownSources /\ Meter # Inverter

InstallationOf(c) == [deviceID |-> c.deviceID, discoveryStateFile |-> c.discoveryStateFile]

NoProcess ==
    /\ conf' = Nothing /\ mem' = Nothing /\ job' = Nothing
    /\ link' = [open |-> FALSE, hook |-> FALSE]
    /\ stage' = "off" /\ cancelled' = FALSE
    /\ runner' = [s \in Streams |-> "finished"] /\ keeper' = "done"

Init ==
    /\ install \in {InstallationOf(c) : c \in Configs}
    /\ conf = Nothing /\ mem = Nothing /\ job = Nothing
    /\ link = [open |-> FALSE, hook |-> FALSE]
    /\ stage = "off" /\ cancelled = FALSE
    /\ runner = [s \in Streams |-> "finished"] /\ keeper = "done"
    /\ refused = "no" /\ disk = Nothing
    /\ broker = [entities |-> {}, states |-> {}]
    /\ faults = 0

-----------------------------------------------------------------------------
(* Start.                                                                  *)

\* runServe up to the manifest, in its order.
Refusal(c) ==
    IF buildAlertsRefuses(c) THEN "address"
    ELSE IF buildInverterSourceRefuses(c) THEN "source"
    ELSE IF meterRefuses(c) THEN "meter"
    ELSE IF publisherRefuses(c) THEN "publisher"
    ELSE IF ~(c.mqtt /\ c.discoveryStateFile) THEN "no"
    ELSE IF loadRefuses(PrimarySource(c)) THEN "other installation"
    ELSE IF ~validateDiscoveryState(loadDiscoveryState(PrimarySource(c))) THEN "manifest"
    ELSE "no"

\* The settings that matter from then on.
Running(c) ==
    [sourcePriority |-> c.sourcePriority, mqtt |-> c.mqtt, deviceID |-> c.deviceID,
     discoveryStateFile |-> c.discoveryStateFile, meter |-> c.meter,
     alerts |-> c.alerts = "on", maintenance |-> hasMaintenance(c)]

Launch(settings) ==
    LET c == Defaulted(settings) IN
    /\ stage = "off"
    /\ InstallationOf(c) = install
    /\ IF FromCLI(settings) /\ Refusal(c) = "no"
       THEN /\ stage' = "built" /\ conf' = Running(c) /\ refused' = "no"
            /\ mem' = IF c.mqtt THEN FreshPublisher(c, loadDiscoveryState(PrimarySource(c))) ELSE Nothing
       ELSE /\ refused' = IF FromCLI(settings) THEN Refusal(c) ELSE "settings"
            /\ UNCHANGED <<stage, conf, mem>>
    /\ UNCHANGED <<install, cancelled, runner, keeper, disk, job, link, broker, faults>>

\* The listener, then Publisher.Start, which writes a manifest that was missing.
StartFails ==
    /\ stage = "built" /\ Fault
    /\ \/ refused' = "listen" /\ UNCHANGED disk
       \/ /\ mem # Nothing /\ mem.discoveryState # Nothing /\ disk = Nothing
          /\ refused' = "disk" /\ disk' \in {disk, mem.discoveryState}
    /\ NoProcess /\ UNCHANGED <<install, broker>>

Start ==
    /\ stage = "built"
    /\ stage' = "serving"
    /\ disk' = IF mem # Nothing /\ mem.discoveryState # Nothing THEN mem.discoveryState ELSE disk
    /\ runner' = [s \in Streams |-> IF s = Inverter \/ conf.meter THEN "fetching" ELSE "finished"]
    /\ keeper' = IF conf.maintenance THEN "idle" ELSE "done"
    /\ UNCHANGED <<install, conf, cancelled, refused, mem, job, link, broker, faults>>

-----------------------------------------------------------------------------
(* The workers.                                                            *)

\* The runner of s is inside an observer.
Observing(s) == job # Nothing /\ job.stream = s

BeginPoll(s) ==
    /\ runner[s] = "waiting" /\ ~Observing(s)
    /\ runner' = [runner EXCEPT ![s] = "fetching"]
    /\ UNCHANGED <<install, conf, stage, cancelled, keeper, refused, published, faults>>

\* Only the runner of the inverter is given the manager of the alerts.
HasAlerts(s) == s = Inverter /\ conf.alerts

\* A source mails its own failures inside Fetch, EvaluateSnapshot what the answer says.
Mail(s) ==
    /\ runner[s] = "fetching" /\ HasAlerts(s)
    /\ runner' = [runner EXCEPT ![s] = "mailing"]
    /\ UNCHANGED <<install, conf, stage, cancelled, keeper, refused, published, faults>>

FetchAnswers(s) ==
    \/ s = Meter /\ \E R \in Reports[Meter] :
           OnPollSuccess(s, [source |-> Meter, readings |-> R])
    \/ s = Inverter /\ \E source \in Names(conf.sourcePriority) : \E R \in Reports[source] :
           OnPollSuccess(s, [source |-> source, readings |-> R])

\* Fetch answers, in time or with the end of its context, its mails are sent and the
\* observers are told; after a failure silence may be left to report.
FetchReturns(s) ==
    /\ runner[s] \in {"fetching", "mailing"}
    /\ \E next \in {"waiting", "reporting"} :
           /\ runner' = [runner EXCEPT ![s] = next]
           /\ next = "reporting" => HasAlerts(s)
           /\ \/ mem = Nothing /\ UNCHANGED <<published, faults>>
              \/ OnPollFailure(s)
              \/ next = "waiting" /\ FetchAnswers(s)
    /\ UNCHANGED <<install, conf, stage, cancelled, keeper, refused>>

\* EvaluateNoSuccessfulPoll ends, its mail sent if one is due.
ReportEnds(s) ==
    /\ runner[s] = "reporting" /\ ~Observing(s)
    /\ runner' = [runner EXCEPT ![s] = "waiting"]
    /\ UNCHANGED <<install, conf, stage, cancelled, keeper, refused, published, faults>>

\* The select in Run; while a tick is due too, either may be taken.
RunReturns(s) ==
    /\ runner[s] = "waiting" /\ ~Observing(s) /\ cancelled
    /\ runner' = [runner EXCEPT ![s] = "finished"]
    /\ UNCHANGED <<install, conf, stage, cancelled, keeper, refused, published, faults>>

\* The keeper of the token mails its failures before it goes on.
Keep ==
    /\ \/ keeper = "idle" /\ ~cancelled /\ keeper' = "busy"
       \/ keeper = "busy" /\ conf.alerts /\ keeper' = "mailing"
       \/ keeper \in {"busy", "mailing"} /\ keeper' = "idle"
    /\ UNCHANGED <<install, conf, stage, cancelled, runner, refused, published, faults>>

KeeperReturns ==
    /\ keeper = "idle" /\ cancelled
    /\ keeper' = "done"
    /\ UNCHANGED <<install, conf, stage, cancelled, runner, refused, published, faults>>

MQTT ==
    /\ Publish \/ PublishRefused \/ PublishTimesOut \/ PublishLost \/ onConnect \/ Connect \/ ConnectionLost
    /\ stage \notin {"off", "built"}
    /\ UNCHANGED <<install, process>>

-----------------------------------------------------------------------------
(* Stop.                                                                   *)

\* SIGINT or SIGTERM, once runServe listens for them.
Signal ==
    /\ stage \in {"built", "serving"} /\ ~cancelled
    /\ cancelled' = TRUE
    /\ UNCHANGED <<install, conf, stage, runner, keeper, refused, published, faults>>

\* Wrong variant: only the signal cancels the context.
ServeReturns_NoCancel ==
    /\ stage = "serving"
    /\ \/ cancelled /\ UNCHANGED faults
       \/ ~cancelled /\ Fault
    /\ stage' = "stopping"
    /\ UNCHANGED <<install, conf, cancelled, runner, keeper, refused, published>>

\* Serve is shut down, or the listener breaks; stopServeWorkers cancels.
ServeReturns ==
    /\ stage = "serving"
    /\ \/ cancelled /\ UNCHANGED faults
       \/ ~cancelled /\ Fault
    /\ stage' = "stopping" /\ cancelled' = TRUE
    /\ UNCHANGED <<install, conf, runner, keeper, refused, published>>

\* Wrong variant: the maintenance is told to stop, and not awaited.
JoinMaintenance_NotAwaited ==
    /\ stage = "stopping"
    /\ stage' = "joining"
    /\ UNCHANGED <<install, conf, cancelled, runner, keeper, refused, published, faults>>

JoinMaintenance ==
    /\ stage = "stopping" /\ keeper = "done"
    /\ stage' = "joining"
    /\ UNCHANGED <<install, conf, cancelled, runner, keeper, refused, published, faults>>

JoinRunners ==
    /\ stage = "joining" /\ \A s \in Streams : runner[s] = "finished"
    /\ stage' = "closing"
    /\ UNCHANGED <<install, conf, cancelled, runner, keeper, refused, published, faults>>

\* Publisher.Close takes p.mu, says goodbye and disconnects; main returns.
Exit ==
    /\ stage = "closing" /\ job = Nothing
    /\ NoProcess
    /\ UNCHANGED <<install, refused, disk, broker, faults>>

\* The process dies, with any part of a publication on the broker.
Crash ==
    /\ stage # "off" /\ Fault
    /\ IF job # Nothing /\ link.open
       THEN \E arrived \in SUBSET job.messages : broker' = Arrived(broker, arrived, Nothing)
       ELSE UNCHANGED broker
    /\ NoProcess /\ UNCHANGED <<install, refused, disk>>

Next ==
    \/ \E c \in Configs : Launch(c)
    \/ StartFails \/ Start
    \/ \E s \in Streams : BeginPoll(s) \/ Mail(s) \/ FetchReturns(s) \/ ReportEnds(s) \/ RunReturns(s)
    \/ Keep \/ KeeperReturns \/ MQTT
    \/ Signal \/ ServeReturns \/ JoinMaintenance \/ JoinRunners \/ Exit \/ Crash

Spec == Init /\ [][Next]_vars

\* The main goroutine once it is told to stop, and the one of RunBackground.
Main == Start \/ (cancelled /\ ServeReturns) \/ JoinMaintenance \/ JoinRunners \/ Exit
Keeper == Keep \/ KeeperReturns

\* Fetch is bounded by its timeouts and its context but for its mails, publishes
\* by theirs, a rotation by its own; a select takes a branch that is ready again
\* and again.  No mail need ever end.
FairSpec ==
    /\ Spec
    /\ WF_vars(Main) /\ WF_vars(keeper # "mailing" /\ Keeper) /\ WF_vars(job # Nothing /\ MQTT)
    /\ \A s \in Streams :
           WF_vars(runner[s] = "fetching" /\ FetchReturns(s)) /\ SF_vars(RunReturns(s))

-----------------------------------------------------------------------------
(* Properties.                                                             *)

TypeOK ==
    /\ install \in [deviceID : BOOLEAN, discoveryStateFile : BOOLEAN]
    /\ stage \in {"off", "built", "serving", "stopping", "joining", "closing"}
    /\ stage # "off" => conf \in {Running(Defaulted(c)) : c \in Configs}
    /\ cancelled \in BOOLEAN
    /\ runner \in [Streams -> {"waiting", "fetching", "mailing", "reporting", "finished"}]
    /\ keeper \in {"idle", "busy", "mailing", "done"}
    /\ refused \in {"no", "settings", "address", "source", "meter", "publisher",
                    "other installation", "manifest", "listen", "disk"}
    /\ disk \in Manifests \cup {Nothing}
    /\ mem \in Publishers \cup {Nothing}
    /\ job # Nothing =>
           /\ job.who \in {"success", "failure", "connect"} /\ job.stream \in Streams \cup {Nothing}
           /\ job.messages \subseteq Entities /\ job.sig \in Signatures
           /\ job.who = "success" /\ independentMeters =>
                  IF job.stream = Meter THEN job.previous \subseteq Readings
                  ELSE job.previous \in Snapshots \cup {Nothing}
    /\ link \in [open : BOOLEAN, hook : BOOLEAN]
    /\ broker \in [entities : SUBSET Entities, states : SUBSET States]
    /\ faults \in 0 .. MaxFaults

\* What the manifest has on record, and the broker shows, for the one device.
recorded ==
    [k \in Keys |->
        LET R == {r \in allMetrics(disk) : r.key = k} IN
        IF install.discoveryStateFile /\ disk # Nothing /\ R # {}
        THEN CHOOSE r \in R : TRUE ELSE Nothing]
shownEntities ==
    [k \in Keys |->
        LET E == {e \in broker.entities : e.key = k} IN
        IF install.discoveryStateFile /\ E # {} THEN (CHOOSE e \in E : TRUE).reading ELSE Nothing]

Registry == INSTANCE EntityRegistry WITH
    Meanings <- Readings, Unknown <- Nothing, record <- recorded, shown <- shownEntities

\* With a manifest, over any failed write, crash and restart with a changed
\* configuration: an entity is on record before it is shown and never changes
\* its meaning (persistDiscoveryState before the publishes, validation at the
\* merge and at the load).
ImplementsRegistry == Registry!Spec

\* Is entity e available while the state s is retained?
Available(e, s) ==
    /\ e.device = s.device
    /\ e.reading.kind = "alert" =>
           s.domain \in e.domains /\ \E v \in s.values : v.kind = "alert" /\ v.key = e.key

\* Whatever mixture of two publications the broker retains, an available entity
\* shows a value of its own meaning: an alert entity always (its template names
\* the sources it speaks for), any entity when a manifest fixes the meanings.
ValuesKeepTheirMeaning ==
    \A e \in broker.entities, s \in broker.states :
        Available(e, s) /\ (install.discoveryStateFile \/ e.reading.kind = "alert") =>
            \A v \in s.values :
                v.key = e.key /\ (e.reading.kind = "alert" => v.kind = "alert") => v = e.reading

\* A fallback that answers first, for however long, gets no ordinary entity: all
\* the manifest owns was reported by the primary source it is bound to.
PrimaryOwnsOrdinary ==
    disk # Nothing => disk.ordinary \subseteq UNION Reports[disk.primary]

\* What validate accepts, the constructors accept (but for a mail address, which
\* only the notifier parses); and the manifest a process left behind never keeps
\* the next one from starting, unless the primary source was changed.
StartsAsValidated == refused \notin {"source", "meter", "publisher", "manifest"}

\* An installation with a manifest, a meter or several sources is one device in
\* Home Assistant, whichever source answers and whoever is down.
OneDevice ==
    conf # Nothing /\ conf.mqtt /\ (conf.discoveryStateFile \/ conf.meter \/ Len(conf.sourcePriority) > 1) =>
        \A e, f \in broker.entities \cup broker.states : e.device = f.device

\* A process that ends by itself cuts nothing: no rotation of a token, no fetch,
\* no publication is under way.
EndsWhole ==
    [][stage = "closing" /\ stage' = "off" /\ faults' = faults =>
           keeper = "done" /\ job = Nothing /\ \A s \in Streams : runner[s] = "finished"]_vars

\* A process that is told to stop, or stops serving, ends, whatever it is doing, if no
\* mail hangs for ever: stopServeWorkers awaits its senders without a bound of its own.
ShutdownEnds ==
    []<>(runner[Inverter] \notin {"mailing", "reporting"}) /\ []<>(keeper # "mailing")
        => (cancelled \/ stage = "stopping" ~> stage = "off")

==============================================================================
