-------------------------- MODULE AlertCorrelation --------------------------
(***************************************************************************)
(* The alert correlation worker next to the poll (bridge/internal/source/  *)
(* alert_correlation.go and priority.go). The poll observes the raw Modbus *)
(* warning words, keeps the alarm state under a mutex and hands the latest *)
(* decision to the worker through a channel of capacity one; the worker    *)
(* pushes it to the phone and, for a detection, reads both clouds through  *)
(* the same gates the poll fails over to. The device serial number is      *)
(* configured, so one process sees one device.                             *)
(***************************************************************************)
EXTENDS Naturals

CONSTANTS Signatures,       \* non-zero vectors of the six words
          Cooldown,         \* ticks between repeated jobs of one signature
          MaxDecisions      \* bound on the jobs enqueued

ASSUME AlertCorrelationAssumption ==
    /\ "clear" \notin Signatures /\ "invalid" \notin Signatures
    /\ Cooldown \in Nat /\ MaxDecisions \in Nat

VARIABLES
    phase,      \* of the process: "up", "stopping" (its context is done), "down"
    poll,       \* control point of the poll
    vector,     \* the six words of the snapshot the poll is about to observe, or "none"
    active,     \* the alarm state under w.mu ...
    last,       \* ... its signature, or "clear" ...
    sinceTrigger,   \* ... and the ticks since its last job, up to Cooldown
    offered,    \* the job the poll is enqueueing
    queue,      \* the channel: a job or NoJob
    latest,     \* the last job decided on since the worker's state was reset
    decisions,  \* jobs decided on so far: the observation times
    worker,     \* control point of the worker
    job,        \* the job it took last
    jobEnded,   \* the deadline of the evidence phase has passed
    toAsk,      \* clouds the evidence phase has not asked yet
    access,     \* the gate of each cloud: who is queued, who is inside, and
                \* whether the diagnostic inside was told to stop
    evidence,   \* what the last diagnostic of each cloud came to
    pushed      \* the job the worker last tried to push

vars == <<phase, poll, vector, active, last, sinceTrigger, offered, queue, latest, decisions,
          worker, job, jobEnded, toAsk, access, evidence, pushed>>

alarm == <<active, last, sinceTrigger>>
evidencePhase == <<jobEnded, toAsk>>
workerState == <<worker, job, evidencePhase, pushed>>
observation == <<vector, alarm, offered, latest, decisions>>

Clouds == {"jinko", "solarman"}
NoJob == [kind |-> "none", signature |-> "clear", at |-> 0]
FreeGate == [queued |-> {}, inside |-> {}, spoiled |-> FALSE]

\* The poll holds w.mu from the decision until the job is in the channel.
Enqueueing == poll \in {"send", "drain", "resend"}
ContextDone == phase = "stopping"

-----------------------------------------------------------------------------
(* The gates of the clouds, at the grain of SourceAccess *)

\* A diagnostic may get in although its own context has just ended.
Enter(s, c, queued) ==
    access' = [access EXCEPT ![s] =
                 [queued |-> queued, inside |-> {c},
                  spoiled |-> c = "worker" /\ (jobEnded \/ ContextDone)]]

\* Wrong variant of Ask: a diagnostic passes a queued poll.
Ask_Barges(s, c) ==
    IF access[s].inside = {}
    THEN Enter(s, c, access[s].queued)
    ELSE access' = [access EXCEPT ![s].queued = @ \cup {c},
                                  ![s].spoiled = @ \/ (c = "poll" /\ access[s].inside = {"worker"})]

Ask(s, c) ==
    IF access[s].inside = {} /\ (c = "worker" => "poll" \notin access[s].queued)
    THEN Enter(s, c, access[s].queued)
    ELSE access' = [access EXCEPT ![s].queued = @ \cup {c},
                                  ![s].spoiled = @ \/ (c = "poll" /\ access[s].inside = {"worker"})]

EnterFromQueue(s, c) ==
    /\ c \in access[s].queued /\ access[s].inside = {}
    /\ c = "worker" => "poll" \notin access[s].queued
    /\ Enter(s, c, access[s].queued \ {c})

Withdraw(s, c) ==
    /\ c \in access[s].queued
    /\ access' = [access EXCEPT ![s].queued = @ \ {c}]

Leave(s, c) ==
    /\ c \in access[s].inside
    /\ access' = [access EXCEPT ![s].inside = {}, ![s].spoiled = FALSE]

-----------------------------------------------------------------------------
(* The poll: Modbus first, then the clouds in order (Priority.Fetch) *)

PollBegins ==
    /\ phase = "up" /\ poll = "idle"
    /\ poll' = "modbus"
    /\ UNCHANGED <<phase, observation, queue, workerState, access, evidence>>

\* Fetch gives up when its context is done, after whatever source failed.
FailOver(next) == poll' = IF ContextDone THEN "idle" ELSE next

ModbusFails ==
    /\ poll = "modbus"
    /\ FailOver("jinko")
    /\ UNCHANGED <<phase, observation, queue, workerState, access, evidence>>

ModbusSucceeds ==
    /\ poll = "modbus" /\ decisions < MaxDecisions
    /\ vector' \in Signatures \cup {"clear", "invalid"}
    /\ poll' = "observe"
    /\ UNCHANGED <<phase, alarm, offered, latest, decisions, queue, workerState, access, evidence>>

PollAsks(s) ==
    /\ poll = s /\ "poll" \notin access[s].queued \cup access[s].inside
    /\ Ask(s, "poll")
    /\ UNCHANGED <<phase, poll, observation, queue, workerState, evidence>>

PollEnters(s) ==
    /\ EnterFromQueue(s, "poll")
    /\ UNCHANGED <<phase, poll, observation, queue, workerState, evidence>>

PollWithdraws(s) ==
    /\ ContextDone /\ Withdraw(s, "poll")
    /\ poll' = "idle"
    /\ UNCHANGED <<phase, observation, queue, workerState, evidence>>

\* A cloud snapshot is observed too, and ignored: it holds no Modbus words.
PollLeaves(s) ==
    /\ Leave(s, "poll")
    /\ \/ poll' = "idle"
       \/ FailOver(IF s = "jinko" THEN "solarman" ELSE "idle")
    /\ UNCHANGED <<phase, observation, queue, workerState, evidence>>

-----------------------------------------------------------------------------
(* observe *)

CooldownElapsed == Cooldown = 0 \/ sinceTrigger >= Cooldown

Decide(kind, signature) ==
    /\ decisions' = decisions + 1
    /\ offered' = [kind |-> kind, signature |-> signature, at |-> decisions + 1]
    /\ latest' = offered'
    /\ poll' = "send"

Ignore == poll' = "idle" /\ UNCHANGED <<alarm, offered, latest, decisions>>

\* Wrong variant of Observe: a clear vector does not forget the signature.
Observe_KeepsLast ==
    /\ poll = "observe" /\ vector' = "none"
    /\ CASE vector = "invalid" -> Ignore
         [] vector = "clear" ->
              IF ~active THEN Ignore
              ELSE /\ active' = FALSE /\ UNCHANGED <<last, sinceTrigger>>
                   /\ Decide("recovered", "clear")
         [] OTHER ->
              IF vector = last /\ ~CooldownElapsed
              THEN /\ active' = TRUE /\ poll' = "idle"
                   /\ UNCHANGED <<last, sinceTrigger, offered, latest, decisions>>
              ELSE /\ active' = TRUE /\ last' = vector /\ sinceTrigger' = 0
                   /\ Decide("detected", vector)
    /\ UNCHANGED <<phase, queue, workerState, access, evidence>>

\* An incomplete or inexact vector changes nothing; a clear one recovers an active
\* alarm; a non-zero one is reported when it is new or its cooldown has elapsed.
Observe ==
    /\ poll = "observe" /\ vector' = "none"
    /\ CASE vector = "invalid" -> Ignore
         [] vector = "clear" ->
              IF ~active THEN Ignore
              ELSE /\ active' = FALSE /\ last' = "clear" /\ sinceTrigger' = 0
                   /\ Decide("recovered", "clear")
         [] OTHER ->
              IF active /\ vector = last /\ ~CooldownElapsed THEN Ignore
              ELSE /\ active' = TRUE /\ last' = vector /\ sinceTrigger' = 0
                   /\ Decide("detected", vector)
    /\ UNCHANGED <<phase, queue, workerState, access, evidence>>

\* Wrong variants of TrySend: a full channel keeps the older job, ...
TrySend_KeepsOld ==
    /\ poll = "send"
    /\ poll' = "idle" /\ offered' = NoJob
    /\ queue' = IF queue = NoJob THEN offered ELSE queue
    /\ UNCHANGED <<phase, vector, alarm, latest, decisions, workerState, access, evidence>>

\* ... or the poll waits for room while it holds w.mu.
TrySend_Blocks ==
    /\ poll = "send" /\ queue = NoJob
    /\ queue' = offered /\ poll' = "idle" /\ offered' = NoJob
    /\ UNCHANGED <<phase, vector, alarm, latest, decisions, workerState, access, evidence>>

\* enqueueLatestLocked: send if there is room, ...
TrySend ==
    /\ poll = "send"
    /\ IF queue = NoJob
       THEN queue' = offered /\ poll' = "idle" /\ offered' = NoJob
       ELSE poll' = "drain" /\ UNCHANGED <<queue, offered>>
    /\ UNCHANGED <<phase, vector, alarm, latest, decisions, workerState, access, evidence>>

\* ... else take the pending job out, unless the worker just did, ...
Drain ==
    /\ poll = "drain"
    /\ queue' = NoJob /\ poll' = "resend"
    /\ UNCHANGED <<phase, observation, workerState, access, evidence>>

\* ... and send again, or give up should the channel be full once more.
Resend ==
    /\ poll = "resend"
    /\ queue' = IF queue = NoJob THEN offered ELSE queue
    /\ poll' = "idle" /\ offered' = NoJob
    /\ UNCHANGED <<phase, vector, alarm, latest, decisions, workerState, access, evidence>>

CooldownTick ==
    /\ active /\ sinceTrigger < Cooldown
    /\ sinceTrigger' = sinceTrigger + 1
    /\ UNCHANGED <<phase, poll, vector, active, last, offered, latest, decisions, queue,
                   workerState, access, evidence>>

-----------------------------------------------------------------------------
(* The worker *)

WorkerStarts ==
    /\ phase # "down" /\ worker = "off" /\ ~Enqueueing
    /\ worker' = "select"
    /\ UNCHANGED <<phase, poll, observation, queue, job, evidencePhase, pushed,
                   access, evidence>>

WorkerTakes ==
    /\ worker = "select" /\ queue # NoJob
    /\ worker' = "notify" /\ job' = queue /\ queue' = NoJob
    /\ UNCHANGED <<phase, poll, observation, evidencePhase, pushed, access, evidence>>

\* Wrong variant of WorkerNotifies: a callback that fails or panics ends the worker.
WorkerNotifies_Dies ==
    /\ worker = "notify"
    /\ pushed' = job
    /\ worker' \in {"leaving", IF job.kind = "detected" THEN "fetch" ELSE "select"}
    /\ toAsk' = IF job.kind = "detected" THEN Clouds ELSE toAsk
    /\ jobEnded' = FALSE
    /\ UNCHANGED <<phase, poll, observation, queue, job, access, evidence>>

\* One attempt, whose failure or panic is swallowed; a detection is then compared
\* with the clouds under a deadline of its own.
WorkerNotifies ==
    /\ worker = "notify"
    /\ pushed' = job
    /\ IF job.kind = "detected"
       THEN worker' = "fetch" /\ toAsk' = Clouds /\ jobEnded' = FALSE
       ELSE worker' = "select" /\ UNCHANGED evidencePhase
    /\ UNCHANGED <<phase, poll, observation, queue, job, access, evidence>>

WorkerAsks(s) ==
    /\ worker = "fetch" /\ s \in toAsk
    /\ toAsk' = toAsk \ {s}
    /\ Ask(s, "worker")
    /\ evidence' = [evidence EXCEPT ![s] = "none"]
    /\ UNCHANGED <<phase, poll, observation, queue, worker, job, jobEnded, pushed>>

WorkerEnters(s) ==
    /\ EnterFromQueue(s, "worker")
    /\ UNCHANGED <<phase, poll, observation, queue, workerState, evidence>>

WorkerWithdraws(s) ==
    /\ jobEnded \/ ContextDone
    /\ Withdraw(s, "worker")
    /\ evidence' = [evidence EXCEPT ![s] = "aborted"]
    /\ UNCHANGED <<phase, poll, observation, queue, workerState>>

\* What Fetch returned counts, be it an error or a snapshot that fits the job or not,
\* unless the read was cut short.
WorkerSettles(s) ==
    /\ access[s].inside = {"worker"} /\ evidence[s] = "none"
    /\ evidence' = [evidence EXCEPT ![s] = IF access[s].spoiled THEN "aborted" ELSE "answered"]
    /\ UNCHANGED <<phase, poll, observation, queue, workerState, access>>

WorkerLeaves(s) ==
    /\ evidence[s] # "none"
    /\ Leave(s, "worker")
    /\ UNCHANGED <<phase, poll, observation, queue, workerState, evidence>>

Reading(s) == s \in toAsk \/ "worker" \in access[s].queued \cup access[s].inside

\* Wrong variant of WorkerRecords: a worker that must stop does not wait for its reads.
WorkerRecords_Unjoined ==
    /\ worker = "fetch"
    /\ ContextDone \/ \A s \in Clouds : ~Reading(s)
    /\ worker' = "select"
    /\ UNCHANGED <<phase, poll, observation, queue, job, evidencePhase, pushed,
                   access, evidence>>

\* Both reads are in: the evidence is recorded and its completion logged.
WorkerRecords ==
    /\ worker = "fetch"
    /\ \A s \in Clouds : ~Reading(s)
    /\ worker' = "select"
    /\ UNCHANGED <<phase, poll, observation, queue, job, evidencePhase, pushed,
                   access, evidence>>

WorkerStops ==
    /\ worker = "select" /\ ContextDone
    /\ worker' = "leaving"
    /\ UNCHANGED <<phase, poll, observation, queue, job, evidencePhase, pushed,
                   access, evidence>>

\* The deferred reset, under w.mu.
WorkerIsReset ==
    /\ worker = "leaving" /\ ~Enqueueing
    /\ worker' = "done"
    /\ active' = FALSE /\ last' = "clear" /\ sinceTrigger' = 0
    /\ queue' = NoJob /\ latest' = NoJob
    /\ UNCHANGED <<phase, poll, vector, offered, decisions, job, evidencePhase, pushed,
                   access, evidence>>

-----------------------------------------------------------------------------
(* The environment *)

\* The context of the diagnostics ends: whoever is inside a gate is told.
TellWorker ==
    access' = [s \in Clouds |->
                 [access[s] EXCEPT !.spoiled = @ \/ access[s].inside = {"worker"}]]

DeadlinePasses ==
    /\ worker = "fetch" /\ ~jobEnded
    /\ jobEnded' = TRUE
    /\ TellWorker
    /\ UNCHANGED <<phase, poll, observation, queue, worker, job, toAsk, pushed, evidence>>

Stop ==
    /\ phase = "up"
    /\ phase' = "stopping"
    /\ TellWorker
    /\ UNCHANGED <<poll, observation, queue, workerState, evidence>>

\* A crash, or the end of a stopped process: nothing is remembered.
Vanish ==
    /\ phase # "down"
    /\ phase' = "down"
    /\ poll' = "idle" /\ vector' = "none"
    /\ active' = FALSE /\ last' = "clear" /\ sinceTrigger' = 0
    /\ offered' = NoJob /\ queue' = NoJob /\ latest' = NoJob
    /\ worker' = "off" /\ job' = NoJob /\ pushed' = NoJob
    /\ jobEnded' = FALSE /\ toAsk' = {}
    /\ access' = [s \in Clouds |-> FreeGate]
    /\ evidence' = [s \in Clouds |-> "none"]
    /\ UNCHANGED decisions

Start ==
    /\ phase = "down"
    /\ phase' = "up"
    /\ UNCHANGED <<poll, observation, queue, workerState, access, evidence>>

-----------------------------------------------------------------------------
Init ==
    /\ phase = "down" /\ poll = "idle" /\ vector = "none"
    /\ active = FALSE /\ last = "clear" /\ sinceTrigger = 0
    /\ offered = NoJob /\ queue = NoJob /\ latest = NoJob /\ decisions = 0
    /\ worker = "off" /\ job = NoJob /\ jobEnded = FALSE /\ toAsk = {}
    /\ access = [s \in Clouds |-> FreeGate]
    /\ evidence = [s \in Clouds |-> "none"]
    /\ pushed = NoJob

PollSends == Observe \/ TrySend \/ Drain \/ Resend

PollFetches ==
    \/ ModbusFails \/ ModbusSucceeds
    \/ \E s \in Clouds : PollAsks(s) \/ PollEnters(s) \/ PollWithdraws(s) \/ PollLeaves(s)

WorkerReads(s) ==
    WorkerAsks(s) \/ WorkerEnters(s) \/ WorkerWithdraws(s) \/ WorkerSettles(s) \/ WorkerLeaves(s)

WorkerSteps ==
    \/ WorkerStarts \/ WorkerTakes \/ WorkerNotifies \/ WorkerRecords
    \/ WorkerStops \/ WorkerIsReset

Next ==
    \/ PollBegins \/ PollFetches \/ PollSends \/ CooldownTick
    \/ WorkerSteps \/ \E s \in Clouds : WorkerReads(s)
    \/ DeadlinePasses \/ Stop \/ Vanish \/ Start

Spec == Init /\ [][Next]_vars

\* Goroutines are scheduled, timers fire, and every Fetch and push returns by its own
\* timeout. The poll need not begin, and nothing obliges the process to stop or start.
Fairness ==
    /\ WF_vars(PollFetches \/ PollSends)
    /\ WF_vars(WorkerSteps) /\ WF_vars(DeadlinePasses)
    /\ \A s \in Clouds : WF_vars(WorkerReads(s))

FairSpec == Spec /\ Fairness

-----------------------------------------------------------------------------
Jobs == {NoJob} \cup [kind : {"detected"}, signature : Signatures, at : 1..MaxDecisions]
                \cup [kind : {"recovered"}, signature : {"clear"}, at : 1..MaxDecisions]

TypeOK ==
    /\ phase \in {"up", "stopping", "down"}
    /\ poll \in {"idle", "modbus", "observe", "send", "drain", "resend"} \cup Clouds
    /\ vector \in Signatures \cup {"clear", "invalid", "none"}
    /\ active \in BOOLEAN /\ last \in Signatures \cup {"clear"}
    /\ sinceTrigger \in 0..Cooldown /\ decisions \in 0..MaxDecisions
    /\ {offered, queue, latest, job, pushed} \subseteq Jobs
    /\ worker \in {"off", "select", "notify", "fetch", "leaving", "done"}
    /\ jobEnded \in BOOLEAN /\ toAsk \subseteq Clouds
    /\ access \in [Clouds -> [queued : SUBSET {"poll", "worker"},
                              inside : SUBSET {"poll", "worker"}, spoiled : BOOLEAN]]
    /\ evidence \in [Clouds -> {"none", "aborted", "answered"}]

\* The last decision is never lost between the poll and the worker, however the two
\* interleave on a full channel, and jobs keep the order of the observations
\* (enqueueLatestLocked, whose last default is claimed harmless).
LatestIsKept ==
    ~Enqueueing =>
        /\ latest \in {NoJob, queue, job}
        /\ queue # NoJob => queue = latest /\ job.at < queue.at

\* A worker with nothing left to do has last pushed what the alarm state says: the
\* signature that is active, or no alarm (observe, process).
PushesAgree ==
    worker = "select" /\ queue = NoJob /\ ~Enqueueing =>
        IF active THEN pushed.kind = "detected" /\ pushed.signature = last
                  ELSE pushed.kind # "detected"

\* A worker that is between jobs or gone has no read left in any cloud, whatever
\* deadline, preemption or stop ended its evidence phase (process).
WorkerJoins ==
    worker # "fetch" => \A s \in Clouds : ~Reading(s)

Gate(s) == INSTANCE SourceAccess WITH
    Normals <- {"poll"},
    Diagnostics <- {"worker"},
    queued  <- access[s].queued,
    inside  <- access[s].inside,
    spoiled <- IF access[s].spoiled THEN {"worker"} ELSE {},
    yielded <- IF evidence[s] = "answered" THEN {"worker"} ELSE {}

\* Poll and worker together use each cloud only as its gate allows: one Fetch at a
\* time, the poll first, no evidence from a read the poll cut short (fetchDiagnostic).
AccessRespected ==
    [][phase' = "down" \/ \A s \in Clouds : [Gate(s)!Next]_(Gate(s)!accessVars)]_vars

Mailbox == INSTANCE LatestJob WITH
    posted <- IF poll \in {"send", "drain"} THEN decisions - 1 ELSE decisions,
    slot   <- IF poll = "resend" THEN offered.at ELSE queue.at,
    taken  <- job.at,
    reader <- worker \notin {"off", "done"}

\* The three channel operations of enqueueLatestLocked, each of which the worker may
\* come between, are one replacement of the newest job: it happens when the first send
\* finds room, else when the full channel is drained (enqueueLatestLocked, RunBackground).
ImplementsMailbox == Mailbox!Spec

\* Whenever a decision has not been pushed, the worker catches up unless the process
\* ends first: no failed or panicking push, and no race on the channel, leaves it
\* behind (process, notify, enqueueLatestLocked).
PushesCatchUp ==
    phase = "up" /\ latest # NoJob /\ pushed # latest ~> pushed = latest \/ phase # "up"

\* The poll always comes back, whatever the worker and the clouds do: observe never
\* waits for the worker, and a diagnostic never keeps a gate (observe, fetchNormal).
PollReturns == poll # "idle" ~> poll = "idle"

=============================================================================
