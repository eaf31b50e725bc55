----------------------- MODULE AlertCorrelationProofs -----------------------
(***************************************************************************)
(* AlertCorrelation, for any set of signatures, cooldown and number of     *)
(* decisions: type correctness, the latest decision is never lost and the  *)
(* channel implements a mailbox of one place, what was pushed last agrees  *)
(* with the alarm state, the worker joins its reads, and both callers keep *)
(* to the gates of the clouds.                                             *)
(***************************************************************************)
EXTENDS AlertCorrelation, TLAPS

USE AlertCorrelationAssumption DEF AlertCorrelationAssumption

-----------------------------------------------------------------------------
(* Type correctness                                                        *)

\* The bound on the decisions is checked before the snapshot is observed.
Observing ==
    poll = "observe" =>
        decisions < MaxDecisions /\ vector \in Signatures \cup {"clear", "invalid"}

TypeInv == TypeOK /\ Observing

Gates == [queued : SUBSET {"poll", "worker"}, inside : SUBSET {"poll", "worker"},
          spoiled : BOOLEAN]

LEMMA NoJobTyped == NoJob \in Jobs /\ NoJob.at = 0 /\ NoJob.kind = "none"
BY DEF NoJob, Jobs

LEMMA JobsTyped ==
    ASSUME NEW j \in Jobs
    PROVE  j.at \in 0 .. MaxDecisions /\ (j = NoJob <=> j.at = 0)
BY DEF Jobs, NoJob

LEMMA GatesTyped ==
    ASSUME TypeOK, NEW s \in Clouds, NEW c \in {"poll", "worker"},
           \/ Ask(s, c) \/ EnterFromQueue(s, c) \/ Withdraw(s, c) \/ Leave(s, c)
    PROVE  access' \in [Clouds -> Gates]
<1>1. access \in [Clouds -> Gates]
  BY DEF TypeOK, Gates
<1>2. ASSUME NEW g \in Gates PROVE [access EXCEPT ![s] = g] \in [Clouds -> Gates]
  BY <1>1
<1>3. ASSUME NEW q \in SUBSET {"poll", "worker"}, Enter(s, c, q)
      PROVE  access' \in [Clouds -> Gates]
  <2>1. [queued |-> q, inside |-> {c}, spoiled |-> c = "worker" /\ (jobEnded \/ ContextDone)]
            \in Gates
    BY DEF Gates, TypeOK, ContextDone
  <2>2. QED
    BY <1>2, <1>3, <2>1 DEF Enter
<1>4. access[s] \in Gates /\ access[s].queued \in SUBSET {"poll", "worker"}
  BY <1>1 DEF Gates
<1>5. CASE Ask(s, c)
  <2>1. CASE access[s].inside = {} /\ (c = "worker" => "poll" \notin access[s].queued)
    BY <1>3, <1>4, <1>5, <2>1 DEF Ask
  <2>2. CASE ~(access[s].inside = {} /\ (c = "worker" => "poll" \notin access[s].queued))
    BY <1>1, <1>5, <2>2 DEF Ask, Gates
  <2>3. QED
    BY <2>1, <2>2
<1>6. CASE EnterFromQueue(s, c)
  <2>1. access[s].queued \ {c} \in SUBSET {"poll", "worker"}
    BY <1>4
  <2>2. QED
    BY <1>3, <1>6, <2>1 DEF EnterFromQueue
<1>7. CASE Withdraw(s, c)
  BY <1>1, <1>7 DEF Withdraw, Gates
<1>8. CASE Leave(s, c)
  <2>1. [access[s] EXCEPT !.inside = {}, !.spoiled = FALSE] \in Gates
    BY <1>1 DEF Gates
  <2>2. access' = [access EXCEPT ![s] = [access[s] EXCEPT !.inside = {}, !.spoiled = FALSE]]
    BY <1>1, <1>8 DEF Leave
  <2>3. QED
    BY <1>2, <2>1, <2>2
<1>9. QED
  BY <1>5, <1>6, <1>7, <1>8

LEMMA FreeGateTyped == [s \in Clouds |-> FreeGate] \in [Clouds -> Gates]
BY DEF FreeGate, Gates

LEMMA TellTyped ==
    ASSUME TypeOK, TellWorker
    PROVE  access' \in [Clouds -> Gates]
<1>1. access \in [Clouds -> Gates]
  BY DEF TypeOK, Gates
<1>2. ASSUME NEW s \in Clouds
      PROVE  [access[s] EXCEPT !.spoiled = @ \/ access[s].inside = {"worker"}] \in Gates
  BY <1>1 DEF Gates
<1>3. QED
  BY <1>2 DEF TellWorker

LEMMA PollTyped ==
    ASSUME TypeInv, PollBegins \/ PollFetches \/ CooldownTick
    PROVE  TypeInv'
<1> USE DEF TypeInv
<1>1. CASE PollBegins
  BY <1>1 DEF PollBegins, TypeOK, Observing, observation, workerState, alarm, evidencePhase
<1>2. CASE ModbusFails
  BY <1>2 DEF ModbusFails, FailOver, TypeOK, Observing, observation, workerState, alarm, evidencePhase, Clouds
<1>3. CASE ModbusSucceeds
  BY <1>3 DEF ModbusSucceeds, TypeOK, Observing, workerState, alarm, evidencePhase
<1>4. ASSUME NEW s \in Clouds, PollAsks(s) \/ PollEnters(s) \/ PollWithdraws(s) \/ PollLeaves(s)
      PROVE  TypeInv'
  <2>1. access' \in [Clouds -> Gates]
    BY <1>4, GatesTyped DEF PollAsks, PollEnters, PollWithdraws, PollLeaves
  <2>2. poll' \in {poll, "idle", "solarman"}
    BY <1>4 DEF PollAsks, PollEnters, PollWithdraws, PollLeaves, FailOver
  <2>3. UNCHANGED <<phase, observation, queue, workerState, evidence>>
    BY <1>4 DEF PollAsks, PollEnters, PollWithdraws, PollLeaves
  <2>4. QED
    BY <2>1, <2>2, <2>3 DEF TypeOK, Observing, observation, workerState, alarm, evidencePhase, Clouds, Gates
<1>5. CASE CooldownTick
  BY <1>5 DEF CooldownTick, TypeOK, Observing, workerState, evidencePhase
<1>6. QED
  BY <1>1, <1>2, <1>3, <1>4, <1>5 DEF PollFetches

LEMMA SendsTyped ==
    ASSUME TypeInv, PollSends
    PROVE  TypeInv'
<1> USE DEF TypeInv
<1>1. CASE Observe
  <2>1. ASSUME NEW sig, Decide("detected", sig), sig \in Signatures, poll = "observe"
        PROVE  decisions' \in 0 .. MaxDecisions /\ offered' \in Jobs /\ latest' \in Jobs /\ poll' = "send"
    BY <2>1 DEF Decide, Jobs, TypeOK, Observing
  <2>2. ASSUME Decide("recovered", "clear"), poll = "observe"
        PROVE  decisions' \in 0 .. MaxDecisions /\ offered' \in Jobs /\ latest' \in Jobs /\ poll' = "send"
    BY <2>2 DEF Decide, Jobs, TypeOK, Observing
  <2>3. /\ decisions' \in 0 .. MaxDecisions /\ offered' \in Jobs /\ latest' \in Jobs
        /\ poll' \in {"idle", "send"}
        /\ active' \in BOOLEAN /\ last' \in Signatures \cup {"clear"}
        /\ sinceTrigger' \in 0 .. Cooldown
    <3>1. CASE Ignore
      BY <3>1 DEF Ignore, alarm, TypeOK
    <3>2. CASE ~Ignore
      <4>1. vector \in Signatures \cup {"clear"} /\ poll = "observe"
        BY <1>1, <3>2 DEF Observe, Observing
      <4>2. CASE vector = "clear"
        <5>1. active' = FALSE /\ last' = "clear" /\ sinceTrigger' = 0 /\ Decide("recovered", "clear")
          BY <1>1, <3>2, <4>2 DEF Observe
        <5>2. active' \in BOOLEAN
          BY <5>1
        <5>3. sinceTrigger' \in 0 .. Cooldown
          BY <5>1
        <5>4. QED
          BY <2>2, <4>1, <5>1, <5>2, <5>3
      <4>3. CASE vector # "clear"
        <5>1. /\ active' = TRUE /\ last' = vector /\ sinceTrigger' = 0
              /\ vector \in Signatures /\ Decide("detected", vector)
          BY <1>1, <3>2, <4>1, <4>3 DEF Observe
        <5>2. QED
          BY <2>1, <4>1, <5>1
      <4>4. QED
        BY <4>2, <4>3
    <3>3. QED
      BY <3>1, <3>2
  <2>4. UNCHANGED <<phase, queue, workerState, access, evidence>> /\ vector' = "none"
    BY <1>1 DEF Observe
  <2>5. QED
    BY <2>3, <2>4 DEF TypeOK, Observing, workerState, evidencePhase
<1>2. CASE TrySend
  BY <1>2, NoJobTyped DEF TrySend, TypeOK, Observing, alarm, workerState, evidencePhase
<1>3. CASE Drain
  BY <1>3, NoJobTyped DEF Drain, TypeOK, Observing, observation, alarm, workerState, evidencePhase
<1>4. CASE Resend
  BY <1>4, NoJobTyped DEF Resend, TypeOK, Observing, alarm, workerState, evidencePhase
<1>5. QED
  BY <1>1, <1>2, <1>3, <1>4 DEF PollSends

LEMMA WorkerTyped ==
    ASSUME TypeInv, WorkerSteps \/ DeadlinePasses \/ Stop \/ Vanish \/ Start
    PROVE  TypeInv'
<1> USE DEF TypeInv
<1>1. CASE WorkerStarts \/ WorkerRecords \/ WorkerStops
  BY <1>1 DEF WorkerStarts, WorkerRecords, WorkerStops, TypeOK, Observing, observation, alarm, evidencePhase
<1>2. CASE WorkerTakes
  BY <1>2, NoJobTyped DEF WorkerTakes, TypeOK, Observing, observation, alarm, evidencePhase
<1>3. CASE WorkerNotifies
  <2>1. /\ worker' \in {"fetch", "select"} /\ toAsk' \subseteq Clouds /\ jobEnded' \in BOOLEAN
        /\ pushed' \in Jobs
    BY <1>3 DEF WorkerNotifies, TypeOK, evidencePhase
  <2>2. UNCHANGED <<phase, poll, observation, queue, job, access, evidence>>
    BY <1>3 DEF WorkerNotifies
  <2>3. QED
    BY <2>1, <2>2 DEF TypeOK, Observing, observation, alarm
<1>4. CASE WorkerIsReset
  <2>1. active' \in BOOLEAN
    BY <1>4 DEF WorkerIsReset
  <2>2. sinceTrigger' \in 0 .. Cooldown
    BY <1>4 DEF WorkerIsReset
  <2>3. {offered, queue, latest, job, pushed}' \subseteq Jobs
    BY <1>4, NoJobTyped DEF WorkerIsReset, TypeOK
  <2>4. QED
    BY <1>4, <2>1, <2>2, <2>3 DEF WorkerIsReset, TypeOK, Observing, evidencePhase
<1>5. CASE DeadlinePasses
  <2>1. access' \in [Clouds -> Gates]
    BY <1>5, TellTyped DEF DeadlinePasses
  <2>2. QED
    BY <1>5, <2>1 DEF DeadlinePasses, TypeOK, Observing, observation, alarm, Gates
<1>6. CASE Stop
  <2>1. access' \in [Clouds -> Gates]
    BY <1>6, TellTyped DEF Stop
  <2>2. QED
    BY <1>6, <2>1 DEF Stop, TypeOK, Observing, observation, alarm, workerState, evidencePhase, Gates
<1>7. CASE Vanish
  <2>1. access' \in [Clouds -> Gates] /\ {offered, queue, latest, job, pushed}' \subseteq Jobs
    BY <1>7, NoJobTyped, FreeGateTyped DEF Vanish
  <2>2. sinceTrigger' \in 0 .. Cooldown /\ evidence' \in [Clouds -> {"none", "aborted", "answered"}]
    BY <1>7 DEF Vanish
  <2>3. QED
    BY <1>7, <2>1, <2>2 DEF Vanish, TypeOK, Observing, Gates
<1>8. CASE Start
  BY <1>8 DEF Start, TypeOK, Observing, observation, alarm, workerState, evidencePhase
<1>9. QED
  BY <1>1, <1>2, <1>3, <1>4, <1>5, <1>6, <1>7, <1>8 DEF WorkerSteps

LEMMA ReadsTyped ==
    ASSUME TypeInv, NEW s \in Clouds, WorkerReads(s)
    PROVE  TypeInv'
<1> USE DEF TypeInv
<1>1. access' \in [Clouds -> Gates]
  BY GatesTyped DEF WorkerReads, WorkerAsks, WorkerEnters, WorkerWithdraws, WorkerSettles, WorkerLeaves, TypeOK, Gates
<1>2. evidence' \in [Clouds -> {"none", "aborted", "answered"}] /\ toAsk' \subseteq Clouds
  BY DEF WorkerReads, WorkerAsks, WorkerEnters, WorkerWithdraws, WorkerSettles, WorkerLeaves, TypeOK, workerState, evidencePhase
<1>3. UNCHANGED <<phase, poll, observation, queue, worker, job, jobEnded, pushed>>
  BY DEF WorkerReads, WorkerAsks, WorkerEnters, WorkerWithdraws, WorkerSettles, WorkerLeaves, workerState, evidencePhase
<1>4. QED
  BY <1>1, <1>2, <1>3 DEF TypeOK, Observing, observation, alarm, Gates

LEMMA InitTyped == Init => TypeInv
<1> SUFFICES ASSUME Init PROVE TypeInv
  OBVIOUS
<1>1. access \in [Clouds -> Gates] /\ {offered, queue, latest, job, pushed} \subseteq Jobs
  BY NoJobTyped, FreeGateTyped DEF Init
<1>2. sinceTrigger \in 0 .. Cooldown /\ decisions \in 0 .. MaxDecisions
      /\ evidence \in [Clouds -> {"none", "aborted", "answered"}]
  BY DEF Init
<1>3. QED
  BY <1>1, <1>2 DEF Init, TypeInv, TypeOK, Observing, Gates

LEMMA NextTyped == TypeInv /\ [Next]_vars => TypeInv'
<1> SUFFICES ASSUME TypeInv, [Next]_vars PROVE TypeInv'
  OBVIOUS
<1>1. CASE UNCHANGED vars
  BY <1>1 DEF vars, TypeInv, TypeOK, Observing
<1>2. CASE Next
  BY <1>2, PollTyped, SendsTyped, WorkerTyped, ReadsTyped DEF Next
<1>3. QED
  BY <1>1, <1>2

\* The poll, the worker, the channel and the gates keep their types.
THEOREM TypeCorrect == Spec => []TypeOK
<1>1. TypeInv => TypeOK
  BY DEF TypeInv
<1>2. QED
  BY <1>1, InitTyped, NextTyped, PTL DEF Spec

-----------------------------------------------------------------------------
(* What an operation does to the gates                                     *)

Others(s) == \A t \in Clouds \ {s} : access'[t] = access[t]

Changes(s, queued, inside) ==
    access'[s].queued = queued /\ access'[s].inside = inside /\ Others(s)

LEMMA EnterDoes ==
    ASSUME TypeOK, NEW s \in Clouds, NEW c \in {"poll", "worker"}, NEW q, Enter(s, c, q)
    PROVE  Changes(s, q, {c}) /\ (access'[s].spoiled => c = "worker")
BY DEF TypeOK, Enter, Changes, Others

LEMMA AskDoes ==
    ASSUME TypeOK, NEW s \in Clouds, NEW c \in {"poll", "worker"}, Ask(s, c)
    PROVE  \/ /\ access[s].inside = {} /\ (c = "worker" => "poll" \notin access[s].queued)
              /\ Changes(s, access[s].queued, {c})
              /\ access'[s].spoiled => c = "worker"
           \/ /\ access[s].inside # {} \/ c = "worker"
              /\ Changes(s, access[s].queued \cup {c}, access[s].inside)
              /\ access'[s].spoiled <=>
                     (access[s].spoiled \/ (c = "poll" /\ access[s].inside = {"worker"}))
<1>1. CASE access[s].inside = {} /\ (c = "worker" => "poll" \notin access[s].queued)
  <2>1. Enter(s, c, access[s].queued)
    BY <1>1 DEF Ask
  <2>2. QED
    BY <1>1, <2>1, EnterDoes
<1>2. CASE ~(access[s].inside = {} /\ (c = "worker" => "poll" \notin access[s].queued))
  <2>1. access' = [access EXCEPT ![s].queued = @ \cup {c},
                                 ![s].spoiled = @ \/ (c = "poll" /\ access[s].inside = {"worker"})]
    BY <1>2 DEF Ask
  <2>2. access \in [Clouds -> Gates]
    BY DEF TypeOK, Gates
  <2>3. Changes(s, access[s].queued \cup {c}, access[s].inside)
    BY <2>1, <2>2 DEF Changes, Others, Gates
  <2>4. access'[s].spoiled <=>
            (access[s].spoiled \/ (c = "poll" /\ access[s].inside = {"worker"}))
    BY <2>1, <2>2 DEF Gates
  <2>5. QED
    BY <1>2, <2>3, <2>4
<1>3. QED
  BY <1>1, <1>2

LEMMA EnterFromQueueDoes ==
    ASSUME TypeOK, NEW s \in Clouds, NEW c \in {"poll", "worker"}, EnterFromQueue(s, c)
    PROVE  /\ c \in access[s].queued /\ access[s].inside = {}
           /\ c = "worker" => "poll" \notin access[s].queued
           /\ Changes(s, access[s].queued \ {c}, {c})
           /\ access'[s].spoiled => c = "worker"
BY EnterDoes DEF EnterFromQueue

LEMMA WithdrawDoes ==
    ASSUME TypeOK, NEW s \in Clouds, NEW c \in {"poll", "worker"}, Withdraw(s, c)
    PROVE  /\ c \in access[s].queued
           /\ Changes(s, access[s].queued \ {c}, access[s].inside)
           /\ access'[s].spoiled = access[s].spoiled
BY DEF Withdraw, TypeOK, Changes, Others

LEMMA LeaveDoes ==
    ASSUME TypeOK, NEW s \in Clouds, NEW c \in {"poll", "worker"}, Leave(s, c)
    PROVE  /\ c \in access[s].inside
           /\ Changes(s, access[s].queued, {})
           /\ ~access'[s].spoiled
BY DEF Leave, TypeOK, Changes, Others

LEMMA TellDoes ==
    ASSUME TypeOK, TellWorker
    PROVE  \A s \in Clouds :
             /\ access'[s].queued = access[s].queued /\ access'[s].inside = access[s].inside
             /\ access'[s].spoiled <=> (access[s].spoiled \/ access[s].inside = {"worker"})
<1>1. access \in [Clouds -> Gates]
  BY DEF TypeOK, Gates
<1>2. QED
  BY <1>1 DEF TellWorker, Gates

-----------------------------------------------------------------------------
(* Poll and worker at the gates                                            *)

\* Each caller is queued or inside only where its control point says so, one of
\* them inside at a time; a cloud still to ask has no diagnostic, and a queued
\* diagnostic has no outcome yet.
GateOf(s) ==
    /\ access[s].inside \in {{}, {"poll"}, {"worker"}}
    /\ access[s].queued \cap access[s].inside = {}
    /\ "poll" \in access[s].queued \cup access[s].inside => poll = s
    /\ "worker" \in access[s].queued \cup access[s].inside => worker = "fetch" /\ s \notin toAsk
    /\ "worker" \in access[s].queued => evidence[s] = "none"
    /\ s \in toAsk => worker = "fetch"

GateInv == \A s \in Clouds : GateOf(s)

LEMMA PollKeepsGates ==
    ASSUME TypeOK, GateInv, NEW s \in Clouds,
           PollAsks(s) \/ PollEnters(s) \/ PollWithdraws(s) \/ PollLeaves(s)
    PROVE  GateInv'
<1>1. GateOf(s) /\ UNCHANGED <<worker, toAsk, evidence>>
  BY DEF GateInv, PollAsks, PollEnters, PollWithdraws, PollLeaves, workerState, evidencePhase
<1>2. poll = s
  BY <1>1, EnterFromQueueDoes, WithdrawDoes, LeaveDoes
     DEF GateOf, PollAsks, PollEnters, PollWithdraws, PollLeaves
<1>3. CASE PollAsks(s)
  <2>1. GateOf(s)'
    BY <1>1, <1>2, <1>3, AskDoes DEF GateOf, PollAsks, Changes
  <2>2. QED
    BY <1>1, <1>3, <2>1, AskDoes DEF GateInv, GateOf, PollAsks, Changes, Others
<1>4. CASE PollEnters(s)
  <2>1. GateOf(s)'
    BY <1>1, <1>2, <1>4, EnterFromQueueDoes DEF GateOf, PollEnters, Changes
  <2>2. QED
    BY <1>1, <1>4, <2>1, EnterFromQueueDoes DEF GateInv, GateOf, PollEnters, Changes, Others
<1>5. CASE PollWithdraws(s)
  <2>1. GateOf(s)'
    BY <1>1, <1>2, <1>5, WithdrawDoes DEF GateOf, PollWithdraws, Changes
  <2>2. QED
    BY <1>1, <1>2, <1>5, <2>1, WithdrawDoes DEF GateInv, GateOf, PollWithdraws, Changes, Others
<1>6. CASE PollLeaves(s)
  <2>1. GateOf(s)'
    BY <1>1, <1>2, <1>6, LeaveDoes DEF GateOf, PollLeaves, Changes
  <2>2. QED
    BY <1>1, <1>2, <1>6, <2>1, LeaveDoes DEF GateInv, GateOf, PollLeaves, Changes, Others
<1>7. QED
  BY <1>3, <1>4, <1>5, <1>6

LEMMA WorkerKeepsGates ==
    ASSUME TypeOK, GateInv, NEW s \in Clouds, WorkerReads(s)
    PROVE  GateInv'
<1>1. GateOf(s) /\ UNCHANGED <<poll, worker>>
  BY DEF GateInv, WorkerReads, WorkerAsks, WorkerEnters, WorkerWithdraws, WorkerSettles, WorkerLeaves, workerState
<1>2. /\ \A t \in Clouds \ {s} : evidence'[t] = evidence[t]
      /\ toAsk' \subseteq toAsk
  BY DEF WorkerReads, WorkerAsks, WorkerEnters, WorkerWithdraws, WorkerSettles, WorkerLeaves,
         workerState, evidencePhase, TypeOK
<1>3. CASE WorkerAsks(s)
  <2>1. evidence'[s] = "none" /\ s \notin toAsk' /\ Ask(s, "worker") /\ worker = "fetch" /\ s \in toAsk
    BY <1>3 DEF WorkerAsks, TypeOK
  <2>2. GateOf(s)'
    BY <1>1, <2>1, AskDoes DEF GateOf, Changes
  <2>3. QED
    BY <1>1, <1>2, <2>1, <2>2, AskDoes DEF GateInv, GateOf, Changes, Others
<1>4. CASE WorkerEnters(s)
  <2>1. GateOf(s)'
    BY <1>1, <1>4, EnterFromQueueDoes DEF GateOf, WorkerEnters, Changes, workerState, evidencePhase
  <2>2. QED
    BY <1>1, <1>2, <1>4, <2>1, EnterFromQueueDoes DEF GateInv, GateOf, WorkerEnters, Changes, Others
<1>5. CASE WorkerWithdraws(s)
  <2>1. GateOf(s)'
    BY <1>1, <1>5, WithdrawDoes DEF GateOf, WorkerWithdraws, Changes, workerState, evidencePhase
  <2>2. QED
    BY <1>1, <1>2, <1>5, <2>1, WithdrawDoes DEF GateInv, GateOf, WorkerWithdraws, Changes, Others
<1>6. CASE WorkerSettles(s)
  <2>1. "worker" \notin access[s].queued /\ access' = access
    BY <1>1, <1>6 DEF GateOf, WorkerSettles
  <2>2. QED
    BY <1>1, <1>2, <1>6, <2>1 DEF GateInv, GateOf, WorkerSettles, workerState, evidencePhase
<1>7. CASE WorkerLeaves(s)
  <2>1. GateOf(s)'
    BY <1>1, <1>7, LeaveDoes DEF GateOf, WorkerLeaves, Changes, workerState, evidencePhase
  <2>2. QED
    BY <1>1, <1>2, <1>7, <2>1, LeaveDoes DEF GateInv, GateOf, WorkerLeaves, Changes, Others
<1>8. QED
  BY <1>3, <1>4, <1>5, <1>6, <1>7 DEF WorkerReads

LEMMA OtherKeepsGates ==
    ASSUME TypeOK, GateInv,
           \/ PollBegins \/ ModbusFails \/ ModbusSucceeds \/ PollSends \/ CooldownTick
           \/ WorkerSteps \/ DeadlinePasses \/ Stop \/ Vanish \/ Start
    PROVE  GateInv'
<1>1. CASE PollBegins \/ ModbusFails \/ ModbusSucceeds \/ PollSends
  <2>1. poll \notin Clouds
    BY <1>1 DEF PollBegins, ModbusFails, ModbusSucceeds, PollSends, Observe, TrySend, Drain, Resend, Clouds
  <2>2. UNCHANGED <<worker, toAsk, access, evidence>>
    BY <1>1 DEF PollBegins, ModbusFails, ModbusSucceeds, PollSends, Observe, TrySend, Drain, Resend,
                workerState, evidencePhase
  <2>3. QED
    BY <2>1, <2>2 DEF GateInv, GateOf
<1>2. CASE CooldownTick \/ Start
  BY <1>2 DEF CooldownTick, Start, GateInv, GateOf, observation, workerState, evidencePhase
<1>3. CASE WorkerSteps
  <2>1. UNCHANGED <<poll, access, evidence>>
    BY <1>3 DEF WorkerSteps, WorkerStarts, WorkerTakes, WorkerNotifies, WorkerRecords, WorkerStops, WorkerIsReset
  <2>2. \/ worker # "fetch" /\ (worker' # "fetch" => toAsk' = toAsk)
        \/ WorkerRecords
    BY <1>3 DEF WorkerSteps, WorkerStarts, WorkerTakes, WorkerNotifies, WorkerStops, WorkerIsReset, evidencePhase
  <2>3. QED
    BY <2>1, <2>2 DEF GateInv, GateOf, WorkerRecords, Reading, evidencePhase
<1>4. CASE DeadlinePasses \/ Stop
  <2>1. UNCHANGED <<poll, worker, toAsk, evidence>> /\ TellWorker
    BY <1>4 DEF DeadlinePasses, Stop, workerState, evidencePhase
  <2>2. QED
    BY <2>1, TellDoes DEF GateInv, GateOf
<1>5. CASE Vanish
  BY <1>5 DEF Vanish, GateInv, GateOf, FreeGate
<1>6. QED
  BY <1>1, <1>2, <1>3, <1>4, <1>5

LEMMA GatesCorrect == Spec => [](TypeInv /\ GateInv)
<1>1. Init => GateInv
  BY DEF Init, GateInv, GateOf, FreeGate
<1>2. TypeInv /\ GateInv /\ [Next]_vars => GateInv'
  <2> SUFFICES ASSUME TypeInv, GateInv, [Next]_vars PROVE GateInv'
    OBVIOUS
  <2>1. CASE UNCHANGED vars
    BY <2>1 DEF vars, GateInv, GateOf
  <2>2. CASE Next
    BY <2>2, PollKeepsGates, WorkerKeepsGates, OtherKeepsGates DEF Next, PollFetches, TypeInv
  <2>3. QED
    BY <2>1, <2>2
<1>3. QED
  BY InitTyped, NextTyped, <1>1, <1>2, PTL DEF Spec

\* A worker between jobs has no read left in any cloud.
THEOREM JoinsCorrect == Spec => []WorkerJoins
<1>1. TypeInv /\ GateInv => WorkerJoins
  BY DEF GateInv, GateOf, WorkerJoins, Reading
<1>2. QED
  BY <1>1, GatesCorrect, PTL

-----------------------------------------------------------------------------
(* The latest decision is never lost                                       *)

\* A job carries the number of its decision. While the poll enqueues, what it
\* offers is newer than both the job in the channel and the one the worker took,
\* so whoever empties the channel in between takes an older one; and nobody else
\* fills the channel before the poll sends again.
LatestInv ==
    /\ job.at <= decisions /\ queue.at <= decisions
    /\ queue # NoJob => job.at < queue.at
    /\ Enqueueing => /\ offered = latest /\ offered.at = decisions
                     /\ job.at < decisions /\ queue.at < decisions
    /\ poll = "resend" => queue = NoJob
    /\ ~Enqueueing => latest \in {NoJob, queue, job} /\ (queue # NoJob => queue = latest)

LEMMA LatestFrame ==
    ASSUME LatestInv, UNCHANGED <<job, queue, offered, latest, decisions>>,
           poll' = poll \/ (~Enqueueing /\ ~Enqueueing')
    PROVE  LatestInv'
BY DEF LatestInv, Enqueueing

LEMMA LatestKept ==
    ASSUME TypeInv, GateInv, LatestInv, [Next]_vars
    PROVE  LatestInv'
<1> USE DEF TypeInv
<1>0. decisions \in Nat /\ \A j \in Jobs : j.at \in Nat /\ (j = NoJob <=> j.at = 0)
  BY JobsTyped DEF TypeOK
<1>t. {offered, queue, latest, job} \subseteq Jobs
  BY DEF TypeOK
<1>1. CASE UNCHANGED vars
  BY <1>1, LatestFrame DEF vars
<1>2. CASE PollBegins \/ ModbusFails \/ ModbusSucceeds
  <2>1. ~Enqueueing /\ ~Enqueueing'
    BY <1>2 DEF PollBegins, ModbusFails, ModbusSucceeds, FailOver, Enqueueing
  <2>2. QED
    BY <1>2, <2>1, LatestFrame
       DEF PollBegins, ModbusFails, ModbusSucceeds, observation, workerState
<1>3. ASSUME NEW s \in Clouds, PollAsks(s) \/ PollEnters(s) \/ PollWithdraws(s) \/ PollLeaves(s)
      PROVE  LatestInv'
  <2>1. poll = s
    BY <1>3, EnterFromQueueDoes, WithdrawDoes, LeaveDoes
       DEF GateInv, GateOf, PollAsks, PollEnters, PollWithdraws, PollLeaves
  <2>2. poll' \in {poll, "idle", "solarman"}
    BY <1>3 DEF PollAsks, PollEnters, PollWithdraws, PollLeaves, FailOver
  <2>3. ~Enqueueing /\ ~Enqueueing'
    BY <2>1, <2>2 DEF Enqueueing, Clouds
  <2>4. QED
    BY <1>3, <2>3, LatestFrame DEF PollAsks, PollEnters, PollWithdraws, PollLeaves, observation, workerState
<1>4. CASE Observe
  <2>1. CASE Ignore
    BY <1>4, <2>1, LatestFrame DEF Observe, Ignore, Enqueueing, workerState
  <2>2. CASE ~Ignore
    <3>1. /\ decisions' = decisions + 1 /\ latest' = offered' /\ offered'.at = decisions'
          /\ poll' = "send" /\ UNCHANGED <<queue, job>> /\ poll = "observe"
      BY <1>4, <2>2 DEF Observe, Decide, workerState
    <3>2. QED
      BY <1>0, <1>t, <3>1 DEF LatestInv, Enqueueing
  <2>3. QED
    BY <2>1, <2>2
<1>5. CASE TrySend
  BY <1>0, <1>t, <1>5, NoJobTyped DEF TrySend, LatestInv, Enqueueing, workerState
<1>6. CASE Drain
  BY <1>0, <1>t, <1>6, NoJobTyped DEF Drain, LatestInv, Enqueueing, workerState, observation
<1>7. CASE Resend
  BY <1>0, <1>t, <1>7, NoJobTyped DEF Resend, LatestInv, Enqueueing, workerState
<1>8. CASE CooldownTick \/ DeadlinePasses \/ Stop \/ Start
  BY <1>8, LatestFrame DEF CooldownTick, DeadlinePasses, Stop, Start, observation, workerState
<1>9. CASE WorkerTakes
  <2>1. CASE Enqueueing
    BY <1>0, <1>t, <1>9, <2>1, NoJobTyped DEF WorkerTakes, LatestInv, Enqueueing, observation
  <2>2. CASE ~Enqueueing
    BY <1>0, <1>t, <1>9, <2>2, NoJobTyped DEF WorkerTakes, LatestInv, Enqueueing, observation
  <2>3. QED
    BY <2>1, <2>2
<1>10. CASE WorkerStarts \/ WorkerNotifies \/ WorkerRecords \/ WorkerStops
  BY <1>10, LatestFrame DEF WorkerStarts, WorkerNotifies, WorkerRecords, WorkerStops, observation
<1>11. CASE WorkerIsReset
  BY <1>0, <1>t, <1>11, NoJobTyped DEF WorkerIsReset, LatestInv, Enqueueing
<1>12. CASE Vanish
  BY <1>0, <1>12, NoJobTyped DEF Vanish, LatestInv, Enqueueing
<1>13. ASSUME NEW s \in Clouds, WorkerReads(s) PROVE LatestInv'
  BY <1>13, LatestFrame
     DEF WorkerReads, WorkerAsks, WorkerEnters, WorkerWithdraws, WorkerSettles, WorkerLeaves,
         observation, workerState
<1>14. QED
  BY <1>1, <1>2, <1>3, <1>4, <1>5, <1>6, <1>7, <1>8, <1>9, <1>10, <1>11, <1>12, <1>13
     DEF Next, PollFetches, PollSends, WorkerSteps

LEMMA LatestAlways == Spec => [](TypeInv /\ GateInv /\ LatestInv)
<1>1. Init => LatestInv
  BY NoJobTyped DEF Init, LatestInv, Enqueueing
<1>2. QED
  BY GatesCorrect, LatestKept, <1>1, PTL DEF Spec

\* However poll and worker interleave on a full channel, the last decision is in it
\* or with the worker, in the order of the observations.
THEOREM LatestCorrect == Spec => []LatestIsKept
<1>1. LatestInv => LatestIsKept
  BY DEF LatestInv, LatestIsKept
<1>2. QED
  BY <1>1, LatestAlways, PTL

-----------------------------------------------------------------------------
(* The channel is a mailbox of the newest job                              *)

MailboxStep == Mailbox!Arrive \/ Mailbox!Post \/ Mailbox!Take \/ Mailbox!Depart

\* What the abstract mailbox sees.
Posted == IF poll \in {"send", "drain"} THEN decisions - 1 ELSE decisions
Slot == IF poll = "resend" THEN offered.at ELSE queue.at
Reader == worker \notin {"off", "done"}

LEMMA MailboxIdles ==
    ASSUME Posted' = Posted, Slot' = Slot, job'.at = job.at, Reader' = Reader
    PROVE  [MailboxStep]_(Mailbox!vars)
BY DEF Mailbox!vars, Posted, Slot, Reader

\* A step of the poll outside the enqueueing, and of everybody else, that leaves the
\* channel alone.
LEMMA MailboxFrame ==
    ASSUME UNCHANGED <<offered, queue, job, decisions>>, Reader' = Reader,
           poll' = poll \/ (~Enqueueing /\ ~Enqueueing')
    PROVE  [MailboxStep]_(Mailbox!vars)
<1>1. Posted' = Posted /\ Slot' = Slot
  BY DEF Posted, Slot, Enqueueing
<1>2. QED
  BY <1>1, MailboxIdles

\* The poll's three operations: the second send never decides anything.
LEMMA MailboxPosts ==
    ASSUME TypeInv, LatestInv, Observe \/ TrySend \/ Drain \/ Resend
    PROVE  [MailboxStep]_(Mailbox!vars)
<1>0. decisions \in Nat /\ NoJob.at = 0
  BY NoJobTyped DEF TypeInv, TypeOK
<1>1. CASE Observe
  <2>1. Reader' = Reader /\ UNCHANGED <<queue, job>> /\ poll = "observe"
    BY <1>1 DEF Observe, Reader, workerState
  <2>2. CASE Ignore
    BY <2>1, <2>2, MailboxFrame DEF Ignore, Enqueueing
  <2>3. CASE ~Ignore
    <3>1. poll' = "send" /\ decisions' = decisions + 1
      BY <1>1, <2>3 DEF Observe, Decide
    <3>2. Posted' = Posted /\ Slot' = Slot
      BY <1>0, <2>1, <3>1 DEF Posted, Slot
    <3>3. QED
      BY <2>1, <3>2, MailboxIdles
  <2>4. QED
    BY <2>2, <2>3
<1>2. CASE TrySend
  <2>1. Reader' = Reader /\ UNCHANGED <<decisions, job>> /\ poll = "send" /\ offered.at = decisions
    BY <1>2 DEF TrySend, Reader, workerState, LatestInv, Enqueueing
  <2>2. CASE queue = NoJob
    <3>1. poll' = "idle" /\ queue' = offered
      BY <1>2, <2>2 DEF TrySend
    <3>2. Posted = decisions - 1 /\ Posted' = decisions /\ Slot' = decisions
      BY <2>1, <3>1 DEF Posted, Slot
    <3>3. Mailbox!Post
      BY <1>0, <2>1, <3>2 DEF Mailbox!Post, Posted, Slot, Reader
    <3>4. QED
      BY <3>3 DEF MailboxStep
  <2>3. CASE queue # NoJob
    <3>1. poll' = "drain" /\ UNCHANGED <<queue, offered>>
      BY <1>2, <2>3 DEF TrySend
    <3>2. Posted' = Posted /\ Slot' = Slot
      BY <2>1, <3>1 DEF Posted, Slot
    <3>3. QED
      BY <2>1, <3>2, MailboxIdles
  <2>4. QED
    BY <2>2, <2>3
<1>3. CASE Drain
  <2>1. /\ Reader' = Reader /\ UNCHANGED <<decisions, job, offered>> /\ poll = "drain"
        /\ poll' = "resend" /\ offered.at = decisions
    BY <1>3 DEF Drain, Reader, workerState, observation, LatestInv, Enqueueing
  <2>2. Posted = decisions - 1 /\ Posted' = decisions /\ Slot' = decisions
    BY <2>1 DEF Posted, Slot
  <2>3. Mailbox!Post
    BY <1>0, <2>1, <2>2 DEF Mailbox!Post, Posted, Slot, Reader
  <2>4. QED
    BY <2>3 DEF MailboxStep
<1>4. CASE Resend
  <2>1. /\ Reader' = Reader /\ UNCHANGED <<decisions, job>> /\ poll = "resend" /\ poll' = "idle"
        /\ queue' = offered
    BY <1>4 DEF Resend, Reader, workerState, LatestInv
  <2>2. Posted' = Posted /\ Slot' = Slot
    BY <2>1 DEF Posted, Slot
  <2>3. QED
    BY <2>1, <2>2, MailboxIdles
<1>5. QED
  BY <1>1, <1>2, <1>3, <1>4

\* The worker comes, takes and goes.
LEMMA MailboxReads ==
    ASSUME TypeInv, LatestInv, WorkerStarts \/ WorkerTakes \/ WorkerIsReset \/ Vanish
    PROVE  MailboxStep
<1>0. decisions \in Nat /\ NoJob.at = 0
  BY NoJobTyped DEF TypeInv, TypeOK
<1>1. CASE WorkerStarts
  <2>1. ~Reader /\ Reader' /\ UNCHANGED <<poll, offered, queue, job, decisions>>
    BY <1>1 DEF WorkerStarts, Reader, observation
  <2>2. Posted' = Posted /\ Slot' = Slot
    BY <2>1 DEF Posted, Slot
  <2>3. Mailbox!Arrive
    BY <2>1, <2>2 DEF Mailbox!Arrive, Posted, Slot, Reader
  <2>4. QED
    BY <2>3 DEF MailboxStep
<1>2. CASE WorkerTakes
  <2>1. /\ Reader /\ Reader' /\ UNCHANGED <<poll, offered, decisions>>
        /\ queue # NoJob /\ job' = queue /\ queue' = NoJob
    BY <1>2 DEF WorkerTakes, Reader, observation
  <2>2. poll # "resend" /\ queue.at # 0
    <3>1. queue \in Jobs
      BY DEF TypeInv, TypeOK
    <3>2. QED
      BY <2>1, <3>1, JobsTyped DEF LatestInv
  <2>3. Posted' = Posted /\ Slot = queue.at /\ Slot' = 0
    BY <1>0, <2>1, <2>2 DEF Posted, Slot
  <2>4. Mailbox!Take
    BY <2>1, <2>2, <2>3 DEF Mailbox!Take, Posted, Slot, Reader
  <2>5. QED
    BY <2>4 DEF MailboxStep
<1>3. CASE WorkerIsReset
  <2>1. /\ ~Enqueueing /\ ~Reader' /\ UNCHANGED <<poll, decisions, job>> /\ queue' = NoJob
    BY <1>3 DEF WorkerIsReset, Reader
  <2>2. Posted' = Posted /\ Posted \in Nat /\ Slot' = 0
    BY <1>0, <2>1 DEF Posted, Slot, Enqueueing
  <2>3. Mailbox!Depart
    BY <2>1, <2>2 DEF Mailbox!Depart, Posted, Slot, Reader
  <2>4. QED
    BY <2>3 DEF MailboxStep
<1>4. CASE Vanish
  <2>1. /\ ~Reader' /\ poll' = "idle" /\ decisions' = decisions /\ queue' = NoJob /\ job' = NoJob
    BY <1>4 DEF Vanish, Reader
  <2>2. Posted' = decisions /\ Posted \in {decisions, decisions - 1} /\ Slot' = 0
    BY <1>0, <2>1 DEF Posted, Slot
  <2>3. Mailbox!Depart
    BY <1>0, <2>1, <2>2 DEF Mailbox!Depart, Posted, Slot, Reader
  <2>4. QED
    BY <2>3 DEF MailboxStep
<1>5. QED
  BY <1>1, <1>2, <1>3, <1>4

LEMMA MailboxNext ==
    ASSUME TypeInv, GateInv, LatestInv, [Next]_vars
    PROVE  [MailboxStep]_(Mailbox!vars)
<1>1. CASE PollBegins \/ ModbusFails \/ ModbusSucceeds
  <2>1. ~Enqueueing /\ ~Enqueueing'
    BY <1>1 DEF PollBegins, ModbusFails, ModbusSucceeds, FailOver, Enqueueing
  <2>2. UNCHANGED <<offered, queue, job, decisions>> /\ Reader' = Reader
    BY <1>1 DEF PollBegins, ModbusFails, ModbusSucceeds, observation, workerState, Reader
  <2>3. QED
    BY <2>1, <2>2, MailboxFrame
<1>2. ASSUME NEW s \in Clouds, PollAsks(s) \/ PollEnters(s) \/ PollWithdraws(s) \/ PollLeaves(s)
      PROVE  [MailboxStep]_(Mailbox!vars)
  <2>1. poll = s
    BY <1>2, EnterFromQueueDoes, WithdrawDoes, LeaveDoes
       DEF GateInv, GateOf, PollAsks, PollEnters, PollWithdraws, PollLeaves, TypeInv
  <2>2. poll' \in {poll, "idle", "solarman"}
    BY <1>2 DEF PollAsks, PollEnters, PollWithdraws, PollLeaves, FailOver
  <2>3. ~Enqueueing /\ ~Enqueueing'
    BY <2>1, <2>2 DEF Enqueueing, Clouds
  <2>4. UNCHANGED <<offered, queue, job, decisions>> /\ Reader' = Reader
    BY <1>2 DEF PollAsks, PollEnters, PollWithdraws, PollLeaves, observation, workerState, Reader
  <2>5. QED
    BY <2>3, <2>4, MailboxFrame
<1>3. CASE \/ CooldownTick \/ DeadlinePasses \/ Stop \/ Start \/ UNCHANGED vars
           \/ WorkerNotifies \/ WorkerRecords \/ WorkerStops
           \/ \E s \in Clouds : WorkerReads(s)
  <2>1. UNCHANGED <<poll, offered, queue, job, decisions>> /\ Reader' = Reader
    BY <1>3 DEF CooldownTick, DeadlinePasses, Stop, Start, vars, WorkerNotifies, WorkerRecords,
         WorkerStops, WorkerReads, WorkerAsks, WorkerEnters, WorkerWithdraws, WorkerSettles,
         WorkerLeaves, observation, workerState, Reader
  <2>2. QED
    BY <2>1, MailboxFrame
<1>4. CASE PollSends
  BY <1>4, MailboxPosts DEF PollSends
<1>5. CASE WorkerStarts \/ WorkerTakes \/ WorkerIsReset \/ Vanish
  BY <1>5, MailboxReads
<1>6. QED
  BY <1>1, <1>2, <1>3, <1>4, <1>5 DEF Next, PollFetches, WorkerSteps

\* The channel of capacity one, filled by three operations the worker may come
\* between, is an atomic mailbox that keeps the newest job (enqueueLatestLocked).
THEOREM MailboxCorrect == Spec => ImplementsMailbox
<1>1. Init => Mailbox!Init
  BY DEF Init, Mailbox!Init, NoJob
<1>2. TypeInv /\ GateInv /\ LatestInv /\ [Next]_vars => [MailboxStep]_(Mailbox!vars)
  BY MailboxNext
<1>3. QED
  BY <1>1, <1>2, LatestAlways, PTL DEF Spec, ImplementsMailbox, Mailbox!Spec, MailboxStep

-----------------------------------------------------------------------------
(* What was pushed agrees with the alarm state                             *)

\* The alarm state is the last decision, until the worker's reset forgets both; a
\* worker past its push has pushed its job; and it has no job before a decision.
PushInv ==
    /\ active => latest.kind = "detected" /\ latest.signature = last
    /\ ~active => latest.kind # "detected"
    /\ worker \in {"off", "select", "fetch", "leaving"} => pushed = job
    /\ worker # "done" /\ latest = NoJob => job = NoJob

LEMMA PushFrame ==
    ASSUME PushInv, UNCHANGED <<active, last, latest, worker, job, pushed>>
    PROVE  PushInv'
BY DEF PushInv

LEMMA PushKept ==
    ASSUME TypeInv, LatestInv, PushInv, [Next]_vars
    PROVE  PushInv'
<1> USE DEF TypeInv
<1>0. decisions \in Nat /\ \A j \in Jobs : j.at \in Nat /\ (j = NoJob <=> j.at = 0)
  BY JobsTyped DEF TypeOK
<1>t. {offered, queue, latest, job} \subseteq Jobs
  BY DEF TypeOK
<1>1. CASE UNCHANGED vars
  BY <1>1, PushFrame DEF vars
<1>2. CASE PollBegins \/ PollFetches \/ CooldownTick \/ TrySend \/ Drain \/ Resend
           \/ DeadlinePasses \/ Stop \/ Start
  <2>1. UNCHANGED <<active, last, latest, worker, job, pushed>>
    BY <1>2 DEF PollBegins, PollFetches, ModbusFails, ModbusSucceeds, PollAsks, PollEnters,
                PollWithdraws, PollLeaves, CooldownTick, TrySend, Drain, Resend,
                DeadlinePasses, Stop, Start, observation, alarm, workerState
  <2>2. QED
    BY <2>1, PushFrame
<1>3. CASE Observe
  <2>1. CASE Ignore
    BY <1>3, <2>1, PushFrame DEF Observe, Ignore, alarm, workerState
  <2>2. CASE ~Ignore /\ vector = "clear"
    BY <1>3, <2>2 DEF Observe, Decide, PushInv, workerState, NoJob
  <2>3. CASE ~Ignore /\ vector # "clear"
    BY <1>3, <2>3 DEF Observe, Decide, PushInv, workerState, NoJob
  <2>4. QED
    BY <2>1, <2>2, <2>3
<1>4. CASE WorkerTakes
  <2>1. latest # NoJob
    BY <1>0, <1>t, <1>4 DEF WorkerTakes, LatestInv
  <2>2. QED
    BY <1>4, <2>1 DEF WorkerTakes, PushInv, observation, alarm
<1>5. CASE WorkerStarts \/ WorkerNotifies \/ WorkerRecords \/ WorkerStops
  BY <1>5 DEF WorkerStarts, WorkerNotifies, WorkerRecords, WorkerStops, PushInv, observation, alarm
<1>6. CASE WorkerIsReset
  BY <1>6, NoJobTyped DEF WorkerIsReset, PushInv
<1>7. CASE Vanish
  BY <1>7, NoJobTyped DEF Vanish, PushInv
<1>8. ASSUME NEW s \in Clouds, WorkerReads(s) PROVE PushInv'
  <2>1. UNCHANGED <<active, last, latest, worker, job, pushed>>
    BY <1>8 DEF WorkerReads, WorkerAsks, WorkerEnters, WorkerWithdraws, WorkerSettles, WorkerLeaves,
                observation, alarm, workerState
  <2>2. QED
    BY <2>1, PushFrame
<1>9. QED
  BY <1>1, <1>2, <1>3, <1>4, <1>5, <1>6, <1>7, <1>8 DEF Next, PollSends, WorkerSteps

\* A worker with nothing left to do has last pushed what the alarm state says.
THEOREM PushCorrect == Spec => []PushesAgree
<1>1. Init => PushInv
  BY NoJobTyped DEF Init, PushInv
<1>2. TypeInv /\ LatestInv /\ PushInv => PushesAgree
  BY NoJobTyped DEF LatestInv, PushInv, PushesAgree
<1>3. QED
  BY LatestAlways, PushKept, <1>1, <1>2, PTL DEF Spec

-----------------------------------------------------------------------------
(* Both callers keep to the gates                                          *)

LEMMA GateIdles ==
    ASSUME NEW s \in Clouds, access'[s].queued = access[s].queued,
           access'[s].inside = access[s].inside, access'[s].spoiled <=> access[s].spoiled,
           evidence'[s] = "answered" <=> evidence[s] = "answered"
    PROVE  [Gate(s)!Next]_(Gate(s)!accessVars)
BY DEF Gate!accessVars

LEMMA GateAsks ==
    ASSUME TypeOK, GateInv, NEW s \in Clouds, NEW c \in {"poll", "worker"}, Ask(s, c),
           c \notin access[s].queued \cup access[s].inside,
           IF c = "poll" THEN evidence'[s] = evidence[s] ELSE evidence'[s] = "none"
    PROVE  [Gate(s)!Next]_(Gate(s)!accessVars)
<1>0. GateOf(s)
  BY DEF GateInv
<1>1. CASE /\ access[s].inside = {} /\ (c = "worker" => "poll" \notin access[s].queued)
           /\ Changes(s, access[s].queued, {c})
           /\ access'[s].spoiled => c = "worker"
  <2>1. Gate(s)!Occupy(c)
    BY <1>1 DEF Gate!Occupy, Changes
  <2>2. Gate(s)!EnterAtOnce(c)
    BY <1>1, <2>1 DEF Gate!EnterAtOnce, Changes
  <2>3. QED
    BY <2>2 DEF Gate!Next, Gate!Callers
<1>2. CASE /\ access[s].inside # {} \/ c = "worker"
           /\ Changes(s, access[s].queued \cup {c}, access[s].inside)
           /\ access'[s].spoiled <=>
                  (access[s].spoiled \/ (c = "poll" /\ access[s].inside = {"worker"}))
  <2>1. Gate(s)!Ask(c)
    <3>1. CASE c = "poll"
      <4>1. access[s].inside = {"worker"} /\ access'[s].spoiled
        BY <1>0, <1>2, <3>1 DEF GateOf
      <4>2. QED
        BY <1>2, <3>1, <4>1 DEF Gate!Ask, Changes
    <3>2. CASE c = "worker"
      BY <1>2, <3>2 DEF Gate!Ask, Changes
    <3>3. QED
      BY <3>1, <3>2
  <2>2. QED
    BY <2>1 DEF Gate!Next, Gate!Callers
<1>3. QED
  BY <1>1, <1>2, AskDoes

LEMMA GateEnters ==
    ASSUME TypeOK, NEW s \in Clouds, NEW c \in {"poll", "worker"}, EnterFromQueue(s, c),
           evidence'[s] = evidence[s]
    PROVE  [Gate(s)!Next]_(Gate(s)!accessVars)
<1>1. /\ c \in access[s].queued /\ access[s].inside = {}
      /\ c = "worker" => "poll" \notin access[s].queued
      /\ Changes(s, access[s].queued \ {c}, {c})
      /\ access'[s].spoiled => c = "worker"
  BY EnterFromQueueDoes
<1>2. Gate(s)!Occupy(c)
  BY <1>1 DEF Gate!Occupy, Changes
<1>3. Gate(s)!EnterFromQueue(c)
  BY <1>1, <1>2 DEF Gate!EnterFromQueue, Changes
<1>4. QED
  BY <1>3 DEF Gate!Next, Gate!Callers

LEMMA GateWithdraws ==
    ASSUME TypeOK, NEW s \in Clouds, NEW c \in {"poll", "worker"}, Withdraw(s, c),
           evidence'[s] = "answered" <=> evidence[s] = "answered"
    PROVE  [Gate(s)!Next]_(Gate(s)!accessVars)
<1>1. Gate(s)!Withdraw(c)
  BY WithdrawDoes DEF Gate!Withdraw, Changes
<1>2. QED
  BY <1>1 DEF Gate!Next, Gate!Callers

LEMMA GateLeaves ==
    ASSUME TypeOK, NEW s \in Clouds, NEW c \in {"poll", "worker"}, Leave(s, c),
           evidence'[s] = evidence[s]
    PROVE  [Gate(s)!Next]_(Gate(s)!accessVars)
<1>1. Gate(s)!Exit(c)
  BY LeaveDoes DEF Gate!Exit, Changes
<1>2. QED
  BY <1>1 DEF Gate!Next, Gate!Callers

\* The context of the worker's reads ends: each one inside expires.
LEMMA GateTold ==
    ASSUME TypeOK, GateInv, NEW s \in Clouds, TellWorker, UNCHANGED evidence
    PROVE  [Gate(s)!Next]_(Gate(s)!accessVars)
<1>1. CASE access[s].inside = {"worker"}
  <2>1. Gate(s)!Expire("worker")
    BY <1>1, TellDoes DEF Gate!Expire
  <2>2. QED
    BY <2>1 DEF Gate!Next, Gate!Callers
<1>2. CASE access[s].inside # {"worker"}
  BY <1>2, TellDoes, GateIdles
<1>3. QED
  BY <1>1, <1>2

LEMMA GateStep ==
    ASSUME TypeOK, GateInv, [Next]_vars, phase' # "down", NEW s \in Clouds
    PROVE  [Gate(s)!Next]_(Gate(s)!accessVars)
<1>1. CASE access' = access /\ evidence' = evidence
  BY <1>1, GateIdles
<1>2. ASSUME NEW t \in Clouds, t # s,
             \/ PollAsks(t) \/ PollEnters(t) \/ PollWithdraws(t) \/ PollLeaves(t)
             \/ WorkerReads(t)
      PROVE  [Gate(s)!Next]_(Gate(s)!accessVars)
  <2>1. access'[s] = access[s]
    BY <1>2, AskDoes, EnterFromQueueDoes, WithdrawDoes, LeaveDoes
       DEF PollAsks, PollEnters, PollWithdraws, PollLeaves, WorkerReads, WorkerAsks, WorkerEnters,
           WorkerWithdraws, WorkerSettles, WorkerLeaves, Changes, Others
  <2>2. evidence'[s] = evidence[s]
    BY <1>2 DEF PollAsks, PollEnters, PollWithdraws, PollLeaves, WorkerReads, WorkerAsks,
                WorkerEnters, WorkerWithdraws, WorkerSettles, WorkerLeaves, TypeOK
  <2>3. QED
    BY <2>1, <2>2, GateIdles
<1>3. CASE PollAsks(s) \/ PollEnters(s) \/ PollWithdraws(s) \/ PollLeaves(s)
  BY <1>3, GateAsks, GateEnters, GateWithdraws, GateLeaves
     DEF PollAsks, PollEnters, PollWithdraws, PollLeaves
<1>4. CASE WorkerAsks(s)
  <2>1. "worker" \notin access[s].queued \cup access[s].inside /\ evidence'[s] = "none"
    BY <1>4 DEF WorkerAsks, GateInv, GateOf, TypeOK
  <2>2. QED
    BY <1>4, <2>1, GateAsks DEF WorkerAsks
<1>5. CASE WorkerEnters(s) \/ WorkerLeaves(s)
  BY <1>5, GateEnters, GateLeaves DEF WorkerEnters, WorkerLeaves
<1>6. CASE WorkerWithdraws(s)
  <2>1. evidence[s] = "none" /\ evidence'[s] = "aborted"
    BY <1>6, WithdrawDoes DEF WorkerWithdraws, GateInv, GateOf, TypeOK
  <2>2. QED
    BY <1>6, <2>1, GateWithdraws DEF WorkerWithdraws
<1>7. CASE WorkerSettles(s)
  <2>1. /\ access[s].inside = {"worker"} /\ evidence[s] = "none" /\ access' = access
        /\ evidence'[s] = IF access[s].spoiled THEN "aborted" ELSE "answered"
    BY <1>7 DEF WorkerSettles, TypeOK
  <2>2. CASE access[s].spoiled
    BY <2>1, <2>2, GateIdles
  <2>3. CASE ~access[s].spoiled
    <3>1. Gate(s)!Settle("worker")
      BY <2>1, <2>3 DEF Gate!Settle
    <3>2. QED
      BY <3>1 DEF Gate!Next, Gate!Callers
  <2>4. QED
    BY <2>2, <2>3
<1>8. CASE DeadlinePasses \/ Stop
  BY <1>8, GateTold DEF DeadlinePasses, Stop
<1>9. CASE \/ PollBegins \/ ModbusFails \/ ModbusSucceeds \/ PollSends \/ CooldownTick
           \/ WorkerSteps \/ Start \/ UNCHANGED vars
  BY <1>1, <1>9
     DEF PollBegins, ModbusFails, ModbusSucceeds, PollSends, Observe, TrySend, Drain, Resend,
         CooldownTick, WorkerSteps, WorkerStarts, WorkerTakes, WorkerNotifies, WorkerRecords,
         WorkerStops, WorkerIsReset, Start, vars
<1>10. ~Vanish
  BY DEF Vanish
<1>11. CASE \E t \in Clouds : PollAsks(t) \/ PollEnters(t) \/ PollWithdraws(t) \/ PollLeaves(t)
  BY <1>2, <1>3, <1>11
<1>12. CASE \E t \in Clouds : WorkerReads(t)
  <2>1. PICK t \in Clouds : WorkerReads(t)
    BY <1>12
  <2>2. CASE t = s
    BY <1>4, <1>5, <1>6, <1>7, <2>1, <2>2 DEF WorkerReads
  <2>3. QED
    BY <1>2, <2>1, <2>2
<1>13. QED
  BY <1>8, <1>9, <1>10, <1>11, <1>12 DEF Next, PollFetches

\* At each cloud, poll and worker together implement the abstract gate, for any
\* number of observations, until the process ends.
THEOREM AccessCorrect == Spec => AccessRespected
<1>1. TypeInv /\ GateInv /\ [Next]_vars
        => [phase' = "down" \/ \A s \in Clouds : [Gate(s)!Next]_(Gate(s)!accessVars)]_vars
  BY GateStep DEF TypeInv
<1>2. QED
  BY GatesCorrect, <1>1, PTL DEF Spec, AccessRespected

=============================================================================
