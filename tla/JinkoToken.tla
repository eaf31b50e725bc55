----------------------------- MODULE JinkoToken -----------------------------
(***************************************************************************)
(* The OAuth credential lifecycle of the Jinko cloud client                *)
(* (bridge/internal/source/jinko/client.go).                               *)
(*                                                                         *)
(* Two goroutines share one client: the telemetry poll ("fetch", Fetch)    *)
(* and the token keeper ("bg", RunBackground).  Both may rotate the pair   *)
(* of access and refresh token.  A rotation holds refreshGate while it     *)
(* writes an in-flight marker to the state file, sends one OAuth POST and  *)
(* writes the answer.  The process may crash between any two of these      *)
(* steps, be shut down, and restart from its configuration and the file.   *)
(*                                                                         *)
(* A token is a number, 0 is the empty string.  A time is a number, 0 is   *)
(* Go's zero time: an access token whose expiry is 0 has no known expiry.  *)
(***************************************************************************)
EXTENDS Naturals

CONSTANTS MaxToken,        \* bound: tokens the OAuth server and the operator issue
          MaxTime,         \* bound: the clock stops here
          RefreshBefore,   \* refreshBefore(), in ticks
          MinInterval,     \* minimumBackgroundRefreshInterval, in ticks
          Lifetimes,       \* lifetimes a new access token may have, 0: not stated
          ConfigLifetimes, \* the same for an access token put into the configuration
          Configs          \* credential pairs the operator may have configured

ASSUME JinkoTokenAssumption ==
    /\ MaxToken \in Nat \ {0}
    /\ MaxTime \in Nat \ {0}
    /\ RefreshBefore \in Nat
    /\ MinInterval \in Nat
    /\ Lifetimes \subseteq Nat
    /\ Configs \subseteq [access : {0, 1}, refresh : {0, 1}]
    /\ ConfigLifetimes \subseteq Nat

VARIABLES
    mode,       \* "down", "up", or "stopping" after serve cancelled its context
    now,        \* the clock, wall and steady
    config,     \* configured credential pair, read by New
    file,       \* the token state file; NoState when it does not exist
    client,     \* in-memory token fields of Client
    pending,    \* pendingTokenState: rotated pair whose write failed
    gate,       \* holder of refreshGate
    wake,       \* maintenanceWake holds its one buffered token
    pc, task,   \* per goroutine: control point, and what it wants the gate for
    seen,       \* tokenVersion of the poll's last detail request
    tx,         \* per goroutine: material of the rotation, then the pair it got
    nextToken,  \* first token number not issued yet
    expiry,     \* expiry of each access token
    live,       \* refresh tokens the OAuth server accepts
    net,        \* the last OAuth request and the server's answer to it
    spent       \* history: refresh tokens POSTed and not proven to be still valid

serverVars == <<nextToken, expiry, live, net>>
vars == <<mode, now, config, file, client, pending, gate, wake, pc, task, seen,
          tx, nextToken, expiry, live, net, spent>>

Procs == {"fetch", "bg"}
Tokens == 0..MaxToken
Times == Nat

State == [access : Tokens, refresh : Tokens, updatedAt : Times, marker : BOOLEAN]
NoState == [access |-> 0, refresh |-> 0, updatedAt |-> 0, marker |-> FALSE]

NoPending == [state |-> NoState, base |-> 0]
NoRequest == [refresh |-> 0, access |-> 0, next |-> 0, answered |-> FALSE]

RefreshTasks == {"proactive", "unauthorized", "background"}
PendingTasks == {"pendStart", "pendEnd", "pendLoop"}
Transaction == {"prepare", "post", "await", "persist"}

-----------------------------------------------------------------------------
\* The expiry of a token issued now.
ExpiryOf(life) == IF life = 0 THEN 0 ELSE now + life

(* Startup *)

\* preferTokenState: whether the access token of the file beats the configured one.
PreferState(c, f) ==
    /\ f.access # 0
    /\ \/ c.access = 0
       \/ f.access = c.access
       \/ expiry[f.access] > expiry[c.access]
       \/ expiry[f.access] = 0 /\ expiry[c.access] = 0 /\ f.updatedAt # 0

\* armBackgroundRefreshFloorFromPersisted: a rotation younger than MinInterval
\* keeps the keeper waiting for the rest of it.
FloorAfterRestart(updatedAt) ==
    IF updatedAt = 0 THEN 0 ELSE updatedAt + MinInterval

NoClient == [access |-> 0, refresh |-> 0, updatedAt |-> 0, uncertain |-> FALSE,
             refreshedUnknown |-> FALSE, version |-> 0, floor |-> 0]

\* Wrong variant of Loaded: the persisted marker is not authoritative.
Loaded_IgnoresMarker(c, f) ==
    LET prefer == PreferState(c, f) IN
    [NoClient EXCEPT !.access = IF prefer THEN f.access ELSE c.access,
                     !.refresh = IF prefer \/ (c.access = 0 /\ f.refresh # 0)
                                 THEN f.refresh ELSE c.refresh,
                     !.version = 1]

\* New: credentials selected from the configuration and the state file.
Loaded(c, f) ==
    LET prefer == PreferState(c, f)
        takeRefresh == /\ f.refresh # 0
                       /\ \/ prefer
                          \/ c.access = 0 /\ f.access = 0
                          \/ c.refresh = 0
        access == IF prefer THEN f.access ELSE c.access
        updatedAt == IF prefer THEN f.updatedAt ELSE 0
    IN  [access           |-> access,
         refresh          |-> IF takeRefresh THEN f.refresh ELSE c.refresh,
         updatedAt        |-> updatedAt,
         uncertain        |-> f.marker,
         refreshedUnknown |-> FALSE,
         version          |-> 1,
         floor            |-> IF access = 0 THEN 0 ELSE FloorAfterRestart(updatedAt)]

-----------------------------------------------------------------------------
(* Decisions taken under tokenMu *)

\* canRefreshLocked.
CanRefresh == client.refresh # 0 /\ ~client.uncertain

\* proactiveRefreshDueLocked.
ProactiveDue ==
    \/ client.access = 0
    \/ expiry[client.access] # 0 /\ expiry[client.access] <= now + RefreshBefore

\* backgroundRefreshScheduleLocked: the keeper has a time to wait for at all ...
BackgroundEnabled ==
    /\ CanRefresh
    /\ \/ client.access = 0
       \/ expiry[client.access] # 0
       \/ ~client.refreshedUnknown
       \/ client.updatedAt = 0

\* ... and that time has come.
BackgroundDue ==
    /\ BackgroundEnabled
    /\ client.access # 0 /\ expiry[client.access] # 0
         => /\ client.floor <= now
            /\ expiry[client.access] <= now + RefreshBefore

\* hasUsableBearerToken.
Usable == client.access # 0 /\ (expiry[client.access] = 0 \/ expiry[client.access] > now)

\* Wrong variant of Activated: no floor under the next background rotation.
Activated_NoFloor(s) ==
    [access |-> s.access, refresh |-> s.refresh, updatedAt |-> s.updatedAt,
     uncertain |-> s.marker, refreshedUnknown |-> expiry[s.access] = 0,
     version |-> client.version + 1, floor |-> 0]

\* activateTokenStateLocked.
Activated(s) ==
    [access           |-> s.access,
     refresh          |-> s.refresh,
     updatedAt        |-> s.updatedAt,
     uncertain        |-> s.marker,
     refreshedUnknown |-> expiry[s.access] = 0,
     version          |-> client.version + 1,
     floor            |-> now + MinInterval]

\* Whether a goroutine's context is done: serve's for both, and at any time the
\* poll's own deadline.
ContextDone(p) ==
    IF mode = "stopping" THEN {TRUE} ELSE IF p = "fetch" THEN BOOLEAN ELSE {FALSE}

-----------------------------------------------------------------------------
(* Where a goroutine goes when an operation under the gate returns *)

\* Wrong variant of Resume: the keeper gives up after a failed rotation.
Resume_KeeperGivesUp(t, outcome) ==
    CASE t = "pendStart"    -> IF outcome = "ok" THEN "due" ELSE "idle"
      [] t = "pendEnd"      -> "idle"
      [] t = "proactive"    -> IF outcome # "durability" /\ (outcome \in {"ok", "skip"} \/ Usable)
                               THEN "detail" ELSE "idle"
      [] t = "unauthorized" -> IF outcome = "ok" THEN "detail2" ELSE "idle"
      [] t = "pendLoop"     -> IF outcome = "ok" THEN "sched" ELSE "sleep"
      [] t = "background"   -> IF outcome \in {"ok", "skip"} THEN "loop" ELSE "done"

\* Outcomes: "ok", "skip" (nothing to refresh), "error", "uncertain", "durability".
Resume(t, outcome) ==
    CASE t = "pendStart"    -> IF outcome = "ok" THEN "due" ELSE "idle"
      [] t = "pendEnd"      -> "idle"
      [] t = "proactive"    -> IF \/ outcome \in {"ok", "skip"}
                                  \/ outcome # "durability" /\ Usable
                               THEN "detail" ELSE "idle"
      [] t = "unauthorized" -> IF outcome = "ok" THEN "detail2" ELSE "idle"
      [] t = "pendLoop"     -> IF outcome = "ok" THEN "sched"
                               ELSE IF mode = "stopping" THEN "done" ELSE "sleep"
      [] t = "background"   -> IF outcome \in {"ok", "skip"} THEN "loop"
                               ELSE IF outcome = "uncertain" \/ mode = "stopping"
                                    THEN "done" ELSE "sleep"

Goto(p, point) == pc' = [pc EXCEPT ![p] = point]

Return(p, outcome) ==
    /\ Goto(p, Resume(task[p], outcome))
    /\ task' = [task EXCEPT ![p] = "none"]

\* The end of a rotation; its local variables go out of scope.
Leave(p, outcome) ==
    /\ gate' = "free"
    /\ tx' = [tx EXCEPT ![p] = NoState]
    /\ Return(p, outcome)

\* The start of acquireRefreshGate: a done context returns at once.
WaitForGate(p, t) ==
    \E done \in ContextDone(p) :
        IF done
        THEN Goto(p, Resume(t, "error")) /\ UNCHANGED task
        ELSE Goto(p, "wait") /\ task' = [task EXCEPT ![p] = t]

-----------------------------------------------------------------------------
(* The telemetry poll *)

\* Fetch begins: persistPendingTokenState sees whether there is a pending pair.
FetchStart ==
    /\ mode = "up" /\ pc["fetch"] = "idle"
    /\ IF pending = NoPending
       THEN Goto("fetch", "due") /\ UNCHANGED task
       ELSE WaitForGate("fetch", "pendStart")
    /\ seen' = 0
    /\ UNCHANGED <<mode, now, config, file, client, pending, gate, wake, tx, serverVars, spent>>

\* refreshIfNeeded, before the gate.
FetchCheckDue ==
    /\ pc["fetch"] = "due"
    /\ IF CanRefresh /\ ProactiveDue
       THEN WaitForGate("fetch", "proactive")
       ELSE Goto("fetch", "detail") /\ UNCHANGED task
    /\ UNCHANGED <<mode, now, config, file, client, pending, gate, wake, seen, tx, serverVars, spent>>

\* doDetailRequest takes the bearer token and sends; no request while a pair is pending.
DetailSend ==
    /\ pc["fetch"] \in {"detail", "detail2"}
    /\ IF pending = NoPending
       THEN /\ Goto("fetch", IF pc["fetch"] = "detail" THEN "sent" ELSE "sent2")
            /\ seen' = client.version
       ELSE Goto("fetch", "idle") /\ UNCHANGED seen
    /\ UNCHANGED <<mode, now, config, file, client, pending, gate, wake, task, tx, serverVars, spent>>

\* The detail endpoint answers 200, the request is retried, or it fails for good.
DetailReply ==
    /\ pc["fetch"] \in {"sent", "sent2"}
    /\ \/ Goto("fetch", "final")
       \/ Goto("fetch", "idle")
       \/ /\ FALSE \in ContextDone("fetch")
          /\ Goto("fetch", IF pc["fetch"] = "sent" THEN "detail" ELSE "detail2")
    /\ UNCHANGED <<mode, now, config, file, client, pending, gate, wake, task, seen, tx, serverVars, spent>>

\* The first detail request of a poll gets 401: refreshAfterUnauthorized.
DetailUnauthorized ==
    /\ pc["fetch"] = "sent"
    /\ WaitForGate("fetch", "unauthorized")
    /\ UNCHANGED <<mode, now, config, file, client, pending, gate, wake, seen, tx, serverVars, spent>>

\* Before a snapshot is returned, a pair that became pending meanwhile is written.
FetchEnd ==
    /\ pc["fetch"] = "final"
    /\ IF pending = NoPending
       THEN Goto("fetch", "idle") /\ UNCHANGED task
       ELSE WaitForGate("fetch", "pendEnd")
    /\ UNCHANGED <<mode, now, config, file, client, pending, gate, wake, seen, tx, serverVars, spent>>

-----------------------------------------------------------------------------
(* The token keeper *)

\* Top of the loop of RunBackground.
KeeperLoop ==
    /\ pc["bg"] = "loop"
    /\ IF mode = "stopping"
       THEN Goto("bg", "done") /\ UNCHANGED task
       ELSE IF pending # NoPending
            THEN WaitForGate("bg", "pendLoop")
            ELSE Goto("bg", "sched") /\ UNCHANGED task
    /\ UNCHANGED <<mode, now, config, file, client, pending, gate, wake, seen, tx, serverVars, spent>>

\* An uncertain outcome or missing material ends the keeper (observeBearerExpiry).
KeeperCheck ==
    /\ pc["bg"] = "sched"
    /\ Goto("bg", IF client.uncertain \/ client.refresh = 0 THEN "done" ELSE "plan")
    /\ UNCHANGED <<mode, now, config, file, client, pending, gate, wake, task, seen, tx, serverVars, spent>>

\* backgroundRefreshSchedule: rotate, wait for a deadline, or wait to be woken.
KeeperPlan ==
    /\ pc["bg"] = "plan"
    /\ CASE BackgroundDue     -> WaitForGate("bg", "background")
         [] BackgroundEnabled /\ ~BackgroundDue -> Goto("bg", "sleep") /\ UNCHANGED task
         [] OTHER             -> Goto("bg", "park") /\ UNCHANGED task
    /\ UNCHANGED <<mode, now, config, file, client, pending, gate, wake, seen, tx, serverVars, spent>>

\* Wrong variant of KeeperWake: a parked keeper does not watch its context.
KeeperWake_IgnoresContext ==
    /\ pc["bg"] \in {"sleep", "park"}
    /\ \/ wake /\ wake' = FALSE /\ Goto("bg", "loop")
       \/ pc["bg"] = "sleep" /\ Goto("bg", "loop") /\ UNCHANGED wake
    /\ UNCHANGED <<mode, now, config, file, client, pending, gate, task, seen, tx, serverVars, spent>>

\* waitForMaintenance: shutdown, a wake-up, or (unless parked) the timer.
KeeperWake ==
    /\ pc["bg"] \in {"sleep", "park"}
    /\ \/ mode = "stopping" /\ Goto("bg", "done") /\ UNCHANGED wake
       \/ wake /\ wake' = FALSE /\ Goto("bg", "loop")
       \/ pc["bg"] = "sleep" /\ Goto("bg", "loop") /\ UNCHANGED wake
    /\ UNCHANGED <<mode, now, config, file, client, pending, gate, task, seen, tx, serverVars, spent>>

-----------------------------------------------------------------------------
(* Under the gate: the pending write *)

\* A goroutine waiting for the gate is cancelled.
GateCancelled(p) ==
    /\ pc[p] = "wait"
    /\ TRUE \in ContextDone(p)
    /\ Return(p, "error")
    /\ UNCHANGED <<mode, now, config, file, client, pending, gate, wake, seen, tx, serverVars, spent>>

\* persistPendingTokenState once it holds the gate.
GateForPending(p) ==
    /\ pc[p] = "wait" /\ task[p] \in PendingTasks
    /\ gate = "free"
    /\ IF pending = NoPending
       THEN Return(p, "ok") /\ UNCHANGED gate
       ELSE gate' = p /\ Goto(p, "write") /\ UNCHANGED task
    /\ UNCHANGED <<mode, now, config, file, client, pending, wake, seen, tx, serverVars, spent>>

\* The pending pair reaches the disk and is activated.
PendingWritten(p) ==
    /\ pc[p] = "write"
    /\ file' = pending.state
    /\ IF pending.base = client.version
       THEN /\ client' = Activated(pending.state)
            /\ pending' = NoPending
            /\ wake' = TRUE
            /\ Return(p, "ok")
       ELSE Return(p, "durability") /\ UNCHANGED <<client, pending, wake>>
    /\ gate' = "free"
    /\ UNCHANGED <<mode, now, config, seen, tx, serverVars, spent>>

\* Wrong variant of PendingWriteFails: the pair is forgotten with the failed write.
PendingWriteFails_Drops(p) ==
    /\ pc[p] = "write"
    /\ file' \in {file, pending.state}
    /\ pending' = NoPending
    /\ gate' = "free"
    /\ Return(p, "durability")
    /\ UNCHANGED <<mode, now, config, client, wake, seen, tx, serverVars, spent>>

\* The write fails, before or after the rename replaced the file.
PendingWriteFails(p) ==
    /\ pc[p] = "write"
    /\ file' \in {file, pending.state}
    /\ gate' = "free"
    /\ Return(p, "durability")
    /\ UNCHANGED <<mode, now, config, client, pending, wake, seen, tx, serverVars, spent>>

-----------------------------------------------------------------------------
(* Under the gate: one rotation *)

\* Wrong variant of Verdict: the decision taken before the gate is trusted.
Verdict_TrustsCaller(p) ==
    CASE pending # NoPending -> "durability"
      [] pending = NoPending /\ ~CanRefresh -> "skip"
      [] OTHER -> "refresh"

\* refreshMaterialAfterGate decides again, with the state it finds behind the gate.
Verdict(p) ==
    CASE pending # NoPending                                    -> "durability"
      [] pending = NoPending /\ task[p] = "unauthorized"
         /\ client.version # seen                               -> "ok"
      [] pending = NoPending
         /\ (task[p] = "unauthorized" => client.version = seen)
         /\ \/ ~CanRefresh
            \/ task[p] = "proactive" /\ ~ProactiveDue
            \/ task[p] = "background" /\ ~BackgroundDue         -> "skip"
      [] OTHER                                                  -> "refresh"

Material == [access |-> client.access, refresh |-> client.refresh,
             updatedAt |-> client.updatedAt, marker |-> TRUE]

GateForRefresh(p) ==
    /\ pc[p] = "wait" /\ task[p] \in RefreshTasks
    /\ gate = "free"
    /\ \E done \in ContextDone(p) :
         IF Verdict(p) = "refresh" /\ ~done
         THEN /\ gate' = p
              /\ tx' = [tx EXCEPT ![p] = Material]
              /\ Goto(p, "prepare") /\ UNCHANGED task
         ELSE /\ Return(p, IF Verdict(p) = "refresh" THEN "error" ELSE Verdict(p))
              /\ UNCHANGED <<gate, tx>>
    /\ UNCHANGED <<mode, now, config, file, client, pending, wake, seen, serverVars, spent>>

\* Wrong variant of Marker: the old pair is rewritten without the flag.
Marker_Unflagged(p) == [tx[p] EXCEPT !.marker = FALSE]

\* performRefresh's marker: the old pair, flagged, stamped now when it has no stamp.
Marker(p) == [tx[p] EXCEPT !.updatedAt = IF @ = 0 THEN now ELSE @]

MarkerWritten(p) ==
    /\ pc[p] = "prepare"
    /\ file' = Marker(p)
    /\ Goto(p, "post")
    /\ UNCHANGED <<mode, now, config, client, pending, gate, wake, task, seen, tx, serverVars, spent>>

MarkerWriteFails(p) ==
    /\ pc[p] = "prepare"
    /\ file' \in {file, Marker(p)}
    /\ Leave(p, "error")
    /\ UNCHANGED <<mode, now, config, client, pending, wake, seen, serverVars, spent>>

\* The only POST of the rotation leaves the process.
Post(p) ==
    /\ pc[p] = "post"
    /\ net' = [NoRequest EXCEPT !.refresh = tx[p].refresh]
    /\ spent' = spent \cup {tx[p].refresh}
    /\ Goto(p, "await")
    /\ UNCHANGED <<mode, now, config, file, client, pending, gate, wake, task, seen, tx,
                   nextToken, expiry, live>>

\* A valid answer.  One without a refresh token leaves the old one in use.
Answered(p) ==
    /\ pc[p] = "await" /\ net.answered
    /\ tx' = [tx EXCEPT ![p] =
                 [access    |-> net.access,
                  refresh   |-> IF net.next = 0 THEN tx[p].refresh ELSE net.next,
                  updatedAt |-> now,
                  marker    |-> FALSE]]
    /\ spent' = IF net.next = 0 THEN spent \ {tx[p].refresh} ELSE spent
    /\ net' = NoRequest
    /\ Goto(p, "persist")
    /\ UNCHANGED <<mode, now, config, file, client, pending, gate, wake, task, seen,
                   nextToken, expiry, live>>

\* markRefreshOutcomeUncertain: send or read error, timeout, bad status or body.
Ambiguous(p) ==
    /\ pc[p] = "await"
    /\ client' = [client EXCEPT !.uncertain = TRUE]
    /\ wake' = TRUE
    /\ Leave(p, "uncertain")
    /\ UNCHANGED <<mode, now, config, file, pending, seen, serverVars, spent>>

\* persistRefreshedTokenState succeeds: the new pair is durable, then in use.
PairWritten(p) ==
    /\ pc[p] = "persist"
    /\ file' = tx[p]
    /\ client' = Activated(tx[p])
    /\ pending' = NoPending
    /\ wake' = TRUE
    /\ Leave(p, "ok")
    /\ UNCHANGED <<mode, now, config, seen, serverVars, spent>>

\* An attempt fails (maybe after the rename) and is repeated ...
PairWriteRetried(p) ==
    /\ pc[p] = "persist"
    /\ file' \in {file, tx[p]}
    /\ UNCHANGED <<mode, now, config, client, pending, gate, wake, pc, task, seen, tx,
                   serverVars, spent>>

\* Wrong variants of PairWriteFails: the keeper is not told ...
PairWriteFails_Silent(p) ==
    /\ pc[p] = "persist"
    /\ file' \in {file, tx[p]}
    /\ pending' = [state |-> tx[p], base |-> client.version]
    /\ Leave(p, "durability")
    /\ UNCHANGED <<mode, now, config, client, wake, seen, serverVars, spent>>

\* ... or the undurable pair is put into use.
PairWriteFails_Activates(p) ==
    /\ pc[p] = "persist"
    /\ file' \in {file, tx[p]}
    /\ client' = Activated(tx[p])
    /\ wake' = TRUE
    /\ Leave(p, "durability")
    /\ UNCHANGED <<mode, now, config, pending, seen, serverVars, spent>>

\* ... or was the last one: the pair is kept aside for the pending write.
PairWriteFails(p) ==
    /\ pc[p] = "persist"
    /\ file' \in {file, tx[p]}
    /\ pending' = [state |-> tx[p], base |-> client.version]
    /\ wake' = TRUE
    /\ Leave(p, "durability")
    /\ UNCHANGED <<mode, now, config, client, seen, serverVars, spent>>

-----------------------------------------------------------------------------
(* The OAuth server and the operator *)

\* The server accepts a request it received, even one whose sender is gone; it
\* may rotate the refresh token and may state a lifetime.
ServerAccepts ==
    /\ net.refresh \in live /\ ~net.answered
    /\ nextToken <= MaxToken
    /\ \E rotate \in BOOLEAN, life \in Lifetimes :
         /\ expiry' = [expiry EXCEPT ![nextToken] = ExpiryOf(life)]
         /\ live' = IF rotate THEN (live \ {net.refresh}) \cup {nextToken} ELSE live
         /\ net' = [net EXCEPT !.answered = TRUE, !.access = nextToken,
                               !.next = IF rotate THEN nextToken ELSE 0]
    /\ nextToken' = nextToken + 1
    /\ UNCHANGED <<mode, now, config, file, client, pending, gate, wake, pc, task, seen, tx, spent>>

\* Manual recovery while the bridge is stopped: a complete new pair replaces the
\* state file, or is configured and the old file removed.
OperatorRecovers ==
    /\ mode = "down"
    /\ nextToken <= MaxToken
    /\ live' = live \cup {nextToken}
    /\ nextToken' = nextToken + 1
    /\ \/ /\ file' = [access |-> nextToken, refresh |-> nextToken, updatedAt |-> now,
                      marker |-> FALSE]
          /\ \E life \in Lifetimes : expiry' = [expiry EXCEPT ![nextToken] = ExpiryOf(life)]
          /\ UNCHANGED config
       \/ /\ config' = [access |-> nextToken, refresh |-> nextToken]
          /\ \E life \in ConfigLifetimes : expiry' = [expiry EXCEPT ![nextToken] = ExpiryOf(life)]
          /\ file' = NoState
    /\ UNCHANGED <<mode, now, client, pending, gate, wake, pc, task, seen, tx, net, spent>>

-----------------------------------------------------------------------------
(* The process and the clock *)

Tick ==
    /\ now < MaxTime
    /\ now' = now + 1
    /\ UNCHANGED <<mode, config, file, client, pending, gate, wake, pc, task, seen, tx, serverVars, spent>>

Start ==
    /\ mode = "down"
    /\ mode' = "up"
    /\ client' = Loaded(config, file)
    /\ pc' = [fetch |-> "idle", bg |-> "loop"]
    /\ UNCHANGED <<now, config, file, pending, gate, wake, task, seen, tx, serverVars, spent>>

\* Everything in memory is gone; the file, and a request on its way, are not.
Vanish ==
    /\ mode' = "down"
    /\ client' = NoClient
    /\ pending' = NoPending
    /\ gate' = "free"
    /\ wake' = FALSE
    /\ pc' = [p \in Procs |-> "off"]
    /\ task' = [p \in Procs |-> "none"]
    /\ seen' = 0
    /\ tx' = [p \in Procs |-> NoState]
    /\ UNCHANGED <<now, config, file, serverVars, spent>>

Crash == mode # "down" /\ Vanish

\* serve cancels its context ...
Shutdown ==
    /\ mode = "up"
    /\ mode' = "stopping"
    /\ UNCHANGED <<now, config, file, client, pending, gate, wake, pc, task, seen, tx, serverVars, spent>>

\* ... and exits once both goroutines have returned.
Exit ==
    /\ mode = "stopping"
    /\ pc["fetch"] = "idle" /\ pc["bg"] = "done"
    /\ Vanish

-----------------------------------------------------------------------------
Init ==
    /\ mode = "down"
    /\ now = 1
    /\ config \in Configs
    /\ file = NoState
    /\ client = NoClient
    /\ pending = NoPending
    /\ gate = "free"
    /\ wake = FALSE
    /\ pc = [p \in Procs |-> "off"]
    /\ task = [p \in Procs |-> "none"]
    /\ seen = 0
    /\ tx = [p \in Procs |-> NoState]
    /\ nextToken = 2
    /\ \E life \in ConfigLifetimes :
         expiry = [a \in Tokens |-> IF a = 1 THEN ExpiryOf(life) ELSE 0]
    /\ live = {1}
    /\ net = NoRequest
    /\ spent = {}

\* What a goroutine does once it wants the gate.
GateStep(p) ==
    \/ GateCancelled(p) \/ GateForPending(p) \/ GateForRefresh(p)
    \/ PendingWritten(p) \/ PendingWriteFails(p)
    \/ MarkerWritten(p) \/ MarkerWriteFails(p)
    \/ Post(p) \/ Answered(p) \/ Ambiguous(p)
    \/ PairWritten(p) \/ PairWriteRetried(p) \/ PairWriteFails(p)

FetchStep == FetchCheckDue \/ DetailSend \/ DetailReply \/ DetailUnauthorized \/ FetchEnd
KeeperStep == KeeperLoop \/ KeeperCheck \/ KeeperPlan \/ KeeperWake

Next ==
    \/ FetchStart \/ FetchStep \/ KeeperStep
    \/ \E p \in Procs : GateStep(p)
    \/ ServerAccepts \/ OperatorRecovers
    \/ Tick \/ Start \/ Crash \/ Shutdown \/ Exit

Spec == Init /\ [][Next]_vars

\* Goroutines that are not waiting are scheduled, the keeper gets the gate when it
\* is free again and again (a Go channel serves its waiters in order), a
\* transaction ends by its hard timeout, and a disk that is tried again and again
\* finally takes a write.  Polls, crashes, the clock and the operator are not fair.
Fairness ==
    /\ WF_vars(FetchStep) /\ WF_vars(KeeperStep) /\ WF_vars(Exit)
    /\ \A p \in Procs :
         /\ SF_vars(GateForPending(p)) /\ SF_vars(GateForRefresh(p))
         /\ WF_vars(GateCancelled(p) /\ mode = "stopping")
         /\ WF_vars(PendingWritten(p) \/ PendingWriteFails(p))
         /\ WF_vars(MarkerWritten(p) \/ MarkerWriteFails(p))
         /\ WF_vars(Post(p))
         /\ WF_vars(Answered(p) \/ Ambiguous(p))
         /\ WF_vars(PairWritten(p) \/ PairWriteFails(p))
    /\ SF_vars(PendingWritten("bg")) /\ SF_vars(MarkerWritten("bg"))

FairSpec == Spec /\ Fairness

-----------------------------------------------------------------------------
(* Safety *)

GatePoints == {"wait", "write"} \cup Transaction
FetchPoints == {"off", "idle", "due", "detail", "sent", "detail2", "sent2", "final"} \cup GatePoints
KeeperPoints == {"off", "loop", "sched", "plan", "sleep", "park", "done"} \cup GatePoints

TypeOK ==
    /\ mode \in {"down", "up", "stopping"}
    /\ now \in Times
    /\ config \in [access : Tokens, refresh : Tokens]
    /\ file \in State
    /\ client \in [access : Tokens, refresh : Tokens, updatedAt : Times, uncertain : BOOLEAN,
                   refreshedUnknown : BOOLEAN, version : Nat, floor : Times]
    /\ pending \in [state : State, base : Nat]
    /\ gate \in Procs \cup {"free"}
    /\ wake \in BOOLEAN
    /\ pc \in [Procs -> FetchPoints \cup KeeperPoints]
    /\ pc["fetch"] \in FetchPoints /\ pc["bg"] \in KeeperPoints
    /\ task \in [Procs -> RefreshTasks \cup PendingTasks \cup {"none"}]
    /\ seen \in Nat
    /\ tx \in [Procs -> State]
    /\ nextToken \in 2..(MaxToken + 1)
    /\ expiry \in [Tokens -> Times]
    /\ live \subseteq Tokens
    /\ net \in [refresh : Tokens, access : Tokens, next : Tokens, answered : BOOLEAN]
    /\ spent \subseteq Tokens

\* A goroutine that writes the state file or has a POST open holds refreshGate, so
\* there is never a second rotation or a second writer (refresh, persistPendingTokenState).
GateIsExclusive ==
    \A p \in Procs : pc[p] \in Transaction \cup {"write"} => gate = p

\* From before the POST until its answer is handled, the file carries the
\* in-flight marker over the very refresh token that is at risk (performRefresh).
MarkerCoversPost ==
    \A p \in Procs : pc[p] \in {"post", "await"}
        => file.marker /\ file.refresh = tx[p].refresh

\* What the documentation calls the normal case (docs/configuration.md, "Runtime
\* state normally wins"): a pair in the file beats the configured one.
StateOutranksConfig ==
    \A c \in ConfigLifetimes, l \in Lifetimes : c = 0 \/ l > c

\* No refresh token is POSTed that an earlier POST, of this process or of one that
\* crashed or was restarted, may have consumed (performRefresh, New).
NoReplay ==
    \A p \in Procs : pc[p] = "post" => tx[p].refresh \notin spent

\* A client that paused on an uncertain outcome has the marker on disk: no restart
\* resumes rotation before an operator intervened (markRefreshOutcomeUncertain, New).
UncertainIsDurable == client.uncertain => file.marker

\* A pending pair belongs to the current token version and nothing paused
\* meanwhile, so its promotion can never be refused (persistPendingTokenState).
PendingIsCurrent ==
    pending # NoPending
        => pending.base = client.version /\ ~client.uncertain /\ pending.state.refresh # 0

\* What a rotation is about to replace still needs replacing: its decision, taken
\* before the gate, was renewed behind it (refreshMaterialAfterGate).
RotationStillNeeded ==
    \A p \in Procs : pc[p] \in {"prepare", "post"} =>
        /\ pending = NoPending
        /\ task[p] = "proactive" => ProactiveDue
        /\ task[p] = "unauthorized" => client.version = seen
        /\ task[p] = "background" => BackgroundDue

\* The keeper never rotates a pair again within MinInterval of the rotation that
\* made it, not even across a restart, however short the lifetimes the server
\* states (armBackgroundRefreshFloorLocked, armBackgroundRefreshFloorFromPersisted).
KeeperDoesNotSpin ==
    pc["bg"] \in {"prepare", "post"} /\ task["bg"] = "background"
      /\ client.access # 0 /\ expiry[client.access] # 0 /\ client.updatedAt # 0
        => now >= client.updatedAt + MinInterval

\* The refresh token the bridge would POST next, counting a restart from the file.
NextRefresh == IF mode = "down" THEN Loaded(config, file).refresh
               ELSE IF pending # NoPending THEN pending.state.refresh ELSE client.refresh

\* Rotation is stopped for the operator, or would be after a restart.
Paused == IF mode = "down" THEN Loaded(config, file).uncertain ELSE client.uncertain

\* The bridge is never locked out without knowing it: unless it paused, or is waiting
\* for an answer, the refresh token it would POST next, also after a crash, is one the
\* OAuth server accepts, and so is the one of a pair it is about to write (New,
\* performRefresh, persistPendingTokenState).
NeverLockedOut ==
    /\ \A p \in Procs : pc[p] = "persist" => tx[p].refresh \in live
    /\ /\ ~Paused /\ NextRefresh # 0
       /\ \A p \in Procs : pc[p] \notin {"await", "persist"}
       => NextRefresh \in live

\* The keeper misses nothing: while a pair waits to be written or a rotation is to be
\* waited for, the keeper has not ended, and if it waits with no timer there is a
\* wake-up in its channel (notifyMaintenance, waitForMaintenance, RunBackground).
KeeperMissesNothing ==
    mode = "up" /\ (pending # NoPending \/ BackgroundEnabled)
        => pc["bg"] # "done" /\ (pc["bg"] = "park" => wake)

-----------------------------------------------------------------------------
(* Steps *)

\* A detail request never carries an access token that a crash could lose: it is
\* the configured one, the one in the state file, or the predecessor of a pair whose
\* write already replaced the file (detailTokenSnapshot).
DetailUsesDurablePair ==
    [][pc["fetch"] \in {"detail", "detail2"} /\ pc'["fetch"] \in {"sent", "sent2"}
         => \/ client.access \in {0, config.access, file.access}
            \/ \E p \in Procs : pc[p] = "persist" /\ file = tx[p]]_vars

\* While the process runs, a rotated pair whose write failed is dropped only by
\* being on disk and in use (persistPendingTokenState, performRefresh).
PendingOnlyActivated ==
    [][pending # NoPending /\ pending' # pending /\ mode' # "down"
         => /\ file' = pending.state
            /\ client'.access = pending.state.access
            /\ client'.refresh = pending.state.refresh]_vars

\* How far a goroutine is from its end once serve cancelled its context.
ShutdownRank(point) ==
    CASE point \in {"off", "idle", "done"}             -> 0
      [] point \in {"final", "loop"}                  -> 1
      [] point \in {"sent2", "sleep", "park"}         -> 2
      [] point \in {"detail2", "plan"}                -> 3
      [] point \in {"sent", "sched"}                  -> 4
      [] point = "detail"                             -> 5
      [] point = "due"                                -> 6
      [] point = "write"                              -> 7
      [] point = "persist"                            -> 8
      [] point = "await"                              -> 9
      [] point = "post"                               -> 10
      [] point = "prepare"                            -> 11
      [] point = "wait"                               -> 12

\* A shutdown leads nowhere but to the end: after serve cancelled its context, whatever
\* a goroutine does next brings it nearer to its return.  No retry, no second rotation
\* and no wake-up takes it back (acquireRefreshGate, doDetailRequest, RunBackground).
ShutdownIsDirect ==
    [][mode = "stopping" /\ mode' = "stopping"
         => \A p \in Procs : pc'[p] # pc[p] => ShutdownRank(pc'[p]) < ShutdownRank(pc[p])]_vars

-----------------------------------------------------------------------------
(* Liveness *)

\* A pair whose write failed becomes durable without any poll: the keeper is woken
\* and retries the write until the disk takes it (notifyMaintenance, RunBackground).
PendingBecomesDurable == pending # NoPending ~> pending = NoPending

\* A pair that is due is rotated or the pause is reached, though no poll may ever run.
DueIsRotated ==
    mode = "up" /\ BackgroundDue ~> mode # "up" \/ ~BackgroundDue

\* Shutdown ends, whatever transaction or wait it interrupts.
ShutdownEnds == mode = "stopping" ~> mode = "down"
=============================================================================
