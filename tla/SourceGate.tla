----------------------------- MODULE SourceGate -----------------------------
(***************************************************************************)
(* The fetch gate of one source (sourceFetchGate in bridge/internal/       *)
(* source/alert_correlation.go): a flag and a counter under a mutex, and a *)
(* channel that is closed and replaced whenever either may have changed.   *)
(* Callers hold the channel they read under the mutex while they wait      *)
(* outside it, so a wake-up is lost if a signal is missing anywhere.       *)
(***************************************************************************)
EXTENDS Naturals, FiniteSets

CONSTANTS Normals,      \* calls of the poll
          Diagnostics   \* calls of the alert correlation worker

ASSUME SourceGateAssumption ==
    /\ IsFiniteSet(Normals) /\ IsFiniteSet(Diagnostics)
    /\ Normals \cap Diagnostics = {}
    /\ "none" \notin Diagnostics

VARIABLES
    active,         \* a Fetch is running
    cancellable,    \* the diagnostic cancelDiagnostic belongs to, or "none"
    normalWaiters,  \* normal calls that are queued
    pc,             \* control point of each caller
    woken,          \* waiting callers whose channel has been closed
    cause,          \* why the context of each diagnostic ended, or "none"
    result          \* what the last call of each diagnostic returned

vars == <<active, cancellable, normalWaiters, pc, woken, cause, result>>

Callers == Normals \cup Diagnostics

Goto(c, point) == pc' = [pc EXCEPT ![c] = point]

\* signalLocked: the channel of everyone who waits now is closed.
Signal == woken' = woken \cup {c \in Callers : pc[c] = "wait"}

\* A caller reads the current channel and waits for it outside the mutex.
Park(c) == Goto(c, "wait") /\ woken' = woken \ {c}

\* The diagnostic inside is told that it was preempted, unless its context ended before.
Preempt ==
    cause' = IF cancellable # "none" /\ cause[cancellable] = "none"
             THEN [cause EXCEPT ![cancellable] = "preempted"] ELSE cause

Occupy(c) ==
    /\ active' = TRUE
    /\ cancellable' = IF c \in Diagnostics THEN c ELSE "none"
    /\ Goto(c, "fetch")

\* Wrong variant of Release: nobody is woken.
Release_Silent(c) ==
    /\ active' = FALSE /\ cancellable' = "none"
    /\ Goto(c, "idle")
    /\ UNCHANGED woken

\* release.
Release(c) ==
    /\ active' = FALSE /\ cancellable' = "none"
    /\ Goto(c, "idle")
    /\ Signal

-----------------------------------------------------------------------------
(* fetchNormal *)

\* The loop head, under the mutex; waiters counts this caller.
NormalTry(n, waiters) ==
    IF active
    THEN /\ Park(n) /\ Preempt
         /\ normalWaiters' = waiters
         /\ UNCHANGED <<active, cancellable>>
    ELSE /\ Occupy(n)
         /\ normalWaiters' = waiters - 1
         /\ UNCHANGED <<woken, cause>>

\* Wrong variant of NormalArrive: the diagnostic inside is left running.
NormalArrive_NoPreempt(n) ==
    /\ pc[n] = "idle"
    /\ IF active
       THEN Park(n) /\ normalWaiters' = normalWaiters + 1 /\ UNCHANGED <<active, cancellable>>
       ELSE Occupy(n) /\ UNCHANGED <<woken, normalWaiters>>
    /\ UNCHANGED <<cause, result>>

NormalArrive(n) ==
    /\ pc[n] = "idle"
    /\ NormalTry(n, normalWaiters + 1)
    /\ UNCHANGED result

NormalWakes(n) ==
    /\ pc[n] = "wait" /\ n \in woken
    /\ Goto(n, "retry")
    /\ UNCHANGED <<active, cancellable, normalWaiters, woken, cause, result>>

NormalRetry(n) ==
    /\ pc[n] = "retry"
    /\ NormalTry(n, normalWaiters)
    /\ UNCHANGED result

\* The poll's context ends while it waits ...
NormalCancelled(n) ==
    /\ pc[n] = "wait"
    /\ Goto(n, "quit")
    /\ UNCHANGED <<active, cancellable, normalWaiters, woken, cause, result>>

\* Wrong variant of NormalQuits: the diagnostics it held back are not woken.
NormalQuits_Silent(n) ==
    /\ pc[n] = "quit"
    /\ normalWaiters' = normalWaiters - 1
    /\ Goto(n, "idle")
    /\ UNCHANGED <<active, cancellable, woken, cause, result>>

\* ... so it stops holding diagnostics back.
NormalQuits(n) ==
    /\ pc[n] = "quit"
    /\ normalWaiters' = normalWaiters - 1
    /\ Goto(n, "idle")
    /\ Signal
    /\ UNCHANGED <<active, cancellable, cause, result>>

\* Fetch returns or panics; the deferred release follows.
NormalReturns(n) ==
    /\ pc[n] = "fetch"
    /\ Release(n)
    /\ UNCHANGED <<normalWaiters, cause, result>>

-----------------------------------------------------------------------------
(* fetchDiagnostic *)

DiagnosticTry(d) ==
    /\ IF active \/ normalWaiters > 0
       THEN Park(d) /\ UNCHANGED <<active, cancellable>>
       ELSE Occupy(d) /\ UNCHANGED woken
    /\ UNCHANGED normalWaiters

DiagnosticArrive(d) ==
    /\ pc[d] = "idle"
    /\ DiagnosticTry(d)
    /\ cause' = [cause EXCEPT ![d] = "none"]
    /\ result' = [result EXCEPT ![d] = "none"]

\* The deadline of the correlation job, or shutdown.
DiagnosticExpires(d) ==
    /\ pc[d] # "idle" /\ cause[d] = "none"
    /\ cause' = [cause EXCEPT ![d] = "context"]
    /\ UNCHANGED <<active, cancellable, normalWaiters, pc, woken, result>>

DiagnosticWithdraws(d) ==
    /\ pc[d] = "wait" /\ cause[d] # "none"
    /\ Goto(d, "idle")
    /\ result' = [result EXCEPT ![d] = cause[d]]
    /\ UNCHANGED <<active, cancellable, normalWaiters, woken, cause>>

DiagnosticWakes(d) ==
    /\ pc[d] = "wait" /\ d \in woken
    /\ Goto(d, "retry")
    /\ UNCHANGED <<active, cancellable, normalWaiters, woken, cause, result>>

DiagnosticRetry(d) ==
    /\ pc[d] = "retry"
    /\ DiagnosticTry(d)
    /\ UNCHANGED <<cause, result>>

\* Wrong variant of DiagnosticReturns: a snapshot is handed on although it came too late.
DiagnosticReturns_KeepsLate(d) ==
    /\ pc[d] = "fetch"
    /\ \E outcome \in {"snapshot", "error"} : result' = [result EXCEPT ![d] = outcome]
    /\ Goto(d, "settled")
    /\ UNCHANGED <<active, cancellable, normalWaiters, woken, cause>>

\* Fetch returned and the cause of the end of its context is read.
DiagnosticReturns(d) ==
    /\ pc[d] = "fetch"
    /\ \E outcome \in {"snapshot", "error"} :
         result' = [result EXCEPT ![d] = IF cause[d] # "none" THEN cause[d] ELSE outcome]
    /\ Goto(d, "settled")
    /\ UNCHANGED <<active, cancellable, normalWaiters, woken, cause>>

\* The deferred release.
DiagnosticLeaves(d) ==
    /\ pc[d] = "settled"
    /\ Release(d)
    /\ UNCHANGED <<normalWaiters, cause, result>>

-----------------------------------------------------------------------------
Init ==
    /\ active = FALSE
    /\ cancellable = "none"
    /\ normalWaiters = 0
    /\ pc = [c \in Callers |-> "idle"]
    /\ woken = {}
    /\ cause = [d \in Diagnostics |-> "none"]
    /\ result = [d \in Diagnostics |-> "none"]

NormalStep(n) ==
    \/ NormalArrive(n) \/ NormalWakes(n) \/ NormalRetry(n)
    \/ NormalCancelled(n) \/ NormalQuits(n) \/ NormalReturns(n)

DiagnosticStep(d) ==
    \/ DiagnosticArrive(d) \/ DiagnosticExpires(d) \/ DiagnosticWithdraws(d)
    \/ DiagnosticWakes(d) \/ DiagnosticRetry(d) \/ DiagnosticReturns(d) \/ DiagnosticLeaves(d)

Next ==
    \/ \E n \in Normals : NormalStep(n)
    \/ \E d \in Diagnostics : DiagnosticStep(d)

Spec == Init /\ [][Next]_vars

\* Goroutines are scheduled, a source's Fetch returns by its own timeout, and the
\* mutex goes round; nobody need ever call, and no context need ever end.
Fairness ==
    /\ \A n \in Normals :
         WF_vars(NormalWakes(n) \/ NormalRetry(n) \/ NormalQuits(n) \/ NormalReturns(n))
    /\ \A d \in Diagnostics :
         /\ WF_vars(DiagnosticReturns(d) \/ DiagnosticLeaves(d))
         /\ WF_vars(DiagnosticWakes(d) \/ DiagnosticRetry(d))

FairSpec == Spec /\ Fairness

-----------------------------------------------------------------------------
Points == {"idle", "wait", "retry", "quit", "fetch", "settled"}
Inside(c) == pc[c] \in {"fetch", "settled"}
Queued(c) == pc[c] \in {"wait", "retry", "quit"}

TypeOK ==
    /\ active \in BOOLEAN
    /\ cancellable \in Diagnostics \cup {"none"}
    /\ normalWaiters \in Nat
    /\ pc \in [Callers -> Points]
    /\ woken \subseteq Callers
    /\ cause \in [Diagnostics -> {"none", "preempted", "context"}]
    /\ result \in [Diagnostics -> {"none", "snapshot", "error", "preempted", "context"}]

\* Two Fetch calls of one source never overlap, even when a diagnostic ignores its
\* cancellation (comment at sourceFetchGate).
Exclusive == \A c, e \in Callers : Inside(c) /\ Inside(e) => c = e

\* The counter is exactly the number of queued normal calls, whatever way they end.
WaitersCounted == normalWaiters = Cardinality({n \in Normals : Queued(n)})

\* Nobody sleeps on a channel nobody will close: while the source is free, every
\* queued normal call has been woken, and so has every diagnostic no one holds back.
NoLostWakeup ==
    ~active => \A c \in Callers :
        pc[c] = "wait" /\ (c \in Normals \/ normalWaiters = 0) => c \in woken

\* A diagnostic inside while a normal call is queued has been told to stop, whichever
\* came first and whatever woke the normal call meanwhile (fetchNormal).
PreemptionIsTold ==
    \A d \in Diagnostics :
        Inside(d) /\ (\E n \in Normals : Queued(n)) => cause[d] # "none"

-----------------------------------------------------------------------------
(* The gate implements SourceAccess *)

Access == INSTANCE SourceAccess WITH
    queued  <- {c \in Callers : Queued(c)},
    inside  <- {c \in Callers : Inside(c)},
    spoiled <- {d \in Diagnostics : Inside(d) /\ cause[d] # "none"},
    yielded <- {d \in Diagnostics : result[d] \in {"snapshot", "error"}}

\* One Fetch at a time, diagnostics after queued normal calls, and no snapshot of a
\* spoiled diagnostic (sourceFetchGate).
ImplementsAccess == Access!Spec

\* A normal call that waits is followed by a normal call inside the source or by the
\* end of its own context: no diagnostic ever keeps the poll away (fetchNormal).
PollGetsThrough ==
    \A n \in Normals :
        Queued(n) ~> \/ pc[n] = "idle"
                     \/ \E m \in Normals : Inside(m)

\* A diagnostic left alone with the source gets in, or its context ends: a poll that
\* gave up queueing does not hold it back (fetchDiagnostic).
DiagnosticGetsThrough ==
    \A d \in Diagnostics :
        Queued(d) ~> \/ ~Queued(d)
                     \/ \E c \in Callers \ {d} : pc[c] # "idle"
=============================================================================
