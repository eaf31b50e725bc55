---------------------------- MODULE SourceAccess ----------------------------
(***************************************************************************)
(* What the fetch gate of a source promises (bridge/internal/source/       *)
(* alert_correlation.go, comment at sourceFetchGate): one Fetch of the     *)
(* source at a time; a diagnostic begins only while no normal call is      *)
(* queued; a normal call that queues spoils the diagnostic it finds, and a *)
(* spoiled diagnostic yields no snapshot.                                  *)
(***************************************************************************)
CONSTANTS Normals,      \* calls of the poll
          Diagnostics   \* calls of the alert correlation worker

VARIABLES queued,   \* callers that asked for the source and have not got it
          inside,   \* callers whose Fetch is running
          spoiled,  \* diagnostics inside that must not yield a snapshot
          yielded   \* diagnostics whose last call yielded what Fetch returned

accessVars == <<queued, inside, spoiled, yielded>>

Callers == Normals \cup Diagnostics

Init == queued = {} /\ inside = {} /\ spoiled = {} /\ yielded = {}

\* A diagnostic may get the source although its own context has just ended.
Occupy(c) ==
    /\ inside = {}
    /\ inside' = {c}
    /\ spoiled' \in SUBSET ({c} \cap Diagnostics)

Ask(c) ==
    /\ c \notin queued \cup inside
    /\ queued' = queued \cup {c}
    /\ spoiled' = IF c \in Normals THEN inside \cap Diagnostics ELSE spoiled
    /\ yielded' = yielded \ {c}
    /\ UNCHANGED inside

EnterAtOnce(c) ==
    /\ c \notin queued
    /\ c \in Diagnostics => queued \cap Normals = {}
    /\ Occupy(c)
    /\ yielded' = yielded \ {c}
    /\ UNCHANGED queued

EnterFromQueue(c) ==
    /\ c \in queued
    /\ c \in Diagnostics => queued \cap Normals = {}
    /\ Occupy(c)
    /\ queued' = queued \ {c}
    /\ UNCHANGED yielded

Withdraw(c) ==
    /\ c \in queued
    /\ queued' = queued \ {c}
    /\ UNCHANGED <<inside, spoiled, yielded>>

\* The context of a diagnostic inside ends.
Expire(c) ==
    /\ c \in inside \cap Diagnostics
    /\ spoiled' = spoiled \cup {c}
    /\ UNCHANGED <<queued, inside, yielded>>

\* A diagnostic settles that it yields its snapshot ...
Settle(c) ==
    /\ c \in (inside \cap Diagnostics) \ spoiled
    /\ yielded' = yielded \cup {c}
    /\ UNCHANGED <<queued, inside, spoiled>>

\* ... and everyone leaves.
Exit(c) ==
    /\ c \in inside
    /\ inside' = {} /\ spoiled' = {}
    /\ UNCHANGED <<queued, yielded>>

Next ==
    \E c \in Callers :
        \/ Ask(c) \/ EnterAtOnce(c) \/ EnterFromQueue(c) \/ Withdraw(c)
        \/ Expire(c) \/ Settle(c) \/ Exit(c)

Spec == Init /\ [][Next]_accessVars
=============================================================================
