--------------------------- MODULE SolarmanClient ---------------------------
(***************************************************************************)
(* The Solarman cloud client: an access token that is obtained on demand,  *)
(* a device serial that may have to be discovered, one renewal after a     *)
(* 401, one retry after a transient failure, and the pacing of every       *)
(* request, the token's included, to a yearly quota.                       *)
(***************************************************************************)
EXTENDS Integers, Sequences

CONSTANTS
    Lifetime,   \* ticks a token lives
    Interval,   \* ticks between two requests
    Refresh,    \* ticks a discovered serial is used; 0 is for ever
    Serials     \* the inverters of the account

ASSUME SolarmanAssumption ==
    /\ Lifetime \in Nat \ {0}
    /\ Interval \in Nat
    /\ Refresh \in Nat
    /\ "unknown" \notin Serials

VARIABLES
    account,    \* the inverter that the account lists first
    token,      \* ticks until the token expires; 0 without one
    sinceSent,  \* ticks since lastRequestAt
    found,      \* the discovered serial and its age
    call        \* the request that the fetch is at

solarmanVars == <<token, sinceSent, found, call>>

NoCall == [step |-> "idle", todo |-> <<>>, attempt |-> 1, renewed |-> FALSE, sn |-> "unknown"]
NotFound == [sn |-> "unknown", age |-> 0]
transientRequestAttempts == 2

SolarmanInit ==
    /\ account \in Serials
    /\ token = 0
    /\ sinceSent = Interval
    /\ found = NotFound
    /\ call = NoCall

At(step) == call.step = step
Goto(step) == call' = [call EXCEPT !.step = step]

-----------------------------------------------------------------------------
\* Fetch with a configured serial goes to the telemetry, without one to the
\* discovery.
SolarmanFetch(configured) ==
    /\ call = NoCall
    /\ call' = IF configured = "unknown"
               THEN [NoCall EXCEPT !.step = "resolve"]
               ELSE [NoCall EXCEPT !.step = "ensure", !.todo = <<"current">>, !.sn = configured]
    /\ UNCHANGED <<account, token, sinceSent, found>>

\* The cached serial needs a token too.
resolveDeviceSN ==
    /\ At("resolve")
    /\ Goto(IF token > 0 THEN "lookup" ELSE "queue_token")
    /\ UNCHANGED <<account, token, sinceSent, found>>

\* A discovered serial is used until it is too old.  A configured station need
\* not be looked for.
Discovered == found # NotFound /\ (Refresh = 0 \/ found.age < Refresh)
Discovery(stationed) ==
    IF stationed THEN <<"devices", "current">> ELSE <<"stations", "devices", "current">>

LookUp(stationed) ==
    /\ At("lookup")
    /\ call' = IF Discovered
               THEN [call EXCEPT !.step = "ensure", !.todo = <<"current">>, !.sn = found.sn]
               ELSE [call EXCEPT !.step = "ensure", !.todo = Discovery(stationed)]
    /\ UNCHANGED <<account, token, sinceSent, found>>

ensureToken ==
    /\ At("ensure")
    /\ Goto(IF token > 0 THEN "queue" ELSE "queue_token")
    /\ UNCHANGED <<account, token, sinceSent, found>>

\* Every request waits for the quota; the authorization header is written
\* before the wait.
waitForRequestBudget ==
    /\ At("queue") \/ At("queue_token")
    /\ sinceSent >= Interval
    /\ sinceSent' = 0
    /\ Goto(IF At("queue") THEN "sent" ELSE "sent_token")
    /\ UNCHANGED <<account, token, found>>

\* obtainToken succeeds: the fetch goes on where it needed the token.
TokenObtained ==
    /\ At("sent_token")
    /\ token' = Lifetime
    /\ call' = [call EXCEPT !.step = IF call.todo = <<>> THEN "lookup" ELSE "queue", !.attempt = 1]
    /\ UNCHANGED <<account, sinceSent, found>>

\* Whether the server still knows the token is the server's decision.  A
\* discovered serial is cached; each request of the fetch has its own retries.
Answered ==
    /\ At("sent")
    /\ Len(call.todo) > 1
    /\ found' = IF Head(call.todo) = "devices" THEN [sn |-> account, age |-> 0] ELSE found
    /\ call' = [call EXCEPT !.step = "ensure", !.todo = Tail(@), !.attempt = 1, !.renewed = FALSE,
                    !.sn = IF Head(call.todo) = "devices" THEN account ELSE @]
    /\ UNCHANGED <<account, token, sinceSent>>

\* Wrong variant of Unauthorized: every 401 is worth another token.
Unauthorized_Always ==
    /\ At("sent")
    /\ call' = [call EXCEPT !.step = "queue_token"]
    /\ UNCHANGED <<account, token, sinceSent, found>>

\* A 401 is answered by one new token and one more try.
Unauthorized ==
    /\ At("sent") /\ ~call.renewed
    /\ call' = [call EXCEPT !.step = "queue_token", !.renewed = TRUE]
    /\ UNCHANGED <<account, token, sinceSent, found>>

\* A transport error, a 429 or a 5xx is tried once more.
TransientFailure ==
    /\ At("sent") /\ call.attempt < transientRequestAttempts
    /\ call' = [call EXCEPT !.step = "queue", !.attempt = @ + 1]
    /\ UNCHANGED <<account, token, sinceSent, found>>

SolarmanWorks(stationed) ==
    \/ resolveDeviceSN \/ LookUp(stationed) \/ ensureToken \/ waitForRequestBudget \/ TokenObtained
    \/ Answered \/ Unauthorized \/ TransientFailure

\* Telemetry of an inverter that is online and recent.
CurrentData == At("sent") /\ call.todo = <<"current">>

\* What a fetch may fail on: any answer it was waiting for.
SolarmanRefused == At("sent") \/ At("sent_token")

SolarmanReturns == call' = NoCall /\ UNCHANGED <<account, token, sinceSent, found>>

AccountChanges ==
    /\ \E s \in Serials \ {account} : account' = s
    /\ UNCHANGED solarmanVars

\* Time passes for the token, the quota and the discovered serial.
SolarmanAges ==
    /\ token' = IF token = 0 THEN 0 ELSE token - 1
    /\ sinceSent' = IF sinceSent < Interval THEN sinceSent + 1 ELSE sinceSent
    /\ found' = IF found # NotFound /\ found.age < Refresh THEN [found EXCEPT !.age = @ + 1] ELSE found
    /\ UNCHANGED <<account, call>>
=============================================================================
