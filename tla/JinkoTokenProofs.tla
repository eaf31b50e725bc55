-------------------------- MODULE JinkoTokenProofs --------------------------
(***************************************************************************)
(* Type correctness of JinkoToken, and the way down of its goroutines      *)
(* after a shutdown, for every bound, every clock and every set of         *)
(* lifetimes.                                                              *)
(***************************************************************************)
EXTENDS JinkoToken, TLAPS

\* The tasks a goroutine may hold, and those it holds at each point under the gate.
TasksOf(p) == IF p = "fetch" THEN {"pendStart", "pendEnd", "proactive", "unauthorized"}
                             ELSE {"pendLoop", "background"}

TaskOK ==
    \A p \in Procs :
        /\ pc[p] \in GatePoints => task[p] \in TasksOf(p)
        /\ pc[p] \in Transaction => task[p] \in RefreshTasks
        /\ pc[p] = "write" => task[p] \in PendingTasks

TypeInv == TypeOK /\ TaskOK

-----------------------------------------------------------------------------
(* Type correctness *)

USE JinkoTokenAssumption DEF JinkoTokenAssumption

\* Where a goroutine may stand.
PointsOf(p) == IF p = "fetch" THEN FetchPoints ELSE KeeperPoints

\* A goroutine comes back from the gate to one of its own points, never to one
\* under the gate (Resume).
LEMMA ResumeTyped ==
    ASSUME NEW p \in Procs, NEW t \in TasksOf(p), NEW outcome
    PROVE  Resume(t, outcome) \in PointsOf(p) \ GatePoints
BY DEF Resume, Procs, TasksOf, PointsOf, FetchPoints, KeeperPoints, GatePoints, Transaction

\* What a type-correct state says of one goroutine.
LEMMA GoroutineTyped ==
    ASSUME TypeInv, NEW p \in Procs
    PROVE  /\ pc[p] \in PointsOf(p)
           /\ pc[p] \in GatePoints => task[p] \in TasksOf(p)
BY DEF TypeInv, TypeOK, TaskOK, Procs, PointsOf

\* Moving one goroutine keeps the control variables typed.
ControlOK ==
    /\ pc \in [Procs -> FetchPoints \cup KeeperPoints]
    /\ pc["fetch"] \in FetchPoints /\ pc["bg"] \in KeeperPoints
    /\ task \in [Procs -> RefreshTasks \cup PendingTasks \cup {"none"}]
    /\ TaskOK

LEMMA ReturnTyped ==
    ASSUME ControlOK, NEW p \in Procs, task[p] \in TasksOf(p), NEW outcome, Return(p, outcome)
    PROVE  ControlOK'
<1> DEFINE r == Resume(task[p], outcome)
<1>1. r \in PointsOf(p) \ GatePoints
  BY ResumeTyped
<1>2. pc' = [pc EXCEPT ![p] = r] /\ task' = [task EXCEPT ![p] = "none"]
  BY DEF Return, Goto
<1> HIDE DEF r
<1>3. QED
  BY <1>1, <1>2 DEF ControlOK, TaskOK, Procs, PointsOf, FetchPoints, KeeperPoints, GatePoints, Transaction

LEMMA WaitTyped ==
    ASSUME ControlOK, NEW p \in Procs, NEW t \in TasksOf(p), pc[p] \notin GatePoints,
           WaitForGate(p, t)
    PROVE  ControlOK'
<1> DEFINE r == Resume(t, "error")
<1>1. r \in PointsOf(p) \ GatePoints
  BY ResumeTyped
<1>2. \/ pc' = [pc EXCEPT ![p] = r] /\ task' = task
      \/ pc' = [pc EXCEPT ![p] = "wait"] /\ task' = [task EXCEPT ![p] = t]
  BY DEF WaitForGate, Goto
<1> HIDE DEF r
<1>3. QED
  BY <1>1, <1>2 DEF ControlOK, TaskOK, Procs, TasksOf, PointsOf, FetchPoints, KeeperPoints,
       GatePoints, Transaction, RefreshTasks, PendingTasks

\* The rest of the type invariant.
DataOK ==
    /\ mode \in {"down", "up", "stopping"}
    /\ now \in Times
    /\ config \in [access : Tokens, refresh : Tokens]
    /\ file \in State
    /\ client \in [access : Tokens, refresh : Tokens, updatedAt : Times, uncertain : BOOLEAN,
                   refreshedUnknown : BOOLEAN, version : Nat, floor : Times]
    /\ pending \in [state : State, base : Nat]
    /\ gate \in Procs \cup {"free"}
    /\ wake \in BOOLEAN
    /\ seen \in Nat
    /\ tx \in [Procs -> State]
    /\ nextToken \in 2..(MaxToken + 1)
    /\ expiry \in [Tokens -> Times]
    /\ live \subseteq Tokens
    /\ net \in [refresh : Tokens, access : Tokens, next : Tokens, answered : BOOLEAN]
    /\ spent \subseteq Tokens

LEMMA TypeSplit == TypeInv <=> DataOK /\ ControlOK
BY DEF TypeInv, TypeOK, DataOK, ControlOK

\* Typed values that actions build.
LEMMA EmptyTyped ==
    NoState \in State /\ NoPending \in [state : State, base : Nat]
    /\ NoClient \in [access : Tokens, refresh : Tokens, updatedAt : Times, uncertain : BOOLEAN,
                     refreshedUnknown : BOOLEAN, version : Nat, floor : Times]
    /\ NoRequest \in [refresh : Tokens, access : Tokens, next : Tokens, answered : BOOLEAN]
BY DEF NoState, NoPending, NoClient, NoRequest, State, Tokens, Times

LEMMA ActivatedTyped ==
    ASSUME DataOK, NEW s \in State
    PROVE  Activated(s) \in [access : Tokens, refresh : Tokens, updatedAt : Times,
                            uncertain : BOOLEAN, refreshedUnknown : BOOLEAN, version : Nat,
                            floor : Times]
BY DEF DataOK, Activated, State, Times

LEMMA LoadedTyped ==
    ASSUME DataOK
    PROVE  Loaded(config, file) \in [access : Tokens, refresh : Tokens, updatedAt : Times,
                                    uncertain : BOOLEAN, refreshedUnknown : BOOLEAN,
                                    version : Nat, floor : Times]
<1> DEFINE prefer == PreferState(config, file)
           access == IF prefer THEN file.access ELSE config.access
           updatedAt == IF prefer THEN file.updatedAt ELSE 0
<1>1. access \in Tokens /\ updatedAt \in Times /\ FloorAfterRestart(updatedAt) \in Times
  BY DEF DataOK, State, Times, FloorAfterRestart
<1>2. file.refresh \in Tokens /\ config.refresh \in Tokens /\ file.marker \in BOOLEAN
  BY DEF DataOK, State
<1>3. QED
  BY <1>1, <1>2 DEF Loaded, Times

LEMMA MarkerTyped ==
    ASSUME DataOK, NEW p \in Procs
    PROVE  Marker(p) \in State
BY DEF DataOK, Marker, State, Times

LEMMA TypeInit == Init => TypeInv
<1> SUFFICES ASSUME Init PROVE DataOK /\ ControlOK
  BY TypeSplit
<1>1. ControlOK
  BY DEF Init, ControlOK, TaskOK, Procs, FetchPoints, KeeperPoints, GatePoints, Transaction
<1>2. PICK life \in ConfigLifetimes : expiry = [a \in Tokens |-> IF a = 1 THEN ExpiryOf(life) ELSE 0]
  BY DEF Init
<1>3. ExpiryOf(life) \in Times
  BY DEF Init, ExpiryOf, Times
<1>4. expiry \in [Tokens -> Times]
  BY <1>2, <1>3 DEF Times
<1>5. config \in [access : Tokens, refresh : Tokens]
  BY DEF Init, Tokens
<1>6. tx \in [Procs -> State] /\ live \subseteq Tokens /\ nextToken \in 2..(MaxToken + 1)
  BY EmptyTyped DEF Init, Tokens
<1>7. DataOK
  BY <1>4, <1>5, <1>6, EmptyTyped DEF Init, DataOK, Times
<1>8. QED
  BY <1>1, <1>7

LEMMA TypeStep == TypeInv /\ [Next]_vars => TypeInv'
<1> SUFFICES ASSUME TypeInv, [Next]_vars PROVE TypeInv'
  OBVIOUS
<1>0. DataOK /\ ControlOK /\ pc["fetch"] \in FetchPoints /\ pc["bg"] \in KeeperPoints
  BY TypeSplit DEF ControlOK
<1> SUFFICES DataOK' /\ ControlOK'
  BY TypeSplit, PTL
<1> USE DEF serverVars
<1>1. CASE FetchStart
  <2>1. DataOK'
    BY <1>0, <1>1 DEF FetchStart, DataOK
  <2>2. CASE WaitForGate("fetch", "pendStart")
    <3>1. "fetch" \in Procs /\ "pendStart" \in TasksOf("fetch") /\ pc["fetch"] \notin GatePoints
      BY <1>1 DEF FetchStart, Procs, TasksOf, GatePoints, Transaction
    <3>2. QED
      BY <1>0, <2>1, <2>2, <3>1, WaitTyped
  <2>3. CASE Goto("fetch", "due") /\ UNCHANGED task
    BY <1>0, <2>1, <2>3 DEF Goto, ControlOK, TaskOK, Procs, FetchPoints, GatePoints, Transaction
  <2>4. QED
    BY <1>1, <2>1, <2>2, <2>3 DEF FetchStart
<1>2. CASE FetchCheckDue
  <2>1. DataOK'
    BY <1>0, <1>2 DEF FetchCheckDue, DataOK
  <2>2. CASE WaitForGate("fetch", "proactive")
    <3>1. "fetch" \in Procs /\ "proactive" \in TasksOf("fetch") /\ pc["fetch"] \notin GatePoints
      BY <1>2 DEF FetchCheckDue, Procs, TasksOf, GatePoints, Transaction
    <3>2. QED
      BY <1>0, <2>1, <2>2, <3>1, WaitTyped
  <2>3. CASE Goto("fetch", "detail") /\ UNCHANGED task
    BY <1>0, <2>1, <2>3 DEF Goto, ControlOK, TaskOK, Procs, FetchPoints, GatePoints, Transaction
  <2>4. QED
    BY <1>2, <2>1, <2>2, <2>3 DEF FetchCheckDue
<1>3. CASE DetailSend
  <2>1. DataOK'
    BY <1>0, <1>3 DEF DetailSend, DataOK
  <2>2. ControlOK'
    BY <1>0, <1>3 DEF DetailSend, Goto, ControlOK, TaskOK, Procs, FetchPoints, GatePoints, Transaction
  <2>3. QED
    BY <2>1, <2>2
<1>4. CASE DetailReply
  <2>1. DataOK'
    BY <1>0, <1>4 DEF DetailReply, DataOK
  <2>2. ControlOK'
    BY <1>0, <1>4 DEF DetailReply, Goto, ControlOK, TaskOK, Procs, FetchPoints, GatePoints, Transaction
  <2>3. QED
    BY <2>1, <2>2
<1>5. CASE DetailUnauthorized
  <2>1. DataOK'
    BY <1>0, <1>5 DEF DetailUnauthorized, DataOK
  <2>2. ControlOK'
    BY <1>0, <1>5, WaitTyped DEF DetailUnauthorized, Procs, TasksOf, GatePoints, Transaction
  <2>3. QED
    BY <2>1, <2>2
<1>6. CASE FetchEnd
  <2>1. DataOK'
    BY <1>0, <1>6 DEF FetchEnd, DataOK
  <2>2. CASE WaitForGate("fetch", "pendEnd")
    <3>1. "fetch" \in Procs /\ "pendEnd" \in TasksOf("fetch") /\ pc["fetch"] \notin GatePoints
      BY <1>6 DEF FetchEnd, Procs, TasksOf, GatePoints, Transaction
    <3>2. QED
      BY <1>0, <2>1, <2>2, <3>1, WaitTyped
  <2>3. CASE Goto("fetch", "idle") /\ UNCHANGED task
    BY <1>0, <2>1, <2>3 DEF Goto, ControlOK, TaskOK, Procs, FetchPoints, GatePoints, Transaction
  <2>4. QED
    BY <1>6, <2>1, <2>2, <2>3 DEF FetchEnd
<1>7. CASE KeeperLoop
  <2>1. DataOK'
    BY <1>0, <1>7 DEF KeeperLoop, DataOK
  <2>2. CASE WaitForGate("bg", "pendLoop")
    <3>1. "bg" \in Procs /\ "pendLoop" \in TasksOf("bg") /\ pc["bg"] \notin GatePoints
      BY <1>7 DEF KeeperLoop, Procs, TasksOf, GatePoints, Transaction
    <3>2. QED
      BY <1>0, <2>1, <2>2, <3>1, WaitTyped
  <2>3. CASE \E point \in {"done", "sched"} : Goto("bg", point) /\ UNCHANGED task
    BY <1>0, <2>1, <2>3 DEF Goto, ControlOK, TaskOK, Procs, KeeperPoints, GatePoints, Transaction
  <2>4. QED
    BY <1>7, <2>1, <2>2, <2>3 DEF KeeperLoop
<1>8. CASE KeeperCheck
  <2>1. DataOK'
    BY <1>0, <1>8 DEF KeeperCheck, DataOK
  <2>2. ControlOK'
    BY <1>0, <1>8 DEF KeeperCheck, Goto, ControlOK, TaskOK, Procs, KeeperPoints, GatePoints, Transaction
  <2>3. QED
    BY <2>1, <2>2
<1>9. CASE KeeperPlan
  <2>1. DataOK'
    BY <1>0, <1>9 DEF KeeperPlan, DataOK
  <2>2. CASE WaitForGate("bg", "background")
    <3>1. "bg" \in Procs /\ "background" \in TasksOf("bg") /\ pc["bg"] \notin GatePoints
      BY <1>9 DEF KeeperPlan, Procs, TasksOf, GatePoints, Transaction
    <3>2. QED
      BY <1>0, <2>1, <2>2, <3>1, WaitTyped
  <2>3. CASE \E point \in {"sleep", "park"} : Goto("bg", point) /\ UNCHANGED task
    BY <1>0, <2>1, <2>3 DEF Goto, ControlOK, TaskOK, Procs, KeeperPoints, GatePoints, Transaction
  <2>4. QED
    BY <1>9, <2>1, <2>2, <2>3 DEF KeeperPlan
<1>10. CASE KeeperWake
  <2>1. DataOK'
    BY <1>0, <1>10 DEF KeeperWake, DataOK
  <2>2. ControlOK'
    BY <1>0, <1>10 DEF KeeperWake, Goto, ControlOK, TaskOK, Procs, KeeperPoints, GatePoints, Transaction
  <2>3. QED
    BY <2>1, <2>2
<1>11. ASSUME NEW p \in Procs, GateStep(p) PROVE DataOK' /\ ControlOK'
  <2>0. pc[p] \in GatePoints => task[p] \in TasksOf(p)
    BY <1>0 DEF ControlOK, TaskOK
  <2>1. CASE GateCancelled(p)
    <3>1. ControlOK'
      BY <1>0, <2>0, <2>1, ReturnTyped DEF GateCancelled, GatePoints
    <3>2. QED
      BY <1>0, <2>1, <3>1 DEF GateCancelled, DataOK
  <2>2. CASE GateForPending(p)
    <3>0. DataOK'
      BY <1>0, <2>2 DEF GateForPending, DataOK
    <3>1. CASE Return(p, "ok")
      BY <1>0, <2>0, <2>2, <3>0, <3>1, ReturnTyped DEF GateForPending, GatePoints
    <3>2. CASE Goto(p, "write") /\ UNCHANGED task
      BY <1>0, <2>2, <3>0, <3>2 DEF GateForPending, Goto, ControlOK, TaskOK, Procs, FetchPoints,
           KeeperPoints, GatePoints, Transaction
    <3>3. QED
      BY <2>2, <3>1, <3>2 DEF GateForPending
  <2>3. CASE GateForRefresh(p)
    <3>1. CASE gate' = p /\ tx' = [tx EXCEPT ![p] = Material] /\ Goto(p, "prepare") /\ UNCHANGED task
      <4>1. ControlOK'
        BY <1>0, <2>3, <3>1 DEF GateForRefresh, Goto, ControlOK, TaskOK, Procs, FetchPoints,
             KeeperPoints, GatePoints, Transaction
      <4>2. Material \in State
        BY <1>0 DEF Material, DataOK, State
      <4>3. QED
        BY <1>0, <2>3, <3>1, <4>1, <4>2 DEF GateForRefresh, DataOK
    <3>2. CASE (\E o : Return(p, o)) /\ UNCHANGED <<gate, tx>>
      <4>1. ControlOK'
        BY <1>0, <2>0, <2>3, <3>2, ReturnTyped DEF GateForRefresh, GatePoints
      <4>2. QED
        BY <1>0, <2>3, <3>2, <4>1 DEF GateForRefresh, DataOK
    <3>3. QED
      BY <2>3, <3>1, <3>2 DEF GateForRefresh
  <2>4. CASE PendingWritten(p)
    <3>1. ControlOK'
      BY <1>0, <2>0, <2>4, ReturnTyped DEF PendingWritten, GatePoints
    <3>2. pending.state \in State
      BY <1>0 DEF DataOK
    <3>3. QED
      <4>1. client' \in [access : Tokens, refresh : Tokens, updatedAt : Times, uncertain : BOOLEAN,
                         refreshedUnknown : BOOLEAN, version : Nat, floor : Times]
        BY <1>0, <2>4, <3>2, ActivatedTyped DEF PendingWritten, DataOK
      <4>2. pending' \in [state : State, base : Nat] /\ wake' \in BOOLEAN
        BY <1>0, <2>4, EmptyTyped DEF PendingWritten, DataOK
      <4>3. QED
        BY <1>0, <2>4, <3>1, <3>2, <4>1, <4>2 DEF PendingWritten, DataOK
  <2>5. CASE PendingWriteFails(p)
    <3>1. ControlOK'
      BY <1>0, <2>0, <2>5, ReturnTyped DEF PendingWriteFails, GatePoints
    <3>2. QED
      BY <1>0, <2>5, <3>1 DEF PendingWriteFails, DataOK
  <2>6. CASE MarkerWritten(p)
    <3>1. ControlOK'
      BY <1>0, <2>6 DEF MarkerWritten, Goto, ControlOK, TaskOK, Procs, FetchPoints,
           KeeperPoints, GatePoints, Transaction
    <3>2. QED
      BY <1>0, <2>6, <3>1, MarkerTyped DEF MarkerWritten, DataOK
  <2>7. CASE MarkerWriteFails(p)
    <3>1. ControlOK'
      BY <1>0, <2>0, <2>7, ReturnTyped DEF MarkerWriteFails, Leave, GatePoints, Transaction
    <3>2. QED
      BY <1>0, <2>7, <3>1, MarkerTyped, EmptyTyped DEF MarkerWriteFails, Leave, DataOK
  <2>8. CASE Post(p)
    <3>1. ControlOK'
      BY <1>0, <2>8 DEF Post, Goto, ControlOK, TaskOK, Procs, FetchPoints,
           KeeperPoints, GatePoints, Transaction
    <3>2. tx[p].refresh \in Tokens
      BY <1>0 DEF DataOK, State
    <3>3. net' \in [refresh : Tokens, access : Tokens, next : Tokens, answered : BOOLEAN]
      BY <2>8, <3>2, EmptyTyped DEF Post
    <3>4. QED
      BY <1>0, <2>8, <3>1, <3>2, <3>3 DEF Post, DataOK
  <2>9. CASE Answered(p)
    <3>1. ControlOK'
      BY <1>0, <2>9 DEF Answered, Goto, ControlOK, TaskOK, Procs, FetchPoints,
           KeeperPoints, GatePoints, Transaction
    <3>2. tx' \in [Procs -> State]
      BY <1>0, <2>9 DEF Answered, DataOK, State
    <3>3. spent' \subseteq Tokens
      BY <1>0, <2>9 DEF Answered, DataOK
    <3>4. QED
      BY <1>0, <2>9, <3>1, <3>2, <3>3, EmptyTyped DEF Answered, DataOK
  <2>10. CASE Ambiguous(p)
    <3>1. ControlOK'
      BY <1>0, <2>0, <2>10, ReturnTyped DEF Ambiguous, Leave, GatePoints, Transaction
    <3>2. QED
      BY <1>0, <2>10, <3>1, EmptyTyped DEF Ambiguous, Leave, DataOK
  <2>11. CASE PairWritten(p)
    <3>1. ControlOK'
      BY <1>0, <2>0, <2>11, ReturnTyped DEF PairWritten, Leave, GatePoints, Transaction
    <3>2. tx[p] \in State
      BY <1>0 DEF DataOK
    <3>3. QED
      BY <1>0, <2>11, <3>1, <3>2, EmptyTyped, ActivatedTyped DEF PairWritten, Leave, DataOK
  <2>12. CASE PairWriteRetried(p)
    BY <1>0, <2>12 DEF PairWriteRetried, DataOK, ControlOK, TaskOK
  <2>13. CASE PairWriteFails(p)
    <3>1. ControlOK'
      BY <1>0, <2>0, <2>13, ReturnTyped DEF PairWriteFails, Leave, GatePoints, Transaction
    <3>2. QED
      BY <1>0, <2>13, <3>1, EmptyTyped DEF PairWriteFails, Leave, DataOK
  <2>14. QED
    BY <1>11, <2>1, <2>2, <2>3, <2>4, <2>5, <2>6, <2>7, <2>8, <2>9, <2>10, <2>11, <2>12, <2>13
       DEF GateStep
<1>12. CASE ServerAccepts
  <2>1. PICK rotate \in BOOLEAN, life \in Lifetimes :
          /\ expiry' = [expiry EXCEPT ![nextToken] = ExpiryOf(life)]
          /\ live' = IF rotate THEN (live \ {net.refresh}) \cup {nextToken} ELSE live
          /\ net' = [net EXCEPT !.answered = TRUE, !.access = nextToken,
                                !.next = IF rotate THEN nextToken ELSE 0]
    BY <1>12 DEF ServerAccepts
  <2>2. ExpiryOf(life) \in Times /\ nextToken \in Tokens /\ nextToken + 1 \in 2..(MaxToken + 1)
    <3>1. now \in Nat /\ nextToken \in 2..(MaxToken + 1) /\ nextToken <= MaxToken /\ life \in Nat
      BY <1>0, <1>12 DEF ServerAccepts, DataOK, Times
    <3>2. QED
      BY <3>1 DEF ExpiryOf, Times, Tokens
  <2>3. DataOK'
    <3>1. expiry' \in [Tokens -> Times] /\ live' \subseteq Tokens
      BY <1>0, <2>1, <2>2 DEF DataOK
    <3>2. net' \in [refresh : Tokens, access : Tokens, next : Tokens, answered : BOOLEAN]
      <4>1. (IF rotate THEN nextToken ELSE 0) \in Tokens
        <5>1. 0 \in Tokens
          BY DEF Tokens
        <5>2. QED
          BY <2>2, <5>1
      <4>2. net \in [refresh : Tokens, access : Tokens, next : Tokens, answered : BOOLEAN]
        BY <1>0 DEF DataOK
      <4>3. QED
        BY <2>1, <2>2, <4>1, <4>2
    <3>3. QED
      BY <1>0, <1>12, <2>2, <3>1, <3>2 DEF ServerAccepts, DataOK
  <2>4. QED
    BY <1>0, <1>12, <2>3 DEF ServerAccepts, ControlOK, TaskOK
<1>13. CASE OperatorRecovers
  <2>1. PICK life \in Lifetimes \cup ConfigLifetimes :
          expiry' = [expiry EXCEPT ![nextToken] = ExpiryOf(life)]
    BY <1>13 DEF OperatorRecovers
  <2>2. ExpiryOf(life) \in Times /\ nextToken \in Tokens /\ nextToken + 1 \in 2..(MaxToken + 1)
    <3>1. now \in Nat /\ nextToken \in 2..(MaxToken + 1) /\ nextToken <= MaxToken /\ life \in Nat
      BY <1>0, <1>13 DEF OperatorRecovers, DataOK, Times
    <3>2. QED
      BY <3>1 DEF ExpiryOf, Times, Tokens
  <2>3. file' \in State /\ config' \in [access : Tokens, refresh : Tokens]
    <3>1. now \in Times /\ file \in State /\ config \in [access : Tokens, refresh : Tokens]
      BY <1>0 DEF DataOK
    <3>2. [access |-> nextToken, refresh |-> nextToken, updatedAt |-> now, marker |-> FALSE] \in State
      BY <2>2, <3>1 DEF State
    <3>3. [access |-> nextToken, refresh |-> nextToken] \in [access : Tokens, refresh : Tokens]
      BY <2>2
    <3>4. QED
      BY <1>13, <3>1, <3>2, <3>3, EmptyTyped DEF OperatorRecovers
  <2>4. DataOK'
    BY <1>0, <1>13, <2>1, <2>2, <2>3 DEF OperatorRecovers, DataOK
  <2>5. QED
    BY <1>0, <1>13, <2>4 DEF OperatorRecovers, ControlOK, TaskOK
<1>14. CASE Tick
  BY <1>0, <1>14 DEF Tick, DataOK, Times, ControlOK, TaskOK
<1>15. CASE Start
  <2>1. ControlOK'
    BY <1>0, <1>15 DEF Start, ControlOK, TaskOK, Procs, FetchPoints, KeeperPoints, GatePoints, Transaction
  <2>2. QED
    BY <1>0, <1>15, <2>1, LoadedTyped DEF Start, DataOK
<1>16. CASE Crash \/ Exit
  <2>1. Vanish
    BY <1>16 DEF Crash, Exit
  <2>2. ControlOK'
    BY <1>0, <2>1 DEF Vanish, ControlOK, TaskOK, Procs, FetchPoints, KeeperPoints, GatePoints, Transaction
  <2>3. QED
    BY <1>0, <2>1, <2>2, EmptyTyped DEF Vanish, DataOK
<1>17. CASE Shutdown
  BY <1>0, <1>17 DEF Shutdown, DataOK, ControlOK, TaskOK
<1>18. CASE UNCHANGED vars
  BY <1>0, <1>18 DEF vars, DataOK, ControlOK, TaskOK
<1>19. QED
  BY <1>1, <1>2, <1>3, <1>4, <1>5, <1>6, <1>7, <1>8, <1>9, <1>10, <1>11, <1>12, <1>13, <1>14,
     <1>15, <1>16, <1>17, <1>18 DEF Next, FetchStep, KeeperStep

\* Every variable of the client, the file and the server keeps its type.
THEOREM TypeCorrect == Spec => []TypeOK
<1>1. Spec => []TypeInv
  BY TypeInit, TypeStep, PTL DEF Spec
<1>2. TypeInv => TypeOK
  BY DEF TypeInv
<1>3. QED
  BY <1>1, <1>2, PTL

-----------------------------------------------------------------------------
(* The way down after a shutdown *)

\* Whatever a goroutine wanted the gate for, it comes back from it nearer to its end
\* than any point under the gate, and nearer than where it asked for the gate when
\* its context is done already.
LEMMA ResumeDescends ==
    ASSUME NEW p \in Procs, NEW t \in TasksOf(p), NEW outcome, mode = "stopping"
    PROVE  /\ ShutdownRank(Resume(t, outcome)) \in 0..6
           /\ t = "proactive" => ShutdownRank(Resume(t, "error")) \in 0..5
           /\ t \in {"pendEnd", "unauthorized", "background"}
                => ShutdownRank(Resume(t, "error")) = 0
<1>1. CASE t \in {"pendStart", "pendEnd"}
  BY <1>1 DEF Resume, ShutdownRank
<1>2. CASE t = "proactive"
  BY <1>2 DEF Resume, ShutdownRank
<1>3. CASE t = "unauthorized"
  BY <1>3 DEF Resume, ShutdownRank
<1>4. CASE t \in {"pendLoop", "background"}
  BY <1>4 DEF Resume, ShutdownRank
<1>5. QED
  BY <1>1, <1>2, <1>3, <1>4 DEF TasksOf

\* A goroutine that asks for the gate after the shutdown does not get to wait for it.
LEMMA NoMoreWaiting ==
    ASSUME NEW p \in Procs, NEW t, mode = "stopping", WaitForGate(p, t)
    PROVE  Goto(p, Resume(t, "error"))
BY DEF WaitForGate, ContextDone

LEMMA ShutdownFetch ==
    ASSUME TypeInv, mode = "stopping", FetchStart \/ FetchStep
    PROVE  /\ pc'["bg"] = pc["bg"]
           /\ ShutdownRank(pc'["fetch"]) < ShutdownRank(pc["fetch"])
<1>0. pc \in [Procs -> FetchPoints \cup KeeperPoints] /\ Procs = {"fetch", "bg"}
  BY DEF TypeInv, TypeOK, Procs
<1>1. /\ \A t \in {"proactive", "unauthorized", "pendEnd"} : t \in TasksOf("fetch")
      /\ ContextDone("fetch") = {TRUE}
  BY DEF TasksOf, ContextDone
<1>2. CASE FetchCheckDue
  <2>1. pc' = [pc EXCEPT !["fetch"] = Resume("proactive", "error")]
        \/ pc' = [pc EXCEPT !["fetch"] = "detail"]
    BY <1>0, <1>2, NoMoreWaiting DEF FetchCheckDue, Goto
  <2>2. ShutdownRank(Resume("proactive", "error")) \in 0..5
    BY <1>0, <1>1, ResumeDescends
  <2>3. pc["fetch"] = "due" /\ ShutdownRank("due") = 6 /\ ShutdownRank("detail") = 5
    BY <1>2 DEF FetchCheckDue, ShutdownRank
  <2>4. QED
    BY <1>0, <2>1, <2>2, <2>3
<1>3. CASE DetailSend
  <2>1. \/ pc["fetch"] = "detail" /\ pc' = [pc EXCEPT !["fetch"] = "sent"]
        \/ pc["fetch"] = "detail2" /\ pc' = [pc EXCEPT !["fetch"] = "sent2"]
        \/ pc["fetch"] \in {"detail", "detail2"} /\ pc' = [pc EXCEPT !["fetch"] = "idle"]
    BY <1>3 DEF DetailSend, Goto
  <2>2. QED
    BY <1>0, <2>1 DEF ShutdownRank
<1>4. CASE DetailReply
  <2>1. \E x \in {"final", "idle"} : pc' = [pc EXCEPT !["fetch"] = x]
    BY <1>1, <1>4 DEF DetailReply, Goto
  <2>2. QED
    BY <1>0, <1>4, <2>1 DEF DetailReply, ShutdownRank
<1>5. CASE DetailUnauthorized
  <2>1. pc' = [pc EXCEPT !["fetch"] = Resume("unauthorized", "error")]
    BY <1>0, <1>5, NoMoreWaiting DEF DetailUnauthorized, Goto
  <2>2. ShutdownRank(Resume("unauthorized", "error")) = 0
    BY <1>0, <1>1, ResumeDescends
  <2>3. pc["fetch"] = "sent" /\ ShutdownRank("sent") = 4
    BY <1>5 DEF DetailUnauthorized, ShutdownRank
  <2>4. QED
    BY <1>0, <2>1, <2>2, <2>3
<1>6. CASE FetchEnd
  <2>1. pc' = [pc EXCEPT !["fetch"] = Resume("pendEnd", "error")]
        \/ pc' = [pc EXCEPT !["fetch"] = "idle"]
    BY <1>0, <1>6, NoMoreWaiting DEF FetchEnd, Goto
  <2>2. ShutdownRank(Resume("pendEnd", "error")) = 0
    BY <1>0, <1>1, ResumeDescends
  <2>3. pc["fetch"] = "final" /\ ShutdownRank("final") = 1 /\ ShutdownRank("idle") = 0
    BY <1>6 DEF FetchEnd, ShutdownRank
  <2>4. QED
    BY <1>0, <2>1, <2>2, <2>3
<1>7. QED
  BY <1>2, <1>3, <1>4, <1>5, <1>6 DEF FetchStart, FetchStep

LEMMA ShutdownKeeper ==
    ASSUME TypeInv, mode = "stopping", KeeperStep
    PROVE  /\ pc'["fetch"] = pc["fetch"]
           /\ ShutdownRank(pc'["bg"]) < ShutdownRank(pc["bg"])
<1>0. pc \in [Procs -> FetchPoints \cup KeeperPoints] /\ Procs = {"fetch", "bg"}
  BY DEF TypeInv, TypeOK, Procs
<1>1. CASE KeeperLoop \/ KeeperCheck
  <2>1. \/ pc["bg"] = "loop" /\ pc' = [pc EXCEPT !["bg"] = "done"]
        \/ pc["bg"] = "sched" /\ \E x \in {"done", "plan"} : pc' = [pc EXCEPT !["bg"] = x]
    BY <1>1 DEF KeeperLoop, KeeperCheck, Goto
  <2>2. QED
    BY <1>0, <2>1 DEF ShutdownRank
<1>2. CASE KeeperPlan
  <2>1. \E x \in {Resume("background", "error"), "sleep", "park"} : pc' = [pc EXCEPT !["bg"] = x]
    BY <1>0, <1>2, NoMoreWaiting DEF KeeperPlan, Goto
  <2>2. "background" \in TasksOf("bg")
    BY DEF TasksOf
  <2>3. ShutdownRank(Resume("background", "error")) = 0
    BY <1>0, <2>2, ResumeDescends
  <2>4. /\ pc["bg"] = "plan" /\ ShutdownRank("plan") = 3
        /\ ShutdownRank("sleep") = 2 /\ ShutdownRank("park") = 2
    BY <1>2 DEF KeeperPlan, ShutdownRank
  <2>5. QED
    BY <1>0, <2>1, <2>3, <2>4
<1>3. CASE KeeperWake
  <2>1. \E x \in {"done", "loop"} : pc' = [pc EXCEPT !["bg"] = x]
    BY <1>3 DEF KeeperWake, Goto
  <2>2. QED
    BY <1>0, <1>3, <2>1 DEF KeeperWake, ShutdownRank
<1>4. QED
  BY <1>1, <1>2, <1>3 DEF KeeperStep

LEMMA ShutdownGate ==
    ASSUME TypeInv, mode = "stopping", NEW p \in Procs, GateStep(p)
    PROVE  \/ pc' = pc
           \/ /\ \A q \in Procs \ {p} : pc'[q] = pc[q]
              /\ ShutdownRank(pc'[p]) < ShutdownRank(pc[p])
<1>0. pc \in [Procs -> FetchPoints \cup KeeperPoints]
  BY DEF TypeInv, TypeOK
<1>1. ASSUME pc[p] \in GatePoints, NEW outcome, Return(p, outcome)
      PROVE  /\ \A q \in Procs \ {p} : pc'[q] = pc[q]
             /\ ShutdownRank(pc'[p]) < ShutdownRank(pc[p])
  <2>1. task[p] \in TasksOf(p)
    BY <1>1, GoroutineTyped
  <2>2. ShutdownRank(Resume(task[p], outcome)) \in 0..6
    BY <2>1, ResumeDescends
  <2>3. ShutdownRank(pc[p]) \in 7..12
    BY <1>1 DEF GatePoints, Transaction, ShutdownRank
  <2>4. pc' = [pc EXCEPT ![p] = Resume(task[p], outcome)]
    BY <1>1 DEF Return, Goto
  <2>5. QED
    BY <1>0, <2>2, <2>3, <2>4
<1>2. CASE \/ GateCancelled(p) \/ PendingWritten(p) \/ PendingWriteFails(p)
           \/ MarkerWriteFails(p) \/ Ambiguous(p) \/ PairWritten(p) \/ PairWriteFails(p)
  <2>1. pc[p] \in GatePoints
    BY <1>2 DEF GateCancelled, PendingWritten, PendingWriteFails, MarkerWriteFails, Ambiguous,
         PairWritten, PairWriteFails, GatePoints, Transaction
  <2>2. \E outcome : Return(p, outcome)
    BY <1>2 DEF GateCancelled, PendingWritten, PendingWriteFails, MarkerWriteFails, Ambiguous,
         PairWritten, PairWriteFails, Leave
  <2>3. QED
    BY <1>1, <2>1, <2>2
<1>3. CASE GateForPending(p) \/ GateForRefresh(p)
  <2>1. pc[p] = "wait" /\ pc[p] \in GatePoints
    BY <1>3 DEF GateForPending, GateForRefresh, GatePoints
  <2>2. (\E outcome : Return(p, outcome)) \/ \E x \in {"write", "prepare"} : Goto(p, x)
    BY <1>3 DEF GateForPending, GateForRefresh
  <2>3. ASSUME NEW x \in {"write", "prepare"}, Goto(p, x)
        PROVE  /\ \A q \in Procs \ {p} : pc'[q] = pc[q]
               /\ ShutdownRank(pc'[p]) < ShutdownRank(pc[p])
    BY <1>0, <2>1, <2>3 DEF Goto, ShutdownRank
  <2>4. QED
    BY <1>1, <2>1, <2>2, <2>3
<1>4. CASE MarkerWritten(p) \/ Post(p) \/ Answered(p)
  <2>1. \/ pc[p] = "prepare" /\ pc' = [pc EXCEPT ![p] = "post"]
        \/ pc[p] = "post" /\ pc' = [pc EXCEPT ![p] = "await"]
        \/ pc[p] = "await" /\ pc' = [pc EXCEPT ![p] = "persist"]
    BY <1>4 DEF MarkerWritten, Post, Answered, Goto
  <2>2. QED
    BY <1>0, <2>1 DEF ShutdownRank
<1>5. CASE PairWriteRetried(p)
  BY <1>5 DEF PairWriteRetried
<1>6. QED
  BY <1>2, <1>3, <1>4, <1>5 DEF GateStep

\* A shutdown leads nowhere but to the end: every move of a goroutine after serve
\* cancelled its context lowers its rank, so it makes at most twelve of them
\* (acquireRefreshGate, doDetailRequest, waitForMaintenance, RunBackground).
THEOREM ShutdownDescends == Spec => ShutdownIsDirect
<1>1. TypeInv /\ [Next]_vars
        => [mode = "stopping" /\ mode' = "stopping"
              => \A p \in Procs :
                   pc'[p] # pc[p] => ShutdownRank(pc'[p]) < ShutdownRank(pc[p])]_vars
  <2>1. SUFFICES ASSUME TypeInv, Next, mode = "stopping", mode' = "stopping",
                        NEW q \in Procs, pc'[q] # pc[q]
                 PROVE  ShutdownRank(pc'[q]) < ShutdownRank(pc[q])
    OBVIOUS
  <2>2. Procs = {"fetch", "bg"}
    BY DEF Procs
  <2>3. CASE FetchStart \/ FetchStep
    BY <2>1, <2>2, <2>3, ShutdownFetch
  <2>4. CASE KeeperStep
    BY <2>1, <2>2, <2>4, ShutdownKeeper
  <2>5. ASSUME NEW p \in Procs, GateStep(p) PROVE ShutdownRank(pc'[q]) < ShutdownRank(pc[q])
    BY <2>1, <2>5, ShutdownGate
  <2>6. CASE ServerAccepts \/ OperatorRecovers \/ Tick \/ Shutdown \/ Start \/ Crash \/ Exit
    BY <2>1, <2>6 DEF ServerAccepts, OperatorRecovers, Tick, Shutdown, Start, Crash, Exit, Vanish
  <2>7. QED
    BY <2>1, <2>3, <2>4, <2>5, <2>6 DEF Next
<1>2. Spec => []TypeInv
  BY TypeInit, TypeStep, PTL DEF Spec
<1>3. QED
  BY <1>1, <1>2, PTL DEF Spec, ShutdownIsDirect
=============================================================================
