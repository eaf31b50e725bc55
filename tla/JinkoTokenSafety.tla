-------------------------- MODULE JinkoTokenSafety --------------------------
(***************************************************************************)
(* Safety of the rotation protocol of JinkoToken, for every bound, every   *)
(* clock and every set of lifetimes. Layers of inductive invariant:        *)
(* exclusion (GateInv), the in-flight marker and the pause (PauseInv), the *)
(* refresh tokens that may be spent (SpentInv), what rotations and         *)
(* requests are about (MaterialOK), where the pair that the server accepts *)
(* is kept (LiveInv), and what wakes the keeper (KeeperInv). Only SpentInv *)
(* and LiveInv, which rests on it, need StateOutranksConfig; the run       *)
(* jinko_precedence shows why.                                             *)
(***************************************************************************)
EXTENDS JinkoTokenProofs

USE JinkoTokenAssumption DEF JinkoTokenAssumption

Busy == Transaction \cup {"write"}

\* The gate is held exactly by the goroutine that is under it.
GateInv == \A p \in Procs : pc[p] \in Busy <=> gate = p

\* A stopped process has no memory.
DownInv ==
    mode = "down" => /\ pc = [p \in Procs |-> "off"]
                     /\ client = NoClient
                     /\ pending = NoPending

\* The marker is on disk whenever a refresh token is at risk or the client paused.
PauseInv ==
    /\ client.uncertain => file.marker
    /\ pending # NoPending
         => /\ pending.base = client.version /\ ~client.uncertain /\ pending.state.refresh # 0
            /\ \A p \in Procs : pc[p] \notin Transaction
    /\ \A p \in Procs :
         /\ pc[p] \in Transaction
              => ~client.uncertain /\ pending = NoPending /\ tx[p].refresh # 0
         /\ pc[p] \in {"prepare", "post", "await"} => tx[p].marker
         /\ pc[p] \in {"post", "await"} => file.marker /\ file.refresh = tx[p].refresh
         /\ pc[p] = "write" => pending # NoPending

\* Tokens in anyone's hands have been issued.
Issued(t) == t < nextToken
IssuedInv ==
    /\ Issued(client.access) /\ Issued(client.refresh)
    /\ Issued(file.access) /\ Issued(file.refresh)
    /\ Issued(config.access) /\ Issued(config.refresh)
    /\ Issued(pending.state.access) /\ Issued(pending.state.refresh)
    /\ Issued(net.access) /\ Issued(net.next) /\ Issued(net.refresh)
    /\ \A p \in Procs : Issued(tx[p].access) /\ Issued(tx[p].refresh)
    /\ \A t \in spent : Issued(t) /\ t # 0

\* The access token is one New would prefer over the configured one.
Ranked(a) ==
    /\ a # 0
    /\ \/ config.access = 0
       \/ a = config.access
       \/ expiry[a] > expiry[config.access]
       \/ expiry[a] = 0 /\ expiry[config.access] = 0

\* A pair as the server's answer makes it: usable, stamped, unspent.
NewPair(s) == Ranked(s.access) /\ s.refresh \notin spent /\ s.updatedAt # 0

\* The configured access token is no younger than its lifetime allows.
ConfigInv ==
    /\ now >= 1
    /\ config.access # 0 =>
         \E c \in ConfigLifetimes :
             IF c = 0 THEN expiry[config.access] = 0
                      ELSE expiry[config.access] <= now + c

\* What a restart would find in the file.
FileInv ==
    /\ file.access # 0 => Ranked(file.access) /\ file.updatedAt # 0
    /\ file.access = 0 => config.access = 0 \/ file = NoState
    /\ file # NoState => file.refresh # 0
    /\ file = NoState => config.refresh \notin spent
    /\ file.refresh \in spent => file.marker

\* What the running client holds: a spent refresh token only while it is paused, has
\* a successor, or waits for one.
ClientInv ==
    mode # "down" =>
      /\ client.access # 0 => Ranked(client.access)
      /\ client.access = 0 => config.access = 0
      /\ client.refresh \in spent
           => \/ client.uncertain
              \/ pending # NoPending
              \/ \E p \in Procs : pc[p] \in {"await", "persist"}

PairInv ==
    /\ pending # NoPending => NewPair(pending.state) /\ ~pending.state.marker
    /\ \A p \in Procs :
         /\ pc[p] \in {"prepare", "post", "await"}
              => tx[p].access = client.access /\ tx[p].refresh = client.refresh
         /\ pc[p] = "await" /\ net.answered => Ranked(net.access) /\ net.next \notin spent
         /\ pc[p] = "persist" => NewPair(tx[p]) /\ ~tx[p].marker

SpentInv == IssuedInv /\ ConfigInv /\ FileInv /\ ClientInv /\ PairInv

\* A goroutine moves between points outside a rotation, and nothing else happens
\* to what the layers above speak of.
Quiet ==
    /\ \E p \in Procs, x \in (FetchPoints \cup KeeperPoints) \ Transaction :
         /\ pc[p] \notin Transaction \cup {"off"} /\ pc' = [pc EXCEPT ![p] = x]
         /\ x = "write" => pending # NoPending
    /\ UNCHANGED <<mode, now, config, file, client, pending, tx, serverVars, spent>>

\* Quiet, and the gate is neither taken nor released.
Still ==
    /\ \E p \in Procs, x \in (FetchPoints \cup KeeperPoints) \ Busy :
         /\ pc[p] \notin Busy \cup {"off"} /\ pc' = [pc EXCEPT ![p] = x]
    /\ gate' = gate
    /\ UNCHANGED <<mode, now, config, file, client, pending, tx, serverVars, spent>>

-----------------------------------------------------------------------------
(* Control steps *)

LEMMA ReturnLeaves ==
    ASSUME TypeInv, NEW p \in Procs, pc[p] \in GatePoints, NEW outcome, Return(p, outcome)
    PROVE  \E x \in (FetchPoints \cup KeeperPoints) \ Busy : pc' = [pc EXCEPT ![p] = x]
<1>1. task[p] \in TasksOf(p)
  BY GoroutineTyped
<1> DEFINE r == Resume(task[p], outcome)
<1>2. r \in PointsOf(p) \ GatePoints
  BY <1>1, ResumeTyped
<1>3. pc' = [pc EXCEPT ![p] = r]
  BY DEF Return, Goto
<1> HIDE DEF r
<1>4. QED
  BY <1>2, <1>3 DEF PointsOf, GatePoints, Busy

LEMMA WaitLeaves ==
    ASSUME NEW p \in Procs, NEW t \in TasksOf(p), WaitForGate(p, t)
    PROVE  \E x \in (FetchPoints \cup KeeperPoints) \ Busy : pc' = [pc EXCEPT ![p] = x]
<1> DEFINE r == Resume(t, "error")
<1>1. r \in PointsOf(p) \ GatePoints
  BY ResumeTyped
<1>2. pc' = [pc EXCEPT ![p] = r] \/ pc' = [pc EXCEPT ![p] = "wait"]
  BY DEF WaitForGate, Goto
<1> HIDE DEF r
<1>3. QED
  BY <1>1, <1>2 DEF PointsOf, GatePoints, Busy, Transaction, FetchPoints

LEMMA FetchIsStill ==
    ASSUME TypeInv, FetchStart \/ FetchStep, mode = "down" => pc["fetch"] = "off"
    PROVE  Still
<1> USE DEF Goto, FetchPoints, Busy, GatePoints, Transaction
<1> DEFINE Land == \E x \in (FetchPoints \cup KeeperPoints) \ Busy : pc' = [pc EXCEPT !["fetch"] = x]
<1>1. "fetch" \in Procs /\ {"pendStart", "pendEnd", "proactive", "unauthorized"} \subseteq TasksOf("fetch")
  BY DEF Procs, TasksOf
<1>2. CASE FetchStart
  <2>1. Land
    BY <1>1, <1>2, WaitLeaves DEF FetchStart
  <2>2. QED
    BY <1>1, <1>2, <2>1 DEF FetchStart, Still
<1>3. CASE FetchCheckDue
  <2>1. Land
    BY <1>1, <1>3, WaitLeaves DEF FetchCheckDue
  <2>2. QED
    BY <1>1, <1>3, <2>1 DEF FetchCheckDue, Still
<1>4. CASE DetailSend
  BY <1>1, <1>4 DEF DetailSend, Still
<1>5. CASE DetailReply
  BY <1>1, <1>5 DEF DetailReply, Still
<1>6. CASE DetailUnauthorized
  <2>1. Land
    BY <1>1, <1>6, WaitLeaves DEF DetailUnauthorized
  <2>2. QED
    BY <1>1, <1>6, <2>1 DEF DetailUnauthorized, Still
<1>7. CASE FetchEnd
  <2>1. Land
    BY <1>1, <1>7, WaitLeaves DEF FetchEnd
  <2>2. QED
    BY <1>1, <1>7, <2>1 DEF FetchEnd, Still
<1>8. QED
  BY <1>2, <1>3, <1>4, <1>5, <1>6, <1>7 DEF FetchStep

LEMMA KeeperIsStill ==
    ASSUME TypeInv, KeeperStep
    PROVE  Still
<1> USE DEF Goto, KeeperPoints, Busy, GatePoints, Transaction
<1> DEFINE Land == \E x \in (FetchPoints \cup KeeperPoints) \ Busy : pc' = [pc EXCEPT !["bg"] = x]
<1>1. "bg" \in Procs /\ {"pendLoop", "background"} \subseteq TasksOf("bg")
  BY DEF Procs, TasksOf
<1>2. CASE KeeperLoop
  <2>1. Land
    BY <1>1, <1>2, WaitLeaves DEF KeeperLoop
  <2>2. QED
    BY <1>1, <1>2, <2>1 DEF KeeperLoop, Still
<1>3. CASE KeeperCheck
  BY <1>1, <1>3 DEF KeeperCheck, Still
<1>4. CASE KeeperPlan
  <2>1. Land
    BY <1>1, <1>4, WaitLeaves DEF KeeperPlan
  <2>2. QED
    BY <1>1, <1>4, <2>1 DEF KeeperPlan, Still
<1>5. CASE KeeperWake
  BY <1>1, <1>5 DEF KeeperWake, Still
<1>6. QED
  BY <1>2, <1>3, <1>4, <1>5 DEF KeeperStep

\* Every end of a stay under the gate leaves it.
LEMMA LeaveLeaves ==
    ASSUME TypeInv, NEW p \in Procs, pc[p] \in GatePoints, NEW outcome, Leave(p, outcome)
    PROVE  /\ gate' = "free" /\ tx' = [tx EXCEPT ![p] = NoState]
           /\ \E x \in (FetchPoints \cup KeeperPoints) \ Busy : pc' = [pc EXCEPT ![p] = x]
BY ReturnLeaves DEF Leave

LEMMA CancelIsStill ==
    ASSUME TypeInv, NEW p \in Procs, GateCancelled(p)
    PROVE  Still
<1>1. pc[p] \in GatePoints /\ pc[p] \notin Busy \cup {"off"}
  BY DEF GateCancelled, GatePoints, Busy, Transaction
<1>2. QED
  BY <1>1, ReturnLeaves DEF GateCancelled, Still

LEMMA StillIsQuiet == Still => Quiet
BY DEF Still, Quiet, Busy

-----------------------------------------------------------------------------
(* Exclusion *)

LEMMA ExclusionInit == Init => GateInv /\ DownInv
BY DEF Init, GateInv, DownInv, Busy, Transaction, Procs

\* The gate passes only through "free", to and from the goroutine whose control
\* point enters and leaves the protected region.
LEMMA ExclusionStep ==
    ASSUME TypeInv, GateInv, DownInv, [Next]_vars
    PROVE  GateInv' /\ DownInv'
<1>0. /\ pc \in [Procs -> FetchPoints \cup KeeperPoints]
      /\ gate \in Procs \cup {"free"}
      /\ "free" \notin Procs
      /\ mode = "down" => \A q \in Procs : pc[q] = "off"
  BY DEF TypeInv, TypeOK, DownInv, Procs
<1>1. CASE Still
  BY <1>0, <1>1 DEF Still, GateInv, DownInv, Busy
<1>2. ASSUME NEW p \in Procs, pc[p] \in Busy, gate' = "free", mode' = mode,
             \E x \in (FetchPoints \cup KeeperPoints) \ Busy : pc' = [pc EXCEPT ![p] = x]
      PROVE  GateInv' /\ DownInv'
  BY <1>0, <1>2 DEF GateInv, DownInv, Busy, Transaction
<1>3. ASSUME NEW p \in Procs, pc[p] \notin Busy \cup {"off"}, gate = "free", gate' = p,
             mode' = mode, \E x \in Busy : pc' = [pc EXCEPT ![p] = x]
      PROVE  GateInv' /\ DownInv'
  BY <1>0, <1>3 DEF GateInv, DownInv, Busy, Transaction
<1>4. ASSUME NEW p \in Procs, pc[p] \in Busy, gate' = gate, mode' = mode,
             \E x \in Busy : pc' = [pc EXCEPT ![p] = x]
      PROVE  GateInv' /\ DownInv'
  BY <1>0, <1>4 DEF GateInv, DownInv, Busy, Transaction
<1>5. ASSUME UNCHANGED <<pc, gate, mode, client, pending>>
      PROVE  GateInv' /\ DownInv'
  BY <1>5 DEF GateInv, DownInv
<1>6. CASE FetchStart \/ FetchStep
  BY <1>0, <1>1, <1>6, FetchIsStill DEF Procs
<1>7. CASE KeeperStep
  BY <1>1, <1>7, KeeperIsStill
<1>8. ASSUME NEW p \in Procs, GateStep(p) PROVE GateInv' /\ DownInv'
  <2>1. CASE GateCancelled(p)
    BY <1>1, <2>1, CancelIsStill
  <2>2. CASE GateForPending(p) \/ GateForRefresh(p)
    <3>1. pc[p] \in GatePoints /\ pc[p] \notin Busy \cup {"off"} /\ gate = "free" /\ mode' = mode
      BY <2>2 DEF GateForPending, GateForRefresh, GatePoints, Busy, Transaction
    <3>2. CASE gate' = p /\ \E x \in {"write", "prepare"} : Goto(p, x)
      BY <1>3, <3>1, <3>2 DEF Goto, Busy, Transaction
    <3>3. CASE gate' = gate /\ \E outcome : Return(p, outcome)
      <4>1. UNCHANGED <<client, pending, mode, gate>>
        BY <2>2, <3>3 DEF GateForPending, GateForRefresh
      <4>2. \E x \in (FetchPoints \cup KeeperPoints) \ Busy : pc' = [pc EXCEPT ![p] = x]
        BY <3>1, <3>3, ReturnLeaves
      <4>3. QED
        BY <1>0, <3>1, <4>1, <4>2 DEF GateInv, DownInv, Busy
    <3>4. QED
      BY <2>2, <3>2, <3>3 DEF GateForPending, GateForRefresh
  <2>3. CASE PendingWritten(p) \/ PendingWriteFails(p)
    <3>1. pc[p] \in GatePoints /\ pc[p] \in Busy /\ gate' = "free" /\ mode' = mode
      BY <2>3 DEF PendingWritten, PendingWriteFails, GatePoints, Busy
    <3>2. \E outcome : Return(p, outcome)
      BY <2>3 DEF PendingWritten, PendingWriteFails
    <3>3. QED
      BY <1>2, <3>1, <3>2, ReturnLeaves
  <2>4. CASE MarkerWriteFails(p) \/ Ambiguous(p) \/ PairWritten(p) \/ PairWriteFails(p)
    <3>1. pc[p] \in GatePoints /\ pc[p] \in Busy /\ mode' = mode
      BY <2>4 DEF MarkerWriteFails, Ambiguous, PairWritten, PairWriteFails, GatePoints, Busy, Transaction
    <3>2. \E outcome : Leave(p, outcome)
      BY <2>4 DEF MarkerWriteFails, Ambiguous, PairWritten, PairWriteFails
    <3>3. QED
      BY <1>2, <3>1, <3>2, LeaveLeaves
  <2>5. CASE MarkerWritten(p) \/ Post(p) \/ Answered(p)
    BY <1>4, <2>5 DEF MarkerWritten, Post, Answered, Goto, Busy, Transaction
  <2>6. CASE PairWriteRetried(p)
    BY <1>5, <2>6 DEF PairWriteRetried
  <2>7. QED
    BY <1>8, <2>1, <2>2, <2>3, <2>4, <2>5, <2>6 DEF GateStep
<1>9. CASE ServerAccepts \/ OperatorRecovers \/ Tick \/ UNCHANGED vars
  BY <1>5, <1>9 DEF ServerAccepts, OperatorRecovers, Tick, vars
<1>10. CASE Start
  BY <1>0, <1>10 DEF Start, GateInv, DownInv, Busy, Transaction, Procs
<1>11. CASE Crash \/ Exit
  BY <1>11 DEF Crash, Exit, Vanish, GateInv, DownInv, Busy, Transaction, Procs
<1>12. CASE Shutdown
  BY <1>12 DEF Shutdown, GateInv, DownInv
<1>13. QED
  BY <1>6, <1>7, <1>8, <1>9, <1>10, <1>11, <1>12 DEF Next

LEMMA ExclusionCorrect == Spec => [](TypeInv /\ GateInv /\ DownInv)
<1>1. Init => TypeInv /\ GateInv /\ DownInv
  BY TypeInit, ExclusionInit
<1>2. TypeInv /\ GateInv /\ DownInv /\ [Next]_vars => (TypeInv /\ GateInv /\ DownInv)'
  BY TypeStep, ExclusionStep
<1>3. QED
  BY <1>1, <1>2, PTL DEF Spec

\* Rotations and pending writes exclude each other (refreshGate).
THEOREM GateCorrect == Spec => []GateIsExclusive
<1>1. GateInv => GateIsExclusive
  BY DEF GateInv, GateIsExclusive, Busy
<1>2. QED
  BY <1>1, ExclusionCorrect, PTL

-----------------------------------------------------------------------------
(* The marker and the pause *)

LEMMA PauseInit == Init => PauseInv
BY DEF Init, PauseInv, NoClient, Transaction, Procs

\* A step of the goroutine under the gate is a step of the only one there.
LEMMA Alone ==
    ASSUME GateInv, NEW p \in Procs, pc[p] \in Busy
    PROVE  \A q \in Procs \ {p} : pc[q] \notin Busy
BY DEF GateInv

\* A waiting goroutine enters a rotation only with a refresh token at hand, no
\* pending pair and no uncertain outcome (refreshMaterialAfterGate).
LEMMA EnterRotation ==
    ASSUME TypeInv, NEW p \in Procs, GateForRefresh(p)
    PROVE  \/ Quiet
           \/ /\ gate = "free" /\ pending = NoPending /\ ~client.uncertain /\ client.refresh # 0
              /\ pc' = [pc EXCEPT ![p] = "prepare"] /\ tx' = [tx EXCEPT ![p] = Material]
              /\ UNCHANGED <<mode, now, config, file, client, pending, serverVars, spent>>
<1>1. pc[p] \in GatePoints /\ pc[p] \notin Transaction \cup {"off"}
  BY DEF GateForRefresh, GatePoints, Transaction
<1>2. CASE \E outcome : Return(p, outcome) /\ UNCHANGED <<gate, tx>>
  <2>1. \E x \in (FetchPoints \cup KeeperPoints) \ Busy : pc' = [pc EXCEPT ![p] = x]
    BY <1>1, <1>2, ReturnLeaves
  <2>2. QED
    BY <1>1, <1>2, <2>1 DEF GateForRefresh, Quiet, Busy
<1>3. CASE Verdict(p) = "refresh" /\ Goto(p, "prepare") /\ tx' = [tx EXCEPT ![p] = Material]
  <2>1. pending = NoPending
    BY <1>3 DEF Verdict
  <2>2. task[p] = "unauthorized" => client.version = seen
    BY <1>3, <2>1 DEF Verdict
  <2>3. CanRefresh
    BY <1>3, <2>1, <2>2 DEF Verdict
  <2>4. QED
    BY <1>3, <2>1, <2>3 DEF CanRefresh, GateForRefresh, Goto
<1>4. QED
  BY <1>2, <1>3 DEF GateForRefresh

LEMMA EnterPending ==
    ASSUME TypeInv, NEW p \in Procs, GateForPending(p)
    PROVE  Quiet
<1>1. pc[p] \in GatePoints /\ pc[p] \notin Transaction \cup {"off"}
  BY DEF GateForPending, GatePoints, Transaction
<1>2. \E x \in (FetchPoints \cup KeeperPoints) \ Transaction :
        pc' = [pc EXCEPT ![p] = x] /\ (x = "write" => pending # NoPending)
  <2>1. CASE \E outcome : Return(p, outcome)
    BY <1>1, <2>1, ReturnLeaves DEF Busy
  <2>2. CASE Goto(p, "write") /\ pending # NoPending
    BY <2>2 DEF Goto, FetchPoints, GatePoints, Transaction
  <2>3. QED
    BY <2>1, <2>2 DEF GateForPending
<1>3. QED
  BY <1>1, <1>2 DEF GateForPending, Quiet

LEMMA PauseStep ==
    ASSUME TypeInv, GateInv, DownInv, PauseInv, [Next]_vars
    PROVE  PauseInv'
<1>0. /\ pc \in [Procs -> FetchPoints \cup KeeperPoints]
      /\ tx \in [Procs -> State]
      /\ file \in State /\ client.uncertain \in BOOLEAN
      /\ "free" \notin Procs
  BY DEF TypeInv, TypeOK, Procs
<1>1. CASE Quiet
  <2>1. PICK p \in Procs, x \in (FetchPoints \cup KeeperPoints) \ Transaction :
          /\ pc[p] \notin Transaction /\ pc' = [pc EXCEPT ![p] = x]
          /\ x = "write" => pending # NoPending
    BY <1>1 DEF Quiet
  <2>2. \A q \in Procs : pc'[q] = pc[q]
          \/ (pc[q] \notin Transaction /\ pc'[q] \notin Transaction
              /\ (pc'[q] = "write" => pending # NoPending))
    BY <1>0, <2>1
  <2>3. UNCHANGED <<file, client, pending, tx>>
    BY <1>1 DEF Quiet
  <2>4. QED
    BY <2>2, <2>3 DEF PauseInv, Transaction
<1>2. CASE FetchStart \/ FetchStep \/ KeeperStep
  BY <1>1, <1>2, FetchIsStill, KeeperIsStill, StillIsQuiet DEF DownInv, Procs
<1>3. ASSUME NEW p \in Procs, GateStep(p) PROVE PauseInv'
  <2>1. CASE GateCancelled(p) \/ GateForPending(p)
    BY <1>1, <2>1, CancelIsStill, StillIsQuiet, EnterPending
  <2>2. CASE GateForRefresh(p)
    <3>1. CASE gate = "free" /\ pending = NoPending /\ ~client.uncertain /\ client.refresh # 0
               /\ pc' = [pc EXCEPT ![p] = "prepare"] /\ tx' = [tx EXCEPT ![p] = Material]
               /\ UNCHANGED <<mode, now, config, file, client, pending, serverVars, spent>>
      <4>1. \A q \in Procs : pc[q] \notin Transaction
        BY <1>0, <3>1 DEF GateInv, Busy
      <4>2. tx'[p].refresh # 0 /\ tx'[p].marker
        BY <1>0, <3>1 DEF Material
      <4>3. QED
        BY <1>0, <3>1, <4>1, <4>2 DEF PauseInv, Transaction
    <3>2. QED
      BY <1>1, <2>2, <3>1, EnterRotation
  <2>3. CASE PendingWritten(p)
    <3>1. pc[p] \in GatePoints /\ pc[p] \in Busy
      BY <2>3 DEF PendingWritten, GatePoints, Busy
    <3>2. PICK x \in (FetchPoints \cup KeeperPoints) \ Busy : pc' = [pc EXCEPT ![p] = x]
      BY <2>3, <3>1, ReturnLeaves DEF PendingWritten
    <3>3. \A q \in Procs : pc'[q] \notin Busy
      BY <1>0, <2>3, <3>1, <3>2, Alone DEF PendingWritten
    <3>4. client'.uncertain => file'.marker
      BY <2>3 DEF PendingWritten, PauseInv, Activated
    <3>5. pending' # NoPending => pending'.base = client'.version /\ ~client'.uncertain
                                  /\ pending'.state.refresh # 0
      BY <2>3 DEF PendingWritten, PauseInv
    <3>6. QED
      BY <3>3, <3>4, <3>5 DEF PauseInv, Busy, Transaction
  <2>4. CASE PendingWriteFails(p)
    <3>1. pc[p] \in GatePoints /\ pc[p] \in Busy
      BY <2>4 DEF PendingWriteFails, GatePoints, Busy
    <3>2. PICK x \in (FetchPoints \cup KeeperPoints) \ Busy : pc' = [pc EXCEPT ![p] = x]
      BY <2>4, <3>1, ReturnLeaves DEF PendingWriteFails
    <3>3. \A q \in Procs : pc'[q] \notin Busy
      BY <1>0, <2>4, <3>1, <3>2, Alone DEF PendingWriteFails
    <3>4. pending # NoPending
      BY <2>4 DEF PendingWriteFails, PauseInv
    <3>5. QED
      BY <2>4, <3>3, <3>4 DEF PendingWriteFails, PauseInv, Busy, Transaction
  <2>5. CASE MarkerWritten(p)
    <3>1. \A q \in Procs \ {p} : pc[q] \notin Transaction
      BY <2>5, Alone DEF MarkerWritten, Busy, Transaction
    <3>2. tx[p].marker /\ tx[p].refresh # 0 /\ ~client.uncertain /\ pending = NoPending
      BY <2>5 DEF MarkerWritten, PauseInv, Transaction
    <3>3. file'.marker /\ file'.refresh = tx[p].refresh
      BY <1>0, <2>5, <3>2 DEF MarkerWritten, Marker, State
    <3>4. QED
      BY <1>0, <2>5, <3>1, <3>2, <3>3 DEF MarkerWritten, Goto, PauseInv, Transaction
  <2>6. CASE MarkerWriteFails(p) \/ Ambiguous(p) \/ PairWritten(p) \/ PairWriteFails(p)
    <3>1. pc[p] \in GatePoints /\ pc[p] \in Transaction
      BY <2>6 DEF MarkerWriteFails, Ambiguous, PairWritten, PairWriteFails, GatePoints, Transaction
    <3>2. \E outcome : Leave(p, outcome)
      BY <2>6 DEF MarkerWriteFails, Ambiguous, PairWritten, PairWriteFails
    <3>3. PICK x \in (FetchPoints \cup KeeperPoints) \ Busy : pc' = [pc EXCEPT ![p] = x]
      BY <3>1, <3>2, LeaveLeaves
    <3>4. \A q \in Procs : pc'[q] \notin Busy
      BY <1>0, <3>1, <3>3, Alone DEF Busy
    <3>5. ~client.uncertain /\ pending = NoPending /\ tx[p].refresh # 0
      BY <3>1 DEF PauseInv
    <3>6. client'.uncertain => file'.marker
      BY <2>6, <3>5 DEF MarkerWriteFails, Ambiguous, PairWritten, PairWriteFails, PauseInv, Activated
    <3>7. pending' # NoPending => pending'.base = client'.version /\ ~client'.uncertain
                                  /\ pending'.state.refresh # 0
      BY <2>6, <3>5 DEF MarkerWriteFails, Ambiguous, PairWritten, PairWriteFails
    <3>8. QED
      BY <3>4, <3>6, <3>7 DEF PauseInv, Busy, Transaction
  <2>7. CASE Post(p)
    BY <1>0, <2>7 DEF Post, Goto, PauseInv, Transaction
  <2>8. CASE Answered(p)
    <3>1. tx[p].refresh # 0 /\ ~client.uncertain /\ pending = NoPending
      BY <2>8 DEF Answered, PauseInv, Transaction
    <3>2. tx'[p].refresh # 0 /\ \A q \in Procs \ {p} : tx'[q] = tx[q]
      BY <1>0, <2>8, <3>1 DEF Answered
    <3>3. QED
      BY <1>0, <2>8, <3>1, <3>2 DEF Answered, Goto, PauseInv, Transaction
  <2>9. CASE PairWriteRetried(p)
    <3>1. ~client.uncertain /\ pending = NoPending
      BY <2>9 DEF PairWriteRetried, PauseInv, Transaction
    <3>2. \A q \in Procs : pc[q] \notin {"post", "await"}
      BY <2>9, Alone DEF PairWriteRetried, Busy, Transaction
    <3>3. QED
      BY <2>9, <3>1, <3>2 DEF PairWriteRetried, PauseInv
  <2>10. QED
    BY <1>3, <2>1, <2>2, <2>3, <2>4, <2>5, <2>6, <2>7, <2>8, <2>9 DEF GateStep
<1>4. CASE ServerAccepts \/ Tick \/ Shutdown \/ UNCHANGED vars
  BY <1>4 DEF ServerAccepts, Tick, Shutdown, vars, PauseInv
<1>5. CASE OperatorRecovers
  BY <1>5 DEF OperatorRecovers, DownInv, PauseInv, NoClient, Transaction
<1>6. CASE Start
  BY <1>6 DEF Start, DownInv, PauseInv, Loaded, Transaction, Procs
<1>7. CASE Crash \/ Exit
  BY <1>7 DEF Crash, Exit, Vanish, PauseInv, NoClient, Transaction
<1>8. QED
  BY <1>2, <1>3, <1>4, <1>5, <1>6, <1>7 DEF Next

LEMMA PauseCorrect == Spec => [](TypeInv /\ GateInv /\ DownInv /\ PauseInv)
<1>1. Init => TypeInv /\ GateInv /\ DownInv /\ PauseInv
  BY TypeInit, ExclusionInit, PauseInit
<1>2. TypeInv /\ GateInv /\ DownInv /\ PauseInv /\ [Next]_vars
        => (TypeInv /\ GateInv /\ DownInv /\ PauseInv)'
  BY TypeStep, ExclusionStep, PauseStep
<1>3. QED
  BY <1>1, <1>2, PTL DEF Spec

\* The marker covers every POST (performRefresh).
THEOREM MarkerCorrect == Spec => []MarkerCoversPost
<1>1. PauseInv => MarkerCoversPost
  BY DEF PauseInv, MarkerCoversPost
<1>2. QED
  BY <1>1, PauseCorrect, PTL

\* A pause survives every crash and restart (markRefreshOutcomeUncertain, New).
THEOREM PauseIsDurable == Spec => []UncertainIsDurable
<1>1. PauseInv => UncertainIsDurable
  BY DEF PauseInv, UncertainIsDurable
<1>2. QED
  BY <1>1, PauseCorrect, PTL

\* A pending pair can always be promoted (persistPendingTokenState).
THEOREM PendingCorrect == Spec => []PendingIsCurrent
<1>1. PauseInv => PendingIsCurrent
  BY DEF PauseInv, PendingIsCurrent
<1>2. QED
  BY <1>1, PauseCorrect, PTL

-----------------------------------------------------------------------------
(* Spent refresh tokens *)

\* The layers below SpentInv.
Base == TypeInv /\ GateInv /\ DownInv /\ PauseInv

\* What StateOutranksConfig says of a token issued now to the running client.
LEMMA NewTokenRanks ==
    ASSUME StateOutranksConfig, TypeInv, ConfigInv, NEW life \in Lifetimes,
           config.access # 0
    PROVE  \/ ExpiryOf(life) > expiry[config.access]
           \/ ExpiryOf(life) = 0 /\ expiry[config.access] = 0
<1>1. PICK c \in ConfigLifetimes : IF c = 0 THEN expiry[config.access] = 0
                                          ELSE expiry[config.access] <= now + c
  BY DEF ConfigInv
<1>2. c = 0 \/ life > c
  BY DEF StateOutranksConfig
<1>3. /\ c \in Nat /\ life \in Nat /\ now \in Nat /\ now >= 1
      /\ expiry[config.access] \in Nat
  BY DEF TypeInv, TypeOK, Times, ConfigInv
<1>4. QED
  BY <1>1, <1>2, <1>3 DEF ExpiryOf

LEMMA SpentInit == Init => SpentInv
<1> SUFFICES ASSUME Init PROVE SpentInv
  OBVIOUS
<1>1. IssuedInv
  BY DEF Init, IssuedInv, Issued, NoClient, NoState, NoPending, NoRequest
<1>2. ConfigInv
  <2>1. PICK life \in ConfigLifetimes :
          expiry = [a \in Tokens |-> IF a = 1 THEN ExpiryOf(life) ELSE 0]
    BY DEF Init
  <2>2. now = 1 /\ config.access \in {0, 1} /\ 1 \in Tokens
    BY DEF Init, Tokens
  <2>3. config.access # 0 => expiry[config.access] = ExpiryOf(life)
    BY <2>1, <2>2
  <2>4. life \in Nat
    OBVIOUS
  <2>5. QED
    BY <2>2, <2>3, <2>4 DEF ConfigInv, ExpiryOf
<1>3. FileInv
  BY DEF Init, FileInv, NoState
<1>4. ClientInv /\ PairInv
  BY DEF Init, ClientInv, PairInv
<1>5. QED
  BY <1>1, <1>2, <1>3, <1>4 DEF SpentInv

\* Nothing is issued, posted or answered, and the configuration stays: only the places
\* where pairs are kept change.
Keep == UNCHANGED <<now, config, nextToken, expiry>>

LEMMA KeepRanked ==
    ASSUME Keep
    PROVE  \A a : Ranked(a) <=> Ranked(a)'
BY DEF Keep, Ranked

\* Issuing a token leaves the rank of the others alone.
LEMMA IssueKeepsRank ==
    ASSUME TypeInv, IssuedInv, NEW e, expiry' = [expiry EXCEPT ![nextToken] = e], config' = config
    PROVE  \A a \in Tokens : Issued(a) /\ Ranked(a) => Ranked(a)'
<1>1. \A a \in Tokens : Issued(a) => expiry'[a] = expiry[a]
  BY DEF TypeInv, TypeOK, Issued, Tokens
<1>2. config.access \in Tokens /\ Issued(config.access)
  BY DEF TypeInv, TypeOK, IssuedInv
<1>3. QED
  BY <1>1, <1>2 DEF Ranked

\* A client loaded by New: its refresh token is spent only if the marker says so.
LEMMA LoadedUnspent ==
    ASSUME TypeInv, FileInv, ConfigInv
    PROVE  LET c == Loaded(config, file) IN
           /\ c.access # 0 => Ranked(c.access)
           /\ c.access = 0 => config.access = 0
           /\ c.refresh \in spent => c.uncertain
<1>1. file.access # 0 => PreferState(config, file)
  BY DEF FileInv, Ranked, PreferState
<1>2. file.access = 0 => ~PreferState(config, file)
  BY DEF PreferState
<1>3. config.access # 0 => Ranked(config.access)
  BY DEF Ranked
<1>4. CASE file.access # 0
  <2>1. PreferState(config, file) /\ Ranked(file.access) /\ file.refresh # 0
    BY <1>1, <1>4 DEF FileInv, NoState
  <2>2. QED
    BY <1>4, <2>1 DEF Loaded, FileInv
<1>5. CASE file.access = 0 /\ file = NoState
  BY <1>2, <1>3, <1>5 DEF Loaded, FileInv, NoState
<1>6. CASE file.access = 0 /\ file # NoState
  <2>1. config.access = 0 /\ file.refresh # 0
    BY <1>6 DEF FileInv
  <2>2. QED
    BY <1>2, <1>6, <2>1 DEF Loaded, FileInv
<1>7. QED
  BY <1>4, <1>5, <1>6

\* A pair that is written and put into use keeps every part of SpentInv.
LEMMA ActivateKeeps ==
    ASSUME Base, SpentInv, Keep, NEW s \in State, NewPair(s), ~s.marker, s.refresh # 0,
           Issued(s.access), Issued(s.refresh),
           file' = s, client' = Activated(s), pending' = NoPending,
           UNCHANGED <<net, spent, mode>>,
           \A q \in Procs : pc'[q] \notin Transaction,
           \A q \in Procs : tx'[q] \in {tx[q], NoState}
    PROVE  SpentInv'
<1>1. \A a : Ranked(a) <=> Ranked(a)'
  BY KeepRanked
<1>2. IssuedInv'
  BY DEF SpentInv, IssuedInv, Issued, Keep, Activated, NoPending, NoState, Base, TypeInv, TypeOK
<1>3. ConfigInv'
  BY DEF SpentInv, ConfigInv, Keep
<1>4. FileInv'
  BY <1>1 DEF FileInv, NewPair, NoState, Ranked
<1>5. ClientInv'
  BY <1>1 DEF ClientInv, NewPair, Activated, Ranked
<1>6. PairInv'
  BY DEF PairInv, Transaction
<1>7. QED
  BY <1>2, <1>3, <1>4, <1>5, <1>6 DEF SpentInv

\* Moves between points outside a rotation do not matter.
LEMMA QuietKeeps ==
    ASSUME Base, SpentInv, Quiet
    PROVE  SpentInv'
<1>1. PICK p \in Procs, x \in (FetchPoints \cup KeeperPoints) \ Transaction :
        pc[p] \notin Transaction /\ pc' = [pc EXCEPT ![p] = x]
  BY DEF Quiet
<1>2. \A q \in Procs : pc'[q] = pc[q] \/ (pc[q] \notin Transaction /\ pc'[q] \notin Transaction)
  BY <1>1 DEF Base, TypeInv, TypeOK
<1>3. UNCHANGED <<mode, now, config, file, client, pending, tx, nextToken, expiry, live, net, spent>>
  BY DEF Quiet, serverVars
<1>4. IssuedInv' /\ ConfigInv' /\ FileInv'
  BY <1>3 DEF SpentInv, IssuedInv, Issued, ConfigInv, FileInv, Ranked
<1>5. ClientInv'
  BY <1>2, <1>3 DEF SpentInv, ClientInv, Ranked, Transaction
<1>6. PairInv'
  BY <1>2, <1>3 DEF SpentInv, PairInv, NewPair, Ranked, Transaction
<1>7. QED
  BY <1>4, <1>5, <1>6 DEF SpentInv

\* The steps of a goroutine at the gate or under it.
LEMMA SpentGateStep ==
    ASSUME Base, SpentInv, NEW p \in Procs, GateStep(p)
    PROVE  SpentInv'
<1>0. /\ pc \in [Procs -> FetchPoints \cup KeeperPoints] /\ tx \in [Procs -> State]
      /\ file \in State /\ pending.state \in State /\ "free" \notin Procs
  BY DEF Base, TypeInv, TypeOK, Procs
<1> USE DEF serverVars
<1>1. CASE GateCancelled(p) \/ GateForPending(p)
  BY <1>1, CancelIsStill, StillIsQuiet, EnterPending, QuietKeeps DEF Base
<1>2. CASE GateForRefresh(p)
  <2>1. CASE gate = "free" /\ pending = NoPending /\ ~client.uncertain /\ client.refresh # 0
             /\ pc' = [pc EXCEPT ![p] = "prepare"] /\ tx' = [tx EXCEPT ![p] = Material]
             /\ UNCHANGED <<mode, now, config, file, client, pending, serverVars, spent>>
    <3>1. \A q \in Procs : pc[q] \notin Transaction
      BY <1>0, <2>1 DEF Base, GateInv, Busy
    <3>2. tx'[p].access = client.access /\ tx'[p].refresh = client.refresh
          /\ \A q \in Procs \ {p} : tx'[q] = tx[q] /\ pc'[q] = pc[q]
      BY <1>0, <2>1 DEF Material
    <3>3. pc'[p] = "prepare"
      BY <1>0, <2>1
    <3>4. IssuedInv'
      BY <2>1, <3>2 DEF SpentInv, IssuedInv, Issued
    <3>5. ConfigInv' /\ FileInv'
      BY <2>1 DEF SpentInv, ConfigInv, FileInv, Ranked
    <3>6. ClientInv'
      BY <2>1, <3>1 DEF SpentInv, ClientInv, Ranked, Transaction
    <3>7. PairInv'
      BY <2>1, <3>1, <3>2, <3>3 DEF PairInv, Transaction
    <3>8. QED
      BY <3>4, <3>5, <3>6, <3>7 DEF SpentInv
  <2>2. QED
    BY <1>2, <2>1, EnterRotation, QuietKeeps DEF Base
<1>3. CASE PendingWritten(p)
  <2>1. pc[p] \in GatePoints /\ pc[p] \in Busy /\ pending # NoPending
    BY <1>3 DEF PendingWritten, GatePoints, Busy, Base, PauseInv
  <2>2. PICK x \in (FetchPoints \cup KeeperPoints) \ Busy : pc' = [pc EXCEPT ![p] = x]
    BY <1>3, <2>1, ReturnLeaves DEF PendingWritten, Base
  <2>3. \A q \in Procs : pc'[q] \notin Transaction
    BY <1>0, <1>3, <2>1, <2>2, Alone DEF Base, Busy, PendingWritten
  <2>4. NewPair(pending.state) /\ ~pending.state.marker /\ pending.state.refresh # 0
        /\ pending.base = client.version
    BY <2>1 DEF Base, PauseInv, SpentInv, PairInv
  <2>5. Issued(pending.state.access) /\ Issued(pending.state.refresh)
    BY DEF SpentInv, IssuedInv
  <2>6. /\ file' = pending.state /\ client' = Activated(pending.state) /\ pending' = NoPending
        /\ Keep /\ UNCHANGED <<net, spent, mode, tx>>
    BY <1>3, <2>4 DEF PendingWritten, Keep
  <2>7. QED
    BY <1>0, <2>3, <2>4, <2>5, <2>6, ActivateKeeps
<1>4. CASE PairWritten(p)
  <2>1. pc[p] \in GatePoints /\ pc[p] \in Busy /\ pc[p] = "persist"
    BY <1>4 DEF PairWritten, GatePoints, Busy, Transaction
  <2>2. PICK x \in (FetchPoints \cup KeeperPoints) \ Busy : pc' = [pc EXCEPT ![p] = x]
    BY <1>4, <2>1, LeaveLeaves DEF PairWritten, Base
  <2>3. \A q \in Procs : pc'[q] \notin Transaction
    BY <1>0, <1>4, <2>1, <2>2, Alone DEF Base, Busy
  <2>4. NewPair(tx[p]) /\ ~tx[p].marker /\ tx[p].refresh # 0
    BY <2>1 DEF Base, PauseInv, SpentInv, PairInv, Transaction
  <2>5. Issued(tx[p].access) /\ Issued(tx[p].refresh)
    BY DEF SpentInv, IssuedInv
  <2>6. /\ file' = tx[p] /\ client' = Activated(tx[p]) /\ pending' = NoPending
        /\ Keep /\ UNCHANGED <<net, spent, mode>>
        /\ \A q \in Procs : tx'[q] \in {tx[q], NoState}
    BY <1>0, <1>4, <2>1, LeaveLeaves DEF PairWritten, Keep, Base
  <2>7. QED
    BY <1>0, <2>3, <2>4, <2>5, <2>6, ActivateKeeps
<1>5. CASE PendingWriteFails(p)
  <2>1. pc[p] \in GatePoints /\ pc[p] \in Busy /\ pending # NoPending
    BY <1>5 DEF PendingWriteFails, GatePoints, Busy, Base, PauseInv
  <2>2. PICK x \in (FetchPoints \cup KeeperPoints) \ Busy : pc' = [pc EXCEPT ![p] = x]
    BY <1>5, <2>1, ReturnLeaves DEF PendingWriteFails, Base
  <2>3. \A q \in Procs : pc'[q] \notin Transaction
    BY <1>0, <1>5, <2>1, <2>2, Alone DEF Base, Busy, PendingWriteFails
  <2>4. NewPair(pending.state) /\ pending.state.refresh # 0
    BY <2>1 DEF Base, PauseInv, SpentInv, PairInv
  <2>5. file' = file \/ file' = pending.state
    BY <1>5 DEF PendingWriteFails
  <2>6. UNCHANGED <<mode, now, config, client, pending, tx, serverVars, spent>>
    BY <1>5 DEF PendingWriteFails
  <2>7. IssuedInv' /\ ConfigInv'
    BY <2>5, <2>6 DEF SpentInv, IssuedInv, Issued, ConfigInv
  <2>8. FileInv'
    BY <2>4, <2>5, <2>6 DEF SpentInv, FileInv, NewPair, Ranked, NoState
  <2>9. ClientInv' /\ PairInv'
    BY <2>1, <2>3, <2>6 DEF SpentInv, ClientInv, PairInv, NewPair, Ranked, Transaction
  <2>10. QED
    BY <2>7, <2>8, <2>9 DEF SpentInv
<1>6. CASE MarkerWritten(p)
  <2>1. tx[p].access = client.access /\ tx[p].refresh = client.refresh /\ tx[p].refresh # 0
        /\ tx[p].marker /\ mode # "down"
    BY <1>6 DEF MarkerWritten, SpentInv, PairInv, Base, PauseInv, DownInv, Transaction
  <2>2. /\ file'.access = tx[p].access /\ file'.refresh = tx[p].refresh /\ file'.marker
        /\ file'.updatedAt # 0
    BY <1>0, <1>6 , <2>1 DEF MarkerWritten, Marker, State, SpentInv, ConfigInv
  <2>3. UNCHANGED <<mode, now, config, client, pending, tx, serverVars, spent>>
    BY <1>6 DEF MarkerWritten
  <2>4. IssuedInv' /\ ConfigInv'
    BY <2>2, <2>3 DEF SpentInv, IssuedInv, Issued, ConfigInv
  <2>5. FileInv'
    BY <2>1, <2>2, <2>3 DEF SpentInv, FileInv, ClientInv, Ranked, NoState
  <2>6. ClientInv' /\ PairInv'
    BY <1>0, <1>6, <2>3 DEF MarkerWritten, Goto, SpentInv, ClientInv, PairInv, NewPair, Ranked
  <2>7. QED
    BY <2>4, <2>5, <2>6 DEF SpentInv
<1>7. CASE MarkerWriteFails(p)
  <2>1. tx[p].access = client.access /\ tx[p].refresh = client.refresh /\ tx[p].refresh # 0
        /\ tx[p].marker /\ mode # "down"
    BY <1>7 DEF MarkerWriteFails, SpentInv, PairInv, Base, PauseInv, DownInv, Transaction
  <2>2. \/ file' = file
        \/ /\ file'.access = tx[p].access /\ file'.refresh = tx[p].refresh /\ file'.marker
           /\ file'.updatedAt # 0
    BY <1>0, <1>7 , <2>1 DEF MarkerWriteFails, Marker, State, SpentInv, ConfigInv
  <2>3. UNCHANGED <<mode, now, config, client, pending, serverVars, spent>>
    BY <1>7 DEF MarkerWriteFails
  <2>4. pc[p] \in GatePoints /\ pc[p] \in Busy /\ pc[p] = "prepare"
    BY <1>7 DEF MarkerWriteFails, GatePoints, Busy, Transaction
  <2>5. PICK x \in (FetchPoints \cup KeeperPoints) \ Busy : pc' = [pc EXCEPT ![p] = x]
    BY <1>7, <2>4, LeaveLeaves DEF MarkerWriteFails, Base
  <2>6. \A q \in Procs : pc'[q] \notin Transaction
    BY <1>0, <2>4, <2>5, Alone DEF Base, Busy
  <2>7. \A q \in Procs : tx'[q] \in {tx[q], NoState}
    BY <1>0, <1>7, <2>4, LeaveLeaves DEF MarkerWriteFails, Base
  <2>8. IssuedInv' /\ ConfigInv'
    BY <2>2, <2>3, <2>7 DEF SpentInv, IssuedInv, Issued, ConfigInv, NoState, Base, TypeInv, TypeOK
  <2>9. FileInv'
    BY <2>1, <2>2, <2>3 DEF SpentInv, FileInv, ClientInv, Ranked, NoState
  <2>10. \A q \in Procs : pc[q] \notin {"await", "persist"}
    BY <2>4, Alone DEF Base, Busy, Transaction
  <2>11. ClientInv' /\ PairInv'
    BY <2>3, <2>6, <2>10 DEF SpentInv, ClientInv, PairInv, NewPair, Ranked, Transaction
  <2>12. QED
    BY <2>8, <2>9, <2>11 DEF SpentInv
<1>8. CASE Post(p)
  <2>1. /\ file.marker /\ file.refresh = tx[p].refresh /\ tx[p].refresh # 0
        /\ pending = NoPending /\ \A q \in Procs \ {p} : pc[q] \notin Busy
    BY <1>8, Alone DEF Post, Base, PauseInv, Transaction, Busy
  <2>2. UNCHANGED <<mode, now, config, file, client, pending, tx, nextToken, expiry>>
    BY <1>8 DEF Post
  <2>3. /\ spent' = spent \cup {tx[p].refresh} /\ ~net'.answered
        /\ net'.access = 0 /\ net'.next = 0 /\ net'.refresh = tx[p].refresh
    BY <1>8 DEF Post, NoRequest
  <2>4. pc' = [pc EXCEPT ![p] = "await"] /\ pc[p] = "post"
    BY <1>8 DEF Post, Goto
  <2>5. IssuedInv'
    BY <2>1, <2>2, <2>3 DEF SpentInv, IssuedInv, Issued, Base, TypeInv, TypeOK
  <2>6. ConfigInv'
    BY <2>2 DEF SpentInv, ConfigInv
  <2>7. FileInv'
    BY <2>1, <2>2, <2>3 DEF SpentInv, FileInv, Ranked, NoState
  <2>8. ClientInv'
    BY <1>0, <2>2, <2>4 DEF SpentInv, ClientInv, Ranked
  <2>9. PairInv'
    BY <1>0, <2>1, <2>2, <2>3, <2>4 DEF SpentInv, PairInv, Busy, Transaction
  <2>10. QED
    BY <2>5, <2>6, <2>7, <2>8, <2>9 DEF SpentInv
<1>9. CASE Answered(p)
  <2>1. pc[p] = "await" /\ net.answered /\ \A q \in Procs \ {p} : pc[q] \notin Busy
    BY <1>9, Alone DEF Answered, Base, Transaction, Busy
  <2>2. UNCHANGED <<mode, now, config, file, client, pending, nextToken, expiry>>
    BY <1>9 DEF Answered
  <2>3. spent' = IF net.next = 0 THEN spent \ {tx[p].refresh} ELSE spent
    BY <1>9 DEF Answered
  <2>4. pc' = [pc EXCEPT ![p] = "persist"] /\ net' = NoRequest
    BY <1>9 DEF Answered, Goto
  <2>5. /\ tx'[p] = [access    |-> net.access,
                     refresh   |-> IF net.next = 0 THEN tx[p].refresh ELSE net.next,
                     updatedAt |-> now,
                     marker    |-> FALSE]
        /\ \A q \in Procs \ {p} : tx'[q] = tx[q]
    BY <1>0, <1>9 DEF Answered
  <2>6. pending = NoPending /\ tx[p].refresh # 0
    BY <2>1 DEF Base, PauseInv, Transaction
  <2>7. Ranked(net.access) /\ net.next \notin spent
    BY <2>1 DEF SpentInv, PairInv
  <2>8. IssuedInv'
    BY <2>2, <2>3, <2>4, <2>5 DEF SpentInv, IssuedInv, Issued, NoRequest, Base, TypeInv, TypeOK
  <2>9. ConfigInv' /\ FileInv'
    BY <2>2, <2>3 DEF SpentInv, ConfigInv, FileInv, Ranked
  <2>10. ClientInv'
    BY <1>0, <2>2, <2>4 DEF SpentInv, ClientInv, Ranked
  <2>11. NewPair(tx[p])' /\ ~tx'[p].marker
    BY <2>2, <2>3, <2>5, <2>7 DEF NewPair, Ranked, SpentInv, ConfigInv
  <2>12. PairInv'
    BY <1>0, <2>1, <2>2, <2>4, <2>6, <2>11 DEF PairInv, Busy, Transaction
  <2>13. QED
    BY <2>8, <2>9, <2>10, <2>12 DEF SpentInv
<1>10. CASE Ambiguous(p)
  <2>1. pc[p] \in GatePoints /\ pc[p] \in Busy /\ pc[p] = "await"
    BY <1>10 DEF Ambiguous, GatePoints, Busy, Transaction
  <2>2. PICK x \in (FetchPoints \cup KeeperPoints) \ Busy : pc' = [pc EXCEPT ![p] = x]
    BY <1>10, <2>1, LeaveLeaves DEF Ambiguous, Base
  <2>3. \A q \in Procs : pc'[q] \notin Transaction
    BY <1>0, <2>1, <2>2, Alone DEF Base, Busy
  <2>4. \A q \in Procs : tx'[q] \in {tx[q], NoState}
    BY <1>0, <1>10, <2>1, LeaveLeaves DEF Ambiguous, Base
  <2>5. UNCHANGED <<mode, now, config, file, pending, serverVars, spent>>
    BY <1>10 DEF Ambiguous
  <2>6. client'.uncertain /\ client'.access = client.access /\ client'.refresh = client.refresh
    BY <1>10 DEF Ambiguous, Base, TypeInv, TypeOK
  <2>7. IssuedInv' /\ ConfigInv' /\ FileInv'
    BY <2>4, <2>5, <2>6 DEF SpentInv, IssuedInv, Issued, ConfigInv, FileInv, Ranked, NoState, Base,
         TypeInv, TypeOK
  <2>8. ClientInv' /\ PairInv'
    BY <2>3, <2>5, <2>6 DEF SpentInv, ClientInv, PairInv, NewPair, Ranked, Transaction
  <2>9. QED
    BY <2>7, <2>8 DEF SpentInv
<1>11. CASE PairWriteRetried(p)
  <2>1. NewPair(tx[p]) /\ tx[p].refresh # 0
    BY <1>11 DEF PairWriteRetried, SpentInv, PairInv, Base, PauseInv, Transaction
  <2>2. file' = file \/ file' = tx[p]
    BY <1>11 DEF PairWriteRetried
  <2>3. UNCHANGED <<mode, now, config, client, pending, pc, tx, serverVars, spent>>
    BY <1>11 DEF PairWriteRetried
  <2>4. FileInv'
    BY <2>1, <2>2, <2>3 DEF SpentInv, FileInv, NewPair, Ranked, NoState
  <2>5. QED
    BY <2>2, <2>3, <2>4 DEF SpentInv, IssuedInv, Issued, ConfigInv, ClientInv, PairInv, NewPair,
         Ranked
<1>12. CASE PairWriteFails(p)
  <2>1. NewPair(tx[p]) /\ tx[p].refresh # 0 /\ ~tx[p].marker
    BY <1>12 DEF PairWriteFails, SpentInv, PairInv, Base, PauseInv, Transaction
  <2>2. pc[p] \in GatePoints /\ pc[p] \in Busy /\ pc[p] = "persist"
    BY <1>12 DEF PairWriteFails, GatePoints, Busy, Transaction
  <2>3. PICK x \in (FetchPoints \cup KeeperPoints) \ Busy : pc' = [pc EXCEPT ![p] = x]
    BY <1>12, <2>2, LeaveLeaves DEF PairWriteFails, Base
  <2>4. \A q \in Procs : pc'[q] \notin Transaction
    BY <1>0, <2>2, <2>3, Alone DEF Base, Busy
  <2>5. \A q \in Procs : tx'[q] \in {tx[q], NoState}
    BY <1>0, <1>12, <2>2, LeaveLeaves DEF PairWriteFails, Base
  <2>6. UNCHANGED <<mode, now, config, client, serverVars, spent>>
    BY <1>12 DEF PairWriteFails
  <2>7. file' = file \/ file' = tx[p]
    BY <1>12 DEF PairWriteFails
  <2>8. pending' = [state |-> tx[p], base |-> client.version] /\ pending' # NoPending
    BY <1>12, <2>1 DEF PairWriteFails, NoPending, NoState
  <2>9. IssuedInv' /\ ConfigInv'
    BY <2>5, <2>6, <2>7, <2>8 DEF SpentInv, IssuedInv, Issued, ConfigInv, NoState, Base, TypeInv,
         TypeOK
  <2>10. FileInv'
    BY <2>1, <2>6, <2>7 DEF SpentInv, FileInv, NewPair, Ranked, NoState
  <2>11. ClientInv' /\ PairInv'
    BY <2>1, <2>4, <2>6, <2>8 DEF SpentInv, ClientInv, PairInv, NewPair, Ranked, Transaction
  <2>12. QED
    BY <2>9, <2>10, <2>11 DEF SpentInv
<1>13. QED
  BY <1>1, <1>2, <1>3, <1>4, <1>5, <1>6, <1>7, <1>8, <1>9, <1>10, <1>11, <1>12 DEF GateStep

\* Issuing one more token, and putting it into the file, the configuration or the
\* server's answer, leaves every token in use issued.
LEMMA IssuedGrows ==
    ASSUME TypeInv, IssuedInv, nextToken' = nextToken + 1, UNCHANGED <<client, pending, tx, spent>>,
           file' = file \/ (file'.access \in {0, nextToken} /\ file'.refresh \in {0, nextToken}),
           config' = config \/ (config'.access = nextToken /\ config'.refresh = nextToken),
           net'.access \in {net.access, nextToken}, net'.next \in {0, net.next, nextToken},
           net'.refresh = net.refresh
    PROVE  IssuedInv'
<1>1. nextToken \in Nat /\ nextToken >= 2
  BY DEF TypeInv, TypeOK
<1>2. \A t \in Tokens : t < nextToken => t < nextToken + 1
  BY <1>1 DEF Tokens
<1>3. 0 < nextToken + 1 /\ nextToken < nextToken + 1
  BY <1>1
<1>4. \A s \in State : s.access \in Tokens /\ s.refresh \in Tokens
  BY DEF State
<1>5. /\ client.access \in Tokens /\ client.refresh \in Tokens
      /\ config.access \in Tokens /\ config.refresh \in Tokens
      /\ net.access \in Tokens /\ net.next \in Tokens /\ net.refresh \in Tokens
      /\ file \in State /\ pending.state \in State /\ spent \subseteq Tokens
      /\ \A p \in Procs : tx[p] \in State
  BY DEF TypeInv, TypeOK
<1>6. Issued(file.access)' /\ Issued(file.refresh)'
  BY <1>2, <1>3, <1>4, <1>5 DEF IssuedInv, Issued
<1>7. Issued(config.access)' /\ Issued(config.refresh)'
  BY <1>2, <1>3, <1>5 DEF IssuedInv, Issued
<1>8. Issued(net.access)' /\ Issued(net.next)' /\ Issued(net.refresh)'
  BY <1>2, <1>3, <1>5 DEF IssuedInv, Issued
<1>9. Issued(client.access)' /\ Issued(client.refresh)'
      /\ Issued(pending.state.access)' /\ Issued(pending.state.refresh)'
  BY <1>2, <1>4, <1>5 DEF IssuedInv, Issued
<1>10. \A p \in Procs : Issued(tx[p].access)' /\ Issued(tx[p].refresh)'
  BY <1>2, <1>4, <1>5 DEF IssuedInv, Issued
<1>11. \A t \in spent : Issued(t)' /\ t # 0
  BY <1>2, <1>5 DEF IssuedInv, Issued
<1>12. QED
  BY <1>6, <1>7, <1>8, <1>9, <1>10, <1>11 DEF IssuedInv

LEMMA SpentStep ==
    ASSUME StateOutranksConfig, Base, SpentInv, [Next]_vars
    PROVE  SpentInv'
<1>1. CASE FetchStart \/ FetchStep \/ KeeperStep
  BY <1>1, FetchIsStill, KeeperIsStill, StillIsQuiet, QuietKeeps DEF Base, DownInv, Procs
<1>2. ASSUME NEW p \in Procs, GateStep(p) PROVE SpentInv'
  BY <1>2, SpentGateStep
<1>3. CASE ServerAccepts
  <2>1. PICK rotate \in BOOLEAN, life \in Lifetimes :
          /\ expiry' = [expiry EXCEPT ![nextToken] = ExpiryOf(life)]
          /\ net' = [net EXCEPT !.answered = TRUE, !.access = nextToken,
                                !.next = IF rotate THEN nextToken ELSE 0]
    BY <1>3 DEF ServerAccepts
  <2>2. /\ nextToken \in Tokens /\ nextToken \in Nat /\ nextToken >= 2 /\ nextToken' = nextToken + 1
        /\ UNCHANGED <<mode, now, config, file, client, pending, pc, tx, spent>>
    BY <1>3 DEF ServerAccepts, Base, TypeInv, TypeOK, Tokens
  <2>3. \A a \in Tokens : Issued(a) /\ Ranked(a) => Ranked(a)'
    BY <2>1, <2>2, IssueKeepsRank DEF Base, SpentInv
  <2>4. /\ file \in State /\ client.access \in Tokens /\ pending.state \in State
        /\ config.access \in Tokens /\ tx \in [Procs -> State] /\ expiry \in [Tokens -> Times]
        /\ net \in [refresh : Tokens, access : Tokens, next : Tokens, answered : BOOLEAN]
        /\ client.refresh \in Tokens /\ config.refresh \in Tokens /\ spent \subseteq Tokens
    BY DEF Base, TypeInv, TypeOK
  <2>5. net'.access = nextToken /\ net'.next \in {0, nextToken} /\ net'.refresh = net.refresh
    BY <2>1, <2>4
  <2>7. IssuedInv'
    BY <2>2, <2>5, IssuedGrows DEF Base, SpentInv
  <2>8. config.access # 0 => config.access \in Tokens /\ config.access < nextToken
    BY <2>4 DEF SpentInv, IssuedInv, Issued
  <2>9. expiry'[config.access] = expiry[config.access] /\ expiry'[nextToken] = ExpiryOf(life)
    BY <2>1, <2>2, <2>4 DEF SpentInv, IssuedInv, Issued, Tokens
  <2>10. ConfigInv'
    BY <2>2, <2>9 DEF SpentInv, ConfigInv
  <2>11. Ranked(net.access)'
    <3>1. config.access = 0 \/ ExpiryOf(life) > expiry[config.access]
          \/ (ExpiryOf(life) = 0 /\ expiry[config.access] = 0)
      BY NewTokenRanks DEF Base, SpentInv
    <3>2. QED
      BY <2>2, <2>5, <2>9, <3>1 DEF Ranked
  <2>12. FileInv'
    BY <2>2, <2>3, <2>4 DEF SpentInv, FileInv, IssuedInv, State
  <2>13. ClientInv'
    BY <2>2, <2>3, <2>4 DEF SpentInv, ClientInv, IssuedInv
  <2>14. PairInv'
    <3>1. net'.next \notin spent
      <4>1. 0 \notin spent /\ nextToken \notin spent
        BY <2>2 DEF SpentInv, IssuedInv, Issued
      <4>2. QED
        BY <2>5, <4>1
    <3>2. pending # NoPending => NewPair(pending.state)' /\ ~pending.state.marker
      <4>1. pending.state.access \in Tokens /\ Issued(pending.state.access)
        BY <2>4 DEF State, SpentInv, IssuedInv
      <4>2. QED
        BY <2>2, <2>3, <4>1 DEF SpentInv, PairInv, NewPair
    <3>3. ASSUME NEW p \in Procs, pc[p] = "persist"
          PROVE  NewPair(tx[p])' /\ ~tx[p].marker
      <4>1. tx[p].access \in Tokens /\ Issued(tx[p].access)
        BY <2>4 DEF State, SpentInv, IssuedInv
      <4>2. QED
        BY <2>2, <2>3, <3>3, <4>1 DEF SpentInv, PairInv, NewPair
    <3>4. QED
      BY <2>2, <2>11, <3>1, <3>2, <3>3 DEF SpentInv, PairInv
  <2>15. QED
    BY <2>7, <2>10, <2>12, <2>13, <2>14 DEF SpentInv
<1>4. CASE OperatorRecovers
  <2>1. /\ pc = [p \in Procs |-> "off"] /\ client = NoClient /\ pending = NoPending /\ mode = "down"
        /\ nextToken \in Tokens /\ nextToken \in Nat /\ nextToken >= 2 /\ nextToken' = nextToken + 1
        /\ UNCHANGED <<mode, now, client, pending, pc, tx, net, spent>>
    BY <1>4 DEF OperatorRecovers, Base, DownInv, TypeInv, TypeOK, Tokens
  <2>2. nextToken \notin spent /\ 0 \notin spent
    BY <2>1 DEF SpentInv, IssuedInv, Issued
  <2>3. ClientInv' /\ PairInv'
    BY <2>1 DEF ClientInv, PairInv
  <2>4. /\ file \in State /\ config.access \in Tokens /\ config.refresh \in Tokens
        /\ expiry \in [Tokens -> Times] /\ now \in Nat
    BY DEF Base, TypeInv, TypeOK, Times
  <2>5. CASE /\ file' = [access |-> nextToken, refresh |-> nextToken, updatedAt |-> now, marker |-> FALSE]
             /\ \E life \in Lifetimes : expiry' = [expiry EXCEPT ![nextToken] = ExpiryOf(life)]
             /\ UNCHANGED config
    <3>1. PICK life \in Lifetimes : expiry' = [expiry EXCEPT ![nextToken] = ExpiryOf(life)]
      BY <2>5
    <3>2. expiry'[config.access] = expiry[config.access] /\ expiry'[nextToken] = ExpiryOf(life)
      BY <2>1, <2>4, <3>1 DEF SpentInv, IssuedInv, Issued, Tokens
    <3>3. IssuedInv'
      BY <2>1, <2>5, IssuedGrows DEF Base, SpentInv
    <3>4. ConfigInv'
      BY <2>1, <2>5, <3>2 DEF SpentInv, ConfigInv
    <3>5. config.access = 0 \/ ExpiryOf(life) > expiry[config.access]
          \/ (ExpiryOf(life) = 0 /\ expiry[config.access] = 0)
      BY NewTokenRanks DEF Base, SpentInv
    <3>6. FileInv'
      BY <2>1, <2>2, <2>5, <3>2, <3>5 DEF SpentInv, FileInv, ConfigInv, Ranked, NoState
    <3>7. QED
      BY <2>3, <3>3, <3>4, <3>6 DEF SpentInv
  <2>6. CASE /\ config' = [access |-> nextToken, refresh |-> nextToken]
             /\ \E life \in ConfigLifetimes : expiry' = [expiry EXCEPT ![nextToken] = ExpiryOf(life)]
             /\ file' = NoState
    <3>1. PICK life \in ConfigLifetimes : expiry' = [expiry EXCEPT ![nextToken] = ExpiryOf(life)]
      BY <2>6
    <3>2. expiry'[nextToken] = ExpiryOf(life) /\ life \in Nat
      BY <2>1, <2>4, <3>1
    <3>3. IssuedInv'
      BY <2>1, <2>6, IssuedGrows DEF Base, SpentInv, NoState
    <3>4. ConfigInv'
      BY <2>1, <2>4, <2>6, <3>2 DEF SpentInv, ConfigInv, ExpiryOf
    <3>5. FileInv'
      BY <2>1, <2>2, <2>6 DEF FileInv, NoState
    <3>6. QED
      BY <2>3, <3>3, <3>4, <3>5 DEF SpentInv
  <2>7. QED
    BY <1>4, <2>5, <2>6 DEF OperatorRecovers
<1>5. CASE Tick
  <2>1. UNCHANGED <<mode, config, file, client, pending, pc, tx, serverVars, spent>> /\ now' = now + 1
        /\ now \in Nat
    BY <1>5 DEF Tick, Base, TypeInv, TypeOK, Times
  <2>2. ConfigInv'
    <3>1. \A c \in ConfigLifetimes : c \in Nat
      OBVIOUS
    <3>2. config.access \in Tokens /\ expiry \in [Tokens -> Nat]
      BY DEF Base, TypeInv, TypeOK, Times
    <3>3. expiry[config.access] \in Nat
      BY <3>2
    <3>4. QED
      BY <2>1, <3>1, <3>3 DEF SpentInv, ConfigInv, serverVars
  <2>3. QED
    BY <2>1, <2>2 DEF serverVars, SpentInv, IssuedInv, Issued, FileInv, ClientInv, PairInv, NewPair,
         Ranked
<1>6. CASE Start
  <2>1. /\ pc' = [fetch |-> "idle", bg |-> "loop"] /\ client' = Loaded(config, file) /\ pending = NoPending
        /\ UNCHANGED <<now, config, file, pending, tx, nextToken, expiry, live, net, spent>>
    BY <1>6 DEF Start, Base, DownInv, serverVars
  <2>2. /\ Loaded(config, file).access \in {file.access, config.access}
        /\ Loaded(config, file).refresh \in {file.refresh, config.refresh}
    BY DEF Loaded
  <2>3. IssuedInv'
    BY <2>1, <2>2 DEF SpentInv, IssuedInv, Issued
  <2>4. ConfigInv' /\ FileInv'
    BY <2>1 DEF SpentInv, ConfigInv, FileInv, Ranked
  <2>5. ClientInv'
    BY <2>1, LoadedUnspent DEF Base, SpentInv, ClientInv, Ranked
  <2>6. PairInv'
    BY <2>1 DEF SpentInv, PairInv, Procs
  <2>7. QED
    BY <2>3, <2>4, <2>5, <2>6 DEF SpentInv
<1>7. CASE Crash \/ Exit
  <2>1. Vanish
    BY <1>7 DEF Crash, Exit
  <2>2. IssuedInv' /\ ConfigInv' /\ FileInv'
    BY <2>1 DEF Vanish, serverVars, SpentInv, IssuedInv, Issued, ConfigInv, FileInv, Ranked,
         NoClient, NoPending, NoState, Base, TypeInv, TypeOK
  <2>3. ClientInv' /\ PairInv'
    BY <2>1 DEF Vanish, ClientInv, PairInv
  <2>4. QED
    BY <2>2, <2>3 DEF SpentInv
<1>8. CASE Shutdown \/ UNCHANGED vars
  BY <1>8 DEF Shutdown, vars, serverVars, SpentInv, IssuedInv, Issued, ConfigInv, FileInv, ClientInv,
       PairInv, NewPair, Ranked
<1>9. QED
  BY <1>1, <1>2, <1>3, <1>4, <1>5, <1>6, <1>7, <1>8 DEF Next

\* A client that is about to POST holds a refresh token nobody may have spent.
LEMMA UnspentBeforePost == Base /\ SpentInv => NoReplay
<1> SUFFICES ASSUME Base, SpentInv, NEW p \in Procs, pc[p] = "post"
             PROVE  tx[p].refresh \notin spent
  BY DEF NoReplay
<1>1. mode # "down"
  BY DEF Base, DownInv
<1>2. tx[p].refresh = client.refresh /\ ~client.uncertain /\ pending = NoPending
  BY DEF Base, PauseInv, SpentInv, PairInv, Transaction
<1>3. \A q \in Procs : pc[q] \notin {"await", "persist"}
  BY Alone DEF Base, Busy, Transaction
<1>4. QED
  BY <1>1, <1>2, <1>3 DEF SpentInv, ClientInv

\* Across all crashes and restarts no refresh token that a POST may have consumed is
\* POSTed again, provided that tokens of the server outlive configured ones.
THEOREM NoReplayCorrect ==
    ASSUME StateOutranksConfig
    PROVE  Spec => []NoReplay
<1>1. Init => Base /\ SpentInv
  BY TypeInit, ExclusionInit, PauseInit, SpentInit DEF Base
<1>2. Base /\ SpentInv /\ [Next]_vars => (Base /\ SpentInv)'
  BY TypeStep, ExclusionStep, PauseStep, SpentStep DEF Base
<1>3. Base /\ SpentInv => NoReplay
  BY UnspentBeforePost
<1>4. QED
  BY <1>1, <1>2, <1>3, PTL DEF Spec

\* A rotated pair whose write failed is dropped by nothing but its own success or the
\* end of the process (persistPendingTokenState, performRefresh).
THEOREM PendingIsKept == Spec => PendingOnlyActivated
<1>1. Base /\ [Next]_vars
        => [pending # NoPending /\ pending' # pending /\ mode' # "down"
              => /\ file' = pending.state
                 /\ client'.access = pending.state.access
                 /\ client'.refresh = pending.state.refresh]_vars
  <2> SUFFICES ASSUME Base, Next, pending # NoPending, pending' # pending, mode' # "down"
               PROVE  /\ file' = pending.state
                      /\ client'.access = pending.state.access
                      /\ client'.refresh = pending.state.refresh
    BY DEF vars
  <2>1. \A p \in Procs : pc[p] \notin Transaction
    BY DEF Base, PauseInv
  <2>2. CASE \E p \in Procs : PendingWritten(p)
    BY <2>2 DEF PendingWritten, Activated
  <2>3. CASE \E p \in Procs : PairWritten(p) \/ PairWriteFails(p)
    BY <2>1, <2>3 DEF PairWritten, PairWriteFails, Transaction
  <2>4. CASE \E p \in Procs : GateStep(p) /\ ~PendingWritten(p) /\ ~PairWritten(p) /\ ~PairWriteFails(p)
    BY <2>4 DEF GateStep, GateCancelled, GateForPending, GateForRefresh, PendingWriteFails,
         MarkerWritten, MarkerWriteFails, Post, Answered, Ambiguous, PairWriteRetried
  <2>5. CASE FetchStart \/ FetchStep \/ KeeperStep
    BY <2>5 DEF FetchStart, FetchStep, FetchCheckDue, DetailSend, DetailReply, DetailUnauthorized,
         FetchEnd, KeeperStep, KeeperLoop, KeeperCheck, KeeperPlan, KeeperWake
  <2>6. CASE ServerAccepts \/ OperatorRecovers \/ Tick \/ Start \/ Crash \/ Shutdown \/ Exit
    BY <2>6 DEF ServerAccepts, OperatorRecovers, Tick, Start, Crash, Shutdown, Exit, Vanish
  <2>7. QED
    BY <2>2, <2>3, <2>4, <2>5, <2>6 DEF Next
<1>2. Spec => []Base
  BY PauseCorrect, PTL DEF Base
<1>3. QED
  BY <1>1, <1>2, PTL DEF Spec, PendingOnlyActivated

-----------------------------------------------------------------------------
(* What is decided behind the gate, and when                               *)

\* An access token in anyone's hands has been issued.
KnownInv ==
    /\ Issued(client.access) /\ Issued(file.access) /\ Issued(config.access)
    /\ Issued(pending.state.access) /\ Issued(net.access)
    /\ \A p \in Procs : Issued(tx[p].access)

\* A rotation speaks of the pair in use until it is answered.
MaterialInv ==
    \A p \in Procs : pc[p] \in {"prepare", "post", "await"} => tx[p].access = client.access

\* No stamp lies in the future, and the floor lies MinInterval above the stamp.
StampInv ==
    /\ pending.state.updatedAt <= now
    /\ \A p \in Procs : pc[p] = "persist" => tx[p].updatedAt <= now
    /\ client.updatedAt # 0 => client.floor >= client.updatedAt + MinInterval

\* The access token in use would survive a crash, or its successor is on disk.
DurableInv ==
    pending = NoPending =>
        \/ client.access \in {0, config.access, file.access}
        \/ \E p \in Procs : pc[p] = "persist" /\ file = tx[p]

MaterialOK == KnownInv /\ MaterialInv /\ StampInv /\ DurableInv

\* What the layers so far say of the values the steps copy.
LEMMA ValuesTyped ==
    ASSUME TypeInv
    PROVE  /\ pc \in [Procs -> FetchPoints \cup KeeperPoints] /\ tx \in [Procs -> State]
           /\ file \in State /\ pending.state \in State /\ now \in Nat /\ nextToken \in Nat
           /\ client.access \in Tokens /\ client.updatedAt \in Nat /\ client.floor \in Nat
           /\ config.access \in Tokens /\ net.access \in Tokens /\ expiry \in [Tokens -> Nat]
           /\ nextToken >= 2 /\ Tokens \subseteq Nat
           /\ \A s \in State : s.access \in Nat /\ s.updatedAt \in Nat
           /\ NoState.access = 0 /\ NoState.updatedAt = 0
<1>1. /\ pc \in [Procs -> FetchPoints \cup KeeperPoints] /\ tx \in [Procs -> State]
      /\ file \in State /\ pending.state \in State /\ now \in Nat /\ expiry \in [Tokens -> Nat]
  BY DEF TypeInv, TypeOK, Times
<1>2. /\ client.access \in Tokens /\ client.updatedAt \in Nat /\ client.floor \in Nat
      /\ config.access \in Tokens /\ net.access \in Tokens
  BY DEF TypeInv, TypeOK, Times
<1>3. nextToken \in Nat /\ nextToken >= 2
  BY DEF TypeInv, TypeOK
<1>4. Tokens \subseteq Nat /\ NoState.access = 0 /\ NoState.updatedAt = 0
  BY DEF Tokens, NoState
<1>5. \A s \in State : s.access \in Nat /\ s.updatedAt \in Nat
  BY <1>4 DEF State, Times
<1>6. QED
  BY <1>1, <1>2, <1>3, <1>4, <1>5

LEMMA ActivatedStamped ==
    ASSUME NEW s \in State
    PROVE  /\ Activated(s).access = s.access /\ Activated(s).updatedAt = s.updatedAt
           /\ Activated(s).floor = now + MinInterval
BY DEF Activated

LEMMA MaterialQuiet ==
    ASSUME TypeInv, MaterialOK, Quiet
    PROVE  MaterialOK'
<1>1. PICK p \in Procs, x \in (FetchPoints \cup KeeperPoints) \ Transaction :
        pc[p] \notin Transaction /\ pc' = [pc EXCEPT ![p] = x]
  BY DEF Quiet
<1>2. \A q \in Procs : pc'[q] = pc[q] \/ (pc[q] \notin Transaction /\ pc'[q] \notin Transaction)
  BY <1>1, ValuesTyped
<1>3. UNCHANGED <<now, config, file, client, pending, tx, nextToken, net>>
  BY DEF Quiet, serverVars
<1>4. QED
  BY <1>2, <1>3
     DEF MaterialOK, KnownInv, Issued, MaterialInv, StampInv, DurableInv, Transaction

LEMMA MaterialGate ==
    ASSUME Base, MaterialOK, NEW p \in Procs, GateStep(p)
    PROVE  MaterialOK'
<1>0. TypeInv /\ GateInv /\ PauseInv
  BY DEF Base
<1>1. CASE GateCancelled(p) \/ GateForPending(p)
  BY <1>0, <1>1, CancelIsStill, StillIsQuiet, EnterPending, MaterialQuiet
<1>2. CASE GateForRefresh(p)
  <2>1. CASE /\ gate = "free"
             /\ pc' = [pc EXCEPT ![p] = "prepare"] /\ tx' = [tx EXCEPT ![p] = Material]
             /\ UNCHANGED <<mode, now, config, file, client, pending, serverVars, spent>>
    <3>1. \A q \in Procs : pc[q] \notin Busy
      BY <1>0, <2>1 DEF GateInv, Procs
    <3>2. Material.access = client.access
      BY DEF Material
    <3>3. QED
      BY <1>0, <2>1, <3>1, <3>2, ValuesTyped
         DEF MaterialOK, KnownInv, Issued, MaterialInv, StampInv, DurableInv, Busy, Transaction,
             serverVars
  <2>2. QED
    BY <1>0, <1>2, <2>1, EnterRotation, MaterialQuiet
<1>3. ASSUME pc[p] \in Busy, \E outcome : Leave(p, outcome)
      PROVE  /\ \A q \in Procs : pc'[q] \notin Busy /\ tx'[q].access \in {0, tx[q].access}
  <2>1. pc[p] \in GatePoints
    BY <1>3 DEF Busy, GatePoints
  <2>2. PICK x \in (FetchPoints \cup KeeperPoints) \ Busy :
          pc' = [pc EXCEPT ![p] = x] /\ tx' = [tx EXCEPT ![p] = NoState]
    BY <1>0, <1>3, <2>1, LeaveLeaves
  <2>3. QED
    BY <1>0, <1>3, <2>2, Alone, ValuesTyped
<1>4. CASE PendingWritten(p) \/ PendingWriteFails(p)
  <2>1. pc[p] \in GatePoints /\ pc[p] \in Busy /\ pc[p] = "write" /\ \E outcome : Return(p, outcome)
    BY <1>4 DEF PendingWritten, PendingWriteFails, GatePoints, Busy
  <2>2. PICK x \in (FetchPoints \cup KeeperPoints) \ Busy : pc' = [pc EXCEPT ![p] = x]
    BY <1>0, <2>1, ReturnLeaves
  <2>3. \A q \in Procs : pc'[q] \notin Busy
    BY <1>0, <2>1, <2>2, Alone, ValuesTyped
  <2>4. pending # NoPending /\ pending.base = client.version
    BY <1>0, <2>1 DEF PauseInv
  <2>5. \/ /\ file' = pending.state /\ client' = Activated(pending.state)
        \/ /\ file' \in {file, pending.state} /\ client' = client /\ pending' # NoPending
           /\ pending' = pending
    BY <1>4, <2>4 DEF PendingWritten, PendingWriteFails
  <2>6. UNCHANGED <<now, config, tx, nextToken, net>> /\ pending' \in {pending, NoPending}
    BY <1>4 DEF PendingWritten, PendingWriteFails, serverVars
  <2>7. KnownInv' /\ MaterialInv'
    BY <2>3, <2>5, <2>6, ValuesTyped, <1>0
       DEF MaterialOK, KnownInv, Issued, MaterialInv, Activated, NoPending, Busy, Transaction
  <2>8. StampInv'
    <3>1. pending.state.updatedAt <= now /\ pending.state.updatedAt \in Nat /\ now \in Nat
      BY <1>0, ValuesTyped DEF MaterialOK, StampInv
    <3>2. client'.updatedAt # 0 => client'.floor >= client'.updatedAt + MinInterval
      BY <1>0, <2>5, <3>1, ActivatedStamped, ValuesTyped DEF MaterialOK, StampInv
    <3>3. pending'.state.updatedAt <= now
      BY <1>0, <2>6, <3>1, ValuesTyped DEF NoPending
    <3>4. QED
      BY <2>3, <2>6, <3>2, <3>3 DEF StampInv, Busy, Transaction
  <2>9. DurableInv'
    BY <2>5 DEF DurableInv, Activated
  <2>10. QED
    BY <2>7, <2>8, <2>9 DEF MaterialOK
<1>5. CASE MarkerWritten(p)
  <2>1. /\ pc[p] = "prepare" /\ pc' = [pc EXCEPT ![p] = "post"] /\ file' = Marker(p)
        /\ UNCHANGED <<now, config, client, pending, tx, nextToken, net>>
    BY <1>5 DEF MarkerWritten, Goto, serverVars
  <2>2. Marker(p).access = tx[p].access /\ tx[p].access = client.access
    BY <1>0, <2>1, ValuesTyped DEF Marker, MaterialOK, MaterialInv, State
  <2>3. QED
    BY <1>0, <2>1, <2>2, ValuesTyped
       DEF MaterialOK, KnownInv, Issued, MaterialInv, StampInv, DurableInv
<1>6. CASE MarkerWriteFails(p) \/ Ambiguous(p)
  <2>1. /\ pc[p] \in {"prepare", "await"} /\ pc[p] \in Busy /\ file' \in {file, Marker(p)}
        /\ client' = client \/ client' = [client EXCEPT !.uncertain = TRUE]
        /\ UNCHANGED <<now, config, pending, nextToken, net>>
        /\ \E outcome : Leave(p, outcome)
    BY <1>6 DEF MarkerWriteFails, Ambiguous, serverVars, Busy, Transaction
  <2>2. \A q \in Procs : pc'[q] \notin Busy /\ tx'[q].access \in {0, tx[q].access}
    BY <1>3, <2>1
  <2>3. Marker(p).access = tx[p].access /\ tx[p].access = client.access
    BY <1>0, <2>1, ValuesTyped DEF Marker, MaterialOK, MaterialInv, State
  <2>4. /\ client'.access = client.access /\ client'.updatedAt = client.updatedAt
        /\ client'.floor = client.floor
    BY <1>0, <2>1 DEF TypeInv, TypeOK
  <2>5. \A q \in Procs : pc[q] # "persist"
    BY <1>0, <2>1, Alone DEF Busy, Transaction
  <2>6. KnownInv' /\ MaterialInv' /\ StampInv'
    BY <1>0, <2>1, <2>2, <2>3, <2>4, ValuesTyped
       DEF MaterialOK, KnownInv, Issued, MaterialInv, StampInv, Busy, Transaction
  <2>7. DurableInv'
    BY <1>0, <2>1, <2>3, <2>4, <2>5 DEF MaterialOK, DurableInv
  <2>8. QED
    BY <2>6, <2>7 DEF MaterialOK
<1>7. CASE Post(p)
  <2>1. /\ pc[p] = "post" /\ pc' = [pc EXCEPT ![p] = "await"] /\ net'.access = 0
        /\ UNCHANGED <<now, config, file, client, pending, tx, nextToken>>
    BY <1>7 DEF Post, Goto, NoRequest
  <2>2. QED
    BY <1>0, <2>1, ValuesTyped DEF MaterialOK, KnownInv, Issued, MaterialInv, StampInv, DurableInv
<1>8. CASE Answered(p)
  <2>1. /\ pc[p] = "await" /\ pc' = [pc EXCEPT ![p] = "persist"] /\ net'.access = 0
        /\ UNCHANGED <<now, config, file, client, pending, nextToken>>
    BY <1>8 DEF Answered, Goto, NoRequest
  <2>2. /\ tx'[p].access = net.access /\ tx'[p].updatedAt = now
        /\ \A q \in Procs \ {p} : tx'[q] = tx[q]
    BY <1>0, <1>8, ValuesTyped DEF Answered
  <2>3. \A q \in Procs : pc[q] # "persist"
    BY <1>0, <2>1, Alone DEF Busy, Transaction
  <2>4. QED
    BY <1>0, <2>1, <2>2, <2>3, ValuesTyped
       DEF MaterialOK, KnownInv, Issued, MaterialInv, StampInv, DurableInv
<1>9. CASE PairWritten(p)
  <2>1. /\ pc[p] = "persist" /\ pc[p] \in Busy /\ file' = tx[p] /\ client' = Activated(tx[p])
        /\ pending' = NoPending /\ UNCHANGED <<now, config, nextToken, net>>
        /\ \E outcome : Leave(p, outcome)
    BY <1>9 DEF PairWritten, serverVars, Busy, Transaction
  <2>2. \A q \in Procs : pc'[q] \notin Busy /\ tx'[q].access \in {0, tx[q].access}
    BY <1>3, <2>1
  <2>3. tx[p] \in State /\ tx[p].updatedAt <= now /\ tx[p].updatedAt \in Nat /\ now \in Nat
    BY <1>0, <2>1, ValuesTyped DEF MaterialOK, StampInv
  <2>4. client'.access = tx[p].access /\ client'.floor >= client'.updatedAt + MinInterval
    BY <2>1, <2>3, ActivatedStamped
  <2>5. pending'.state.access = 0 /\ pending'.state.updatedAt = 0
    BY <2>1 DEF NoPending, NoState
  <2>6. KnownInv' /\ MaterialInv'
    BY <1>0, <2>1, <2>2, <2>4, <2>5, ValuesTyped
       DEF MaterialOK, KnownInv, Issued, MaterialInv, Busy, Transaction
  <2>7. StampInv' /\ DurableInv'
    BY <2>1, <2>2, <2>3, <2>4, <2>5 DEF StampInv, DurableInv, Busy, Transaction
  <2>8. QED
    BY <2>6, <2>7 DEF MaterialOK
<1>10. CASE PairWriteRetried(p)
  <2>1. /\ pc[p] = "persist" /\ file' \in {file, tx[p]}
        /\ UNCHANGED <<now, config, client, pending, pc, tx, nextToken, net>>
    BY <1>10 DEF PairWriteRetried, serverVars
  <2>2. QED
    BY <2>1 DEF MaterialOK, KnownInv, Issued, MaterialInv, StampInv, DurableInv
<1>11. CASE PairWriteFails(p)
  <2>1. /\ pc[p] = "persist" /\ pc[p] \in Busy /\ file' \in {file, tx[p]}
        /\ pending' = [state |-> tx[p], base |-> client.version]
        /\ UNCHANGED <<now, config, client, nextToken, net>>
        /\ \E outcome : Leave(p, outcome)
    BY <1>11 DEF PairWriteFails, serverVars, Busy, Transaction
  <2>2. \A q \in Procs : pc'[q] \notin Busy /\ tx'[q].access \in {0, tx[q].access}
    BY <1>3, <2>1
  <2>3. pending'.state = tx[p] /\ pending' # NoPending
    <3>1. tx[p].refresh # 0
      BY <1>0, <2>1 DEF PauseInv, Transaction
    <3>2. QED
      BY <2>1, <3>1 DEF NoPending, NoState
  <2>4. QED
    BY <1>0, <2>1, <2>2, <2>3, ValuesTyped
       DEF MaterialOK, KnownInv, Issued, MaterialInv, StampInv, DurableInv, Busy, Transaction
<1>12. QED
  BY <1>1, <1>2, <1>4, <1>5, <1>6, <1>7, <1>8, <1>9, <1>10, <1>11 DEF GateStep

LEMMA MaterialStep ==
    ASSUME Base, MaterialOK, [Next]_vars
    PROVE  MaterialOK'
<1>0. TypeInv
  BY DEF Base
<1>1. CASE FetchStart \/ FetchStep \/ KeeperStep
  BY <1>1, FetchIsStill, KeeperIsStill, StillIsQuiet, MaterialQuiet DEF Base, DownInv, Procs
<1>2. CASE ServerAccepts
  <2>1. /\ nextToken' = nextToken + 1
        /\ UNCHANGED <<now, config, file, client, pending, pc, tx>>
        /\ net'.access = nextToken
    BY <1>2, <1>0 DEF ServerAccepts, TypeInv, TypeOK
  <2>2. QED
    BY <1>0, <2>1, ValuesTyped DEF MaterialOK, KnownInv, Issued, MaterialInv, StampInv, DurableInv
<1>3. CASE OperatorRecovers
  <2>1. /\ nextToken' = nextToken + 1 /\ pc = [p \in Procs |-> "off"] /\ client = NoClient
        /\ UNCHANGED <<now, client, pending, pc, tx, net>>
        /\ file'.access \in {0, nextToken}
        /\ config'.access \in {config.access, nextToken}
    BY <1>3 DEF OperatorRecovers, Base, DownInv, NoState
  <2>2. NoClient.access = 0 /\ NoClient.updatedAt = 0
    BY DEF NoClient
  <2>3. QED
    BY <1>0, <2>1, <2>2, ValuesTyped
       DEF MaterialOK, KnownInv, Issued, MaterialInv, StampInv, DurableInv
<1>4. CASE Start
  <2>1. /\ pc' = [fetch |-> "idle", bg |-> "loop"] /\ client' = Loaded(config, file)
        /\ UNCHANGED <<now, config, file, pending, tx, nextToken, net>>
    BY <1>4 DEF Start, serverVars
  <2>2. Loaded(config, file).access \in {config.access, file.access}
    BY DEF Loaded
  <2>3. Loaded(config, file).updatedAt # 0
          => Loaded(config, file).floor >= Loaded(config, file).updatedAt + MinInterval
    <3>1. CASE PreferState(config, file)
      <4>1. file.access # 0 /\ file.updatedAt \in Nat
        BY <1>0, <3>1, ValuesTyped DEF PreferState
      <4>2. /\ Loaded(config, file).updatedAt = file.updatedAt
            /\ Loaded(config, file).floor = FloorAfterRestart(file.updatedAt)
        BY <3>1, <4>1 DEF Loaded
      <4>3. QED
        BY <4>1, <4>2 DEF FloorAfterRestart
    <3>2. CASE ~PreferState(config, file)
      BY <3>2 DEF Loaded
    <3>3. QED
      BY <3>1, <3>2
  <2>4. \A q \in Procs : pc'[q] \notin Transaction
    BY <2>1 DEF Procs, Transaction
  <2>5. QED
    BY <2>1, <2>2, <2>3, <2>4
       DEF MaterialOK, KnownInv, Issued, MaterialInv, StampInv, DurableInv, Transaction
<1>5. CASE Crash \/ Exit
  <2>1. /\ client' = NoClient /\ pending' = NoPending /\ pc' = [p \in Procs |-> "off"]
        /\ tx' = [p \in Procs |-> NoState] /\ UNCHANGED <<now, config, file, nextToken, net>>
    BY <1>5 DEF Crash, Exit, Vanish, serverVars
  <2>2. QED
    BY <1>0, <2>1, ValuesTyped
       DEF MaterialOK, KnownInv, Issued, MaterialInv, StampInv, DurableInv, NoClient, NoPending
<1>6. CASE Tick
  <2>1. now' = now + 1 /\ UNCHANGED <<config, file, client, pending, pc, tx, nextToken, net>>
    BY <1>6 DEF Tick, serverVars
  <2>2. QED
    BY <1>0, <2>1, ValuesTyped DEF MaterialOK, KnownInv, Issued, MaterialInv, StampInv, DurableInv
<1>7. CASE Shutdown \/ UNCHANGED vars
  BY <1>7
     DEF Shutdown, vars, serverVars, MaterialOK, KnownInv, Issued, MaterialInv, StampInv, DurableInv
<1>8. QED
  BY <1>1, <1>2, <1>3, <1>4, <1>5, <1>6, <1>7, MaterialGate DEF Next

LEMMA MaterialInit == Init => MaterialOK
<1>1. SUFFICES ASSUME Init PROVE MaterialOK
  OBVIOUS
<1>2. /\ pc = [p \in Procs |-> "off"] /\ tx = [p \in Procs |-> NoState] /\ file = NoState
      /\ client = NoClient /\ pending = NoPending /\ net = NoRequest /\ nextToken = 2 /\ now = 1
      /\ config \in [access : {0, 1}, refresh : {0, 1}]
  BY <1>1 DEF Init
<1>3. QED
  BY <1>2 DEF MaterialOK, KnownInv, Issued, MaterialInv, StampInv, DurableInv, NoClient,
     NoPending, NoRequest, NoState

LEMMA MaterialCorrect == Spec => [](Base /\ MaterialOK)
<1>1. Init => Base /\ MaterialOK
  BY TypeInit, ExclusionInit, PauseInit, MaterialInit DEF Base
<1>2. Base /\ MaterialOK /\ [Next]_vars => (Base /\ MaterialOK)'
  BY TypeStep, ExclusionStep, PauseStep, MaterialStep DEF Base
<1>3. QED
  BY <1>1, <1>2, PTL DEF Spec

\* A rotation that was needed stays so while nobody changes the pair, later too.
LEMMA NeedLasts ==
    ASSUME Base, MaterialOK, RotationStillNeeded, NEW p \in Procs, pc[p] \in {"prepare", "post"},
           UNCHANGED <<client, pending>>, task'[p] = task[p], now' \in Nat, now' >= now,
           task[p] = "unauthorized" => seen' = seen,
           expiry'[client.access] = expiry[client.access]
    PROVE  /\ pending' = NoPending
           /\ task'[p] = "proactive" => ProactiveDue'
           /\ task'[p] = "unauthorized" => client'.version = seen'
           /\ task'[p] = "background" => BackgroundDue'
<1>1. /\ now \in Nat /\ expiry[client.access] \in Nat /\ client.floor \in Nat
  BY ValuesTyped DEF Base
<1>2. ProactiveDue => ProactiveDue'
  BY <1>1 DEF ProactiveDue
<1>3. CanRefresh' = CanRefresh /\ BackgroundEnabled' = BackgroundEnabled
  BY DEF CanRefresh, BackgroundEnabled
<1>4. BackgroundDue => BackgroundDue'
  BY <1>1, <1>3 DEF BackgroundDue
<1>5. QED
  BY <1>2, <1>4 DEF RotationStillNeeded

LEMMA NeedGate ==
    ASSUME Base, MaterialOK, RotationStillNeeded, NEW p \in Procs, GateStep(p)
    PROVE  RotationStillNeeded'
<1>0. /\ TypeInv /\ GateInv /\ task \in [Procs -> RefreshTasks \cup PendingTasks \cup {"none"}]
      /\ pc \in [Procs -> FetchPoints \cup KeeperPoints] /\ now \in Nat
  BY ValuesTyped DEF Base, TypeInv, TypeOK
<1>1. /\ now' = now /\ seen' = seen /\ expiry' = expiry
  BY DEF GateStep, GateCancelled, GateForPending, GateForRefresh, PendingWritten, PendingWriteFails,
         MarkerWritten, MarkerWriteFails, Post, Answered, Ambiguous, PairWritten, PairWriteRetried,
         PairWriteFails, serverVars
<1>2. \A q \in Procs \ {p} : pc'[q] = pc[q] /\ task'[q] = task[q]
  BY <1>0 DEF GateStep, GateCancelled, GateForPending, GateForRefresh, PendingWritten,
         PendingWriteFails, MarkerWritten, MarkerWriteFails, Post, Answered, Ambiguous, PairWritten,
         PairWriteRetried, PairWriteFails, Return, Leave, Goto
<1>3. SUFFICES ASSUME NEW q \in Procs, pc'[q] \in {"prepare", "post"}
               PROVE  /\ pending' = NoPending
                      /\ task'[q] = "proactive" => ProactiveDue'
                      /\ task'[q] = "unauthorized" => client'.version = seen'
                      /\ task'[q] = "background" => BackgroundDue'
  BY DEF RotationStillNeeded
<1>4. CASE q # p
  <2>1. pc[q] \in {"prepare", "post"} /\ task'[q] = task[q] /\ pc[p] \notin Busy
    BY <1>0, <1>2, <1>3, <1>4, Alone DEF Busy, Transaction
  <2>2. UNCHANGED <<client, pending>>
    BY <2>1 DEF GateStep, GateCancelled, GateForPending, GateForRefresh, PendingWritten,
         PendingWriteFails, MarkerWritten, MarkerWriteFails, Post, Answered, Ambiguous, PairWritten,
         PairWriteRetried, PairWriteFails, Busy, Transaction
  <2>3. QED
    BY <1>0, <1>1, <2>1, <2>2, NeedLasts
<1>5. CASE q = p
  <2>1. ASSUME pc[p] \in GatePoints, \E outcome : Return(p, outcome) PROVE FALSE
    <3>1. PICK x \in (FetchPoints \cup KeeperPoints) \ Busy : pc' = [pc EXCEPT ![p] = x]
      BY <1>0, <2>1, ReturnLeaves
    <3>2. QED
      BY <1>0, <1>3, <1>5, <3>1 DEF Busy, Transaction
  <2>2. CASE MarkerWritten(p)
    <3>1. pc[p] = "prepare" /\ UNCHANGED <<client, pending, task>>
      BY <2>2 DEF MarkerWritten
    <3>2. QED
      BY <1>0, <1>1, <1>5, <3>1, NeedLasts
  <2>3. CASE GateForRefresh(p)
    <3>1. pc[p] \in GatePoints
      BY <2>3 DEF GateForRefresh, GatePoints
    <3>2. Verdict(p) = "refresh" /\ UNCHANGED <<client, pending, task>>
      BY <2>1, <2>3, <3>1 DEF GateForRefresh
    <3>3. pending = NoPending
      BY <3>2 DEF Verdict
    <3>4. task[p] = "unauthorized" => client.version = seen
      BY <3>2, <3>3 DEF Verdict
    <3>5. /\ task[p] = "proactive" => ProactiveDue
          /\ task[p] = "background" => BackgroundDue
      BY <3>2, <3>3, <3>4 DEF Verdict
    <3>6. ProactiveDue' = ProactiveDue /\ BackgroundDue' = BackgroundDue
      BY <1>1, <3>2 DEF ProactiveDue, BackgroundDue, BackgroundEnabled, CanRefresh
    <3>7. QED
      BY <1>1, <1>5, <3>2, <3>3, <3>4, <3>5, <3>6
  <2>4. CASE PairWriteRetried(p)
    BY <1>3, <1>5, <2>4 DEF PairWriteRetried
  <2>5. CASE Post(p) \/ Answered(p)
    BY <1>0, <1>3, <1>5, <2>5 DEF Post, Answered, Goto
  <2>6. CASE GateForPending(p)
    <3>1. pc[p] \in GatePoints
      BY <2>6 DEF GateForPending, GatePoints
    <3>2. Goto(p, "write")
      BY <2>1, <2>6, <3>1 DEF GateForPending
    <3>3. QED
      BY <1>0, <1>3, <1>5, <3>2 DEF Goto
  <2>7. CASE \/ GateCancelled(p) \/ PendingWritten(p) \/ PendingWriteFails(p)
             \/ MarkerWriteFails(p) \/ Ambiguous(p) \/ PairWritten(p) \/ PairWriteFails(p)
    <3>1. pc[p] \in GatePoints
      BY <2>7 DEF GateCancelled, PendingWritten, PendingWriteFails, MarkerWriteFails, Ambiguous,
           PairWritten, PairWriteFails, GatePoints, Transaction
    <3>2. \E outcome : Return(p, outcome)
      BY <2>7 DEF GateCancelled, PendingWritten, PendingWriteFails, MarkerWriteFails, Ambiguous,
           PairWritten, PairWriteFails, Leave
    <3>3. QED
      BY <2>1, <3>1, <3>2
  <2>8. QED
    BY <2>2, <2>3, <2>4, <2>5, <2>6, <2>7 DEF GateStep
<1>6. QED
  BY <1>4, <1>5

LEMMA NeedStep ==
    ASSUME Base, MaterialOK, RotationStillNeeded, [Next]_vars
    PROVE  RotationStillNeeded'
<1>0. /\ TypeInv /\ GateInv /\ pc \in [Procs -> FetchPoints \cup KeeperPoints] /\ now \in Nat
      /\ task \in [Procs -> RefreshTasks \cup PendingTasks \cup {"none"}]
      /\ Procs = {"fetch", "bg"}
  BY ValuesTyped DEF Base, TypeInv, TypeOK, Procs
<1>1. ASSUME UNCHANGED <<client, pending, task, seen>>, now' \in Nat, now' >= now,
             \A p \in Procs : pc'[p] \in {"prepare", "post"} => pc[p] \in {"prepare", "post"},
             expiry'[client.access] = expiry[client.access]
      PROVE  RotationStillNeeded'
  BY <1>1, NeedLasts DEF RotationStillNeeded
<1>2. CASE FetchStart \/ FetchStep
  <2>1. PICK x \in (FetchPoints \cup KeeperPoints) \ Busy :
          /\ pc["fetch"] \notin Busy /\ \E p \in Procs : pc' = [pc EXCEPT ![p] = x]
    BY <1>0, <1>2, FetchIsStill DEF Base, DownInv, Still, FetchStart, FetchStep, FetchCheckDue,
       DetailSend, DetailReply, DetailUnauthorized, FetchEnd, Busy, Transaction
  <2>2. \A p \in Procs : pc'[p] \in {"prepare", "post"} => pc[p] = pc'[p] /\ p # "fetch"
    <3>1. \A p \in Procs : pc'[p] \in {pc[p], x}
      BY <1>0, <2>1
    <3>2. QED
      BY <2>1, <3>1 DEF Busy, Transaction
  <2>3. /\ UNCHANGED <<client, pending, now, expiry>> /\ task'["bg"] = task["bg"]
    BY <1>0, <1>2 DEF FetchStart, FetchStep, FetchCheckDue, DetailSend, DetailReply,
       DetailUnauthorized, FetchEnd, WaitForGate, serverVars
  <2>4. SUFFICES ASSUME pc'["bg"] \in {"prepare", "post"}
                 PROVE  /\ pending' = NoPending
                        /\ task'["bg"] = "proactive" => ProactiveDue'
                        /\ task'["bg"] = "unauthorized" => client'.version = seen'
                        /\ task'["bg"] = "background" => BackgroundDue'
    BY <1>0, <2>2 DEF RotationStillNeeded
  <2>5. pc["bg"] \in {"prepare", "post"}
    BY <1>0, <2>2, <2>4
  <2>6. task["bg"] # "unauthorized"
    BY <1>0, <2>5 DEF TypeInv, TaskOK, TasksOf, GatePoints, Transaction
  <2>7. QED
    BY <1>0, <2>3, <2>5, <2>6, NeedLasts
<1>3. CASE KeeperStep
  <2>1. Still /\ UNCHANGED <<client, pending, now, expiry, seen>>
    BY <1>0, <1>3, KeeperIsStill DEF KeeperStep, KeeperLoop, KeeperCheck, KeeperPlan, KeeperWake,
       serverVars
  <2>2. pc["bg"] \notin Busy /\ task'["fetch"] = task["fetch"]
    BY <1>0, <1>3 DEF KeeperStep, KeeperLoop, KeeperCheck, KeeperPlan, KeeperWake, WaitForGate,
       Busy, Transaction
  <2>3. \A p \in Procs : pc'[p] \in {"prepare", "post"} => pc[p] = pc'[p]
    BY <1>0, <2>1 DEF Still, Busy, Transaction
  <2>4. \A p \in Procs : pc'[p] \in {"prepare", "post"} =>
            pc[p] \in {"prepare", "post"} /\ task'[p] = task[p]
    BY <1>0, <2>2, <2>3 DEF Busy, Transaction
  <2>5. QED
    BY <1>0, <2>1, <2>4, NeedLasts DEF RotationStillNeeded
<1>4. CASE ServerAccepts
  <2>1. /\ UNCHANGED <<client, pending, task, seen, pc, now>>
        /\ \E e : expiry' = [expiry EXCEPT ![nextToken] = e]
    BY <1>4 DEF ServerAccepts
  <2>2. client.access # nextToken /\ client.access \in Tokens /\ expiry \in [Tokens -> Nat]
    BY <1>0, ValuesTyped DEF MaterialOK, KnownInv, Issued
  <2>3. expiry'[client.access] = expiry[client.access]
    BY <2>1, <2>2
  <2>4. QED
    BY <1>0, <1>1, <2>1, <2>3
<1>5. CASE OperatorRecovers
  BY <1>5 DEF OperatorRecovers, Base, DownInv, RotationStillNeeded
<1>6. CASE Tick \/ Shutdown \/ UNCHANGED vars
  BY <1>0, <1>1, <1>6 DEF Tick, Shutdown, vars, serverVars
<1>7. CASE Start \/ Crash \/ Exit
  BY <1>7 DEF Start, Crash, Exit, Vanish, RotationStillNeeded, Procs
<1>8. QED
  BY <1>2, <1>3, <1>4, <1>5, <1>6, <1>7, NeedGate DEF Next

\* What a rotation is about to replace still needs replacing, however long it waited
\* for the gate and whatever happened there (refreshMaterialAfterGate).
THEOREM NeedCorrect == Spec => []RotationStillNeeded
<1>1. Init => RotationStillNeeded
  BY DEF Init, RotationStillNeeded
<1>2. Base /\ MaterialOK /\ RotationStillNeeded /\ [Next]_vars => RotationStillNeeded'
  BY NeedStep
<1>3. QED
  BY <1>1, <1>2, MaterialCorrect, PTL DEF Spec

\* The keeper leaves MinInterval between two rotations, for any lifetimes and across
\* restarts (armBackgroundRefreshFloorLocked, armBackgroundRefreshFloorFromPersisted).
THEOREM SpinCorrect == Spec => []KeeperDoesNotSpin
<1>1. Base /\ MaterialOK /\ RotationStillNeeded => KeeperDoesNotSpin
  <2>1. SUFFICES ASSUME Base, MaterialOK, RotationStillNeeded, pc["bg"] \in {"prepare", "post"},
                        task["bg"] = "background", client.access # 0, expiry[client.access] # 0,
                        client.updatedAt # 0
                 PROVE  now >= client.updatedAt + MinInterval
    BY DEF KeeperDoesNotSpin
  <2>2. client.floor <= now
    BY <2>1 DEF RotationStillNeeded, BackgroundDue, Procs
  <2>3. client.floor >= client.updatedAt + MinInterval
    BY <2>1 DEF MaterialOK, StampInv
  <2>4. client.floor \in Nat /\ client.updatedAt \in Nat /\ now \in Nat
    BY <2>1, ValuesTyped DEF Base
  <2>5. QED
    BY <2>2, <2>3, <2>4
<1>2. QED
  BY <1>1, MaterialCorrect, NeedCorrect, PTL

\* No detail request carries an access token that a crash could lose
\* (detailTokenSnapshot, persistRefreshedTokenState).
THEOREM DurableCorrect == Spec => DetailUsesDurablePair
<1>1. Base /\ MaterialOK /\ [Next]_vars
        => [pc["fetch"] \in {"detail", "detail2"} /\ pc'["fetch"] \in {"sent", "sent2"}
              => \/ client.access \in {0, config.access, file.access}
                 \/ \E p \in Procs : pc[p] = "persist" /\ file = tx[p]]_vars
  <2>1. SUFFICES ASSUME Base, MaterialOK, Next, pc["fetch"] \in {"detail", "detail2"},
                        pc'["fetch"] \in {"sent", "sent2"}
                 PROVE  pending = NoPending
    BY DEF MaterialOK, DurableInv
  <2>2. pc \in [Procs -> FetchPoints \cup KeeperPoints] /\ Procs = {"fetch", "bg"}
    BY <2>1, ValuesTyped DEF Base, Procs
  <2>3. CASE FetchStart \/ FetchStep
    BY <2>1, <2>2, <2>3 DEF FetchStart, FetchStep, FetchCheckDue, DetailSend, DetailReply,
       DetailUnauthorized, FetchEnd, Goto
  <2>4. CASE KeeperStep
    BY <2>1, <2>2, <2>4 DEF KeeperStep, KeeperLoop, KeeperCheck, KeeperPlan, KeeperWake, WaitForGate,
       Goto
  <2>5. ASSUME NEW p \in Procs, GateStep(p) PROVE FALSE
    <3>1. p = "bg"
      BY <2>1, <2>2, <2>5 DEF GateStep, GateCancelled, GateForPending, GateForRefresh,
         PendingWritten, PendingWriteFails, MarkerWritten, MarkerWriteFails, Post, Answered,
         Ambiguous, PairWritten, PairWriteRetried, PairWriteFails
    <3>2. pc'["fetch"] = pc["fetch"]
      BY <2>2, <2>5, <3>1 DEF GateStep, GateCancelled, GateForPending, GateForRefresh,
         PendingWritten, PendingWriteFails, MarkerWritten, MarkerWriteFails, Post, Answered,
         Ambiguous, PairWritten, PairWriteRetried, PairWriteFails, Return, Leave, Goto
    <3>3. QED
      BY <2>1, <3>2
  <2>6. CASE ServerAccepts \/ OperatorRecovers \/ Tick \/ Shutdown
    BY <2>1, <2>6 DEF ServerAccepts, OperatorRecovers, Tick, Shutdown
  <2>7. CASE Start \/ Crash \/ Exit
    BY <2>1, <2>2, <2>7 DEF Start, Crash, Exit, Vanish
  <2>8. QED
    BY <2>1, <2>3, <2>4, <2>5, <2>6, <2>7 DEF Next
<1>2. QED
  BY <1>1, MaterialCorrect, PTL DEF Spec, DetailUsesDurablePair

-----------------------------------------------------------------------------
(* What the OAuth server still accepts *)

\* A refresh token is empty, accepted by the server, or may be consumed by a POST.
Accounted(t) == t = 0 \/ t \in live \/ t \in spent

\* No token the bridge keeps is lost to it unless a POST may have consumed it, and an
\* answer on its way to its reader carries a token the server accepts.
LiveInv ==
    /\ 0 \notin live
    /\ Accounted(client.refresh) /\ Accounted(file.refresh) /\ Accounted(config.refresh)
    /\ Accounted(pending.state.refresh)
    /\ \A p \in Procs : Accounted(tx[p].refresh)
    /\ net.refresh # 0 /\ ~net.answered => net.refresh \in spent
    /\ \A p \in Procs : pc[p] = "await" =>
         /\ net.refresh = tx[p].refresh
         /\ net.answered => IF net.next = 0 THEN net.refresh \in live ELSE net.next \in live

LEMMA LiveInit == Init => LiveInv
<1>1. SUFFICES ASSUME Init PROVE LiveInv
  OBVIOUS
<1>2. /\ pc = [p \in Procs |-> "off"] /\ tx = [p \in Procs |-> NoState] /\ file = NoState
      /\ client = NoClient /\ pending = NoPending /\ net = NoRequest /\ live = {1}
      /\ config \in [access : {0, 1}, refresh : {0, 1}]
  BY <1>1 DEF Init
<1>3. QED
  BY <1>2 DEF LiveInv, Accounted, NoClient, NoPending, NoRequest, NoState

\* Copying a kept refresh token elsewhere, or dropping it, loses nothing while the
\* server, the answer and the readers of answers stay as they are.
LEMMA LiveCopies ==
    ASSUME LiveInv, UNCHANGED <<live, spent, net>>,
           Accounted(client'.refresh), Accounted(file'.refresh), Accounted(config'.refresh),
           Accounted(pending'.state.refresh), \A p \in Procs : Accounted(tx'[p].refresh),
           \A p \in Procs : pc'[p] = "await" => pc[p] = "await" /\ tx'[p] = tx[p]
    PROVE  LiveInv'
BY DEF LiveInv, Accounted

LEMMA LiveQuiet ==
    ASSUME TypeInv, LiveInv, Quiet
    PROVE  LiveInv'
<1>1. PICK p \in Procs, x \in (FetchPoints \cup KeeperPoints) \ Transaction :
        pc' = [pc EXCEPT ![p] = x]
  BY DEF Quiet
<1>2. \A q \in Procs : pc'[q] = "await" => pc[q] = "await"
  BY <1>1, ValuesTyped DEF Transaction
<1>3. UNCHANGED <<config, file, client, pending, tx, live, net, spent>>
  BY DEF Quiet, serverVars
<1>4. QED
  BY <1>2, <1>3, LiveCopies DEF LiveInv

LEMMA LiveGate ==
    ASSUME Base, SpentInv, LiveInv, NEW p \in Procs, GateStep(p)
    PROVE  LiveInv'
<1>0. /\ TypeInv /\ GateInv
      /\ pc \in [Procs -> FetchPoints \cup KeeperPoints] /\ tx \in [Procs -> State]
  BY ValuesTyped DEF Base
<1> USE DEF serverVars
<1>1. CASE GateCancelled(p) \/ GateForPending(p)
  BY <1>0, <1>1, CancelIsStill, StillIsQuiet, EnterPending, LiveQuiet
<1>2. CASE GateForRefresh(p)
  <2>1. CASE /\ pc' = [pc EXCEPT ![p] = "prepare"] /\ tx' = [tx EXCEPT ![p] = Material]
             /\ UNCHANGED <<mode, now, config, file, client, pending, serverVars, spent>>
    <3>1. /\ \A q \in Procs : tx'[q] = tx[q] \/ tx'[q].refresh = client.refresh
          /\ \A q \in Procs : pc'[q] = "await" => pc[q] = "await" /\ tx'[q] = tx[q]
      BY <1>0, <2>1 DEF Material
    <3>2. QED
      BY <2>1, <3>1, LiveCopies DEF LiveInv
  <2>2. QED
    BY <1>0, <1>2, <2>1, EnterRotation, LiveQuiet
<1>3. CASE PendingWritten(p) \/ PendingWriteFails(p)
  <2>1. pc[p] \in GatePoints /\ \E outcome : Return(p, outcome)
    BY <1>3 DEF PendingWritten, PendingWriteFails, GatePoints
  <2>2. PICK x \in (FetchPoints \cup KeeperPoints) \ Busy : pc' = [pc EXCEPT ![p] = x]
    BY <1>0, <2>1, ReturnLeaves
  <2>3. \A q \in Procs : pc'[q] = "await" => pc[q] = "await"
    BY <1>0, <2>2 DEF Busy, Transaction
  <2>4. /\ client'.refresh \in {client.refresh, pending.state.refresh}
        /\ file'.refresh \in {file.refresh, pending.state.refresh}
        /\ pending' \in {pending, NoPending}
        /\ UNCHANGED <<config, tx, live, net, spent>>
    BY <1>3 DEF PendingWritten, PendingWriteFails, Activated
  <2>5. Accounted(NoPending.state.refresh)
    BY DEF Accounted, NoPending, NoState
  <2>6. QED
    BY <2>3, <2>4, <2>5, LiveCopies DEF LiveInv
<1>4. CASE MarkerWriteFails(p) \/ Ambiguous(p) \/ PairWritten(p) \/ PairWriteFails(p)
  <2>1. pc[p] \in GatePoints /\ \E outcome : Leave(p, outcome)
    BY <1>4 DEF MarkerWriteFails, Ambiguous, PairWritten, PairWriteFails, GatePoints, Transaction
  <2>2. PICK x \in (FetchPoints \cup KeeperPoints) \ Busy : pc' = [pc EXCEPT ![p] = x]
    BY <1>0, <2>1, LeaveLeaves
  <2>3. tx' = [tx EXCEPT ![p] = NoState]
    BY <2>1 DEF Leave
  <2>4. \A q \in Procs : pc'[q] = "await" => pc[q] = "await" /\ tx'[q] = tx[q]
    BY <1>0, <2>2, <2>3 DEF Busy, Transaction
  <2>5. \A q \in Procs : tx'[q] \in {tx[q], NoState}
    BY <1>0, <2>3
  <2>6. Marker(p).refresh = tx[p].refresh
    BY <1>0 DEF Marker, State
  <2>7. /\ client'.refresh \in {client.refresh, tx[p].refresh}
        /\ file'.refresh \in {file.refresh, tx[p].refresh}
        /\ pending' \in {pending, NoPending} \/ pending'.state = tx[p]
        /\ UNCHANGED <<config, live, net, spent>>
    BY <1>0, <1>4, <2>6 DEF MarkerWriteFails, Ambiguous, PairWritten, PairWriteFails, Activated,
         TypeInv, TypeOK
  <2>8. Accounted(NoPending.state.refresh) /\ Accounted(NoState.refresh)
    BY DEF Accounted, NoPending, NoState
  <2>9. QED
    BY <2>4, <2>5, <2>7, <2>8, LiveCopies DEF LiveInv
<1>5. CASE MarkerWritten(p) \/ PairWriteRetried(p)
  <2>1. \A q \in Procs : pc'[q] = "await" => pc[q] = "await"
    BY <1>0, <1>5 DEF MarkerWritten, PairWriteRetried, Goto
  <2>2. Marker(p).refresh = tx[p].refresh
    BY <1>0 DEF Marker, State
  <2>3. /\ file'.refresh \in {file.refresh, tx[p].refresh}
        /\ UNCHANGED <<config, client, pending, tx, live, net, spent>>
    BY <1>5, <2>2 DEF MarkerWritten, PairWriteRetried
  <2>4. QED
    BY <2>1, <2>3, LiveCopies DEF LiveInv
<1>6. CASE Post(p)
  <2>1. /\ spent' = spent \cup {tx[p].refresh} /\ ~net'.answered /\ net'.refresh = tx[p].refresh
        /\ UNCHANGED <<config, file, client, pending, tx, live>>
        /\ pc[p] = "post" /\ pc' = [pc EXCEPT ![p] = "await"]
    BY <1>6 DEF Post, Goto, NoRequest
  <2>2. \A q \in Procs : pc'[q] = "await" => q = p
    BY <1>0, <2>1, Alone DEF Busy, Transaction
  <2>3. \A t : Accounted(t) => Accounted(t)'
    BY <2>1 DEF Accounted
  <2>4. QED
    BY <2>1, <2>2, <2>3 DEF LiveInv
<1>7. CASE Answered(p)
  <2>1. /\ pc[p] = "await" /\ net.answered /\ net' = NoRequest
        /\ spent' = IF net.next = 0 THEN spent \ {tx[p].refresh} ELSE spent
        /\ tx' = [tx EXCEPT ![p] =
                    [access    |-> net.access,
                     refresh   |-> IF net.next = 0 THEN tx[p].refresh ELSE net.next,
                     updatedAt |-> now,
                     marker    |-> FALSE]]
        /\ UNCHANGED <<config, file, client, pending, live>>
        /\ pc' = [pc EXCEPT ![p] = "persist"]
    BY <1>7 DEF Answered, Goto
  <2>2. \A q \in Procs : pc'[q] # "await"
    BY <1>0, <2>1, Alone DEF Busy, Transaction
  <2>3. IF net.next = 0 THEN tx[p].refresh \in live ELSE net.next \in live
    BY <2>1 DEF LiveInv
  <2>4. \A t : Accounted(t) => Accounted(t)'
    BY <2>1, <2>3 DEF Accounted
  <2>5. tx'[p].refresh \in live /\ \A q \in Procs \ {p} : tx'[q] = tx[q]
    BY <1>0, <2>1, <2>3
  <2>6. \A q \in Procs : Accounted(tx[q].refresh)'
    BY <2>1, <2>4, <2>5 DEF LiveInv, Accounted
  <2>7. QED
    BY <2>1, <2>2, <2>4, <2>6 DEF LiveInv, NoRequest
<1>8. QED
  BY <1>1, <1>2, <1>3, <1>4, <1>5, <1>6, <1>7 DEF GateStep

LEMMA LiveStep ==
    ASSUME Base, SpentInv, LiveInv, [Next]_vars
    PROVE  LiveInv'
<1>0. /\ TypeInv /\ DownInv /\ Procs = {"fetch", "bg"}
      /\ nextToken \in Nat /\ nextToken >= 2 /\ tx \in [Procs -> State]
  BY ValuesTyped DEF Base, Procs
<1> USE DEF serverVars
<1>1. CASE FetchStart \/ FetchStep \/ KeeperStep
  BY <1>0, <1>1, FetchIsStill, KeeperIsStill, StillIsQuiet, LiveQuiet DEF DownInv
<1>2. CASE ServerAccepts
  <2>1. PICK rotate \in BOOLEAN :
          /\ net.refresh \in live /\ ~net.answered
          /\ live' = IF rotate THEN (live \ {net.refresh}) \cup {nextToken} ELSE live
          /\ net' = [net EXCEPT !.answered = TRUE, !.access = nextToken,
                                !.next = IF rotate THEN nextToken ELSE 0]
          /\ UNCHANGED <<config, file, client, pending, pc, tx, spent>>
    BY <1>2 DEF ServerAccepts
  <2>2. /\ net' .answered /\ net'.refresh = net.refresh
        /\ net'.next = IF rotate THEN nextToken ELSE 0
    BY <1>0, <2>1 DEF TypeInv, TypeOK
  <2>3. net.refresh \in spent
    BY <2>1 DEF LiveInv
  <2>4. \A t : Accounted(t) => Accounted(t)'
    BY <2>1, <2>3 DEF Accounted
  <2>5. 0 \notin live'
    BY <1>0, <2>1 DEF LiveInv
  <2>6. IF net'.next = 0 THEN net'.refresh \in live' ELSE net'.next \in live'
    BY <1>0, <2>1, <2>2
  <2>7. QED
    BY <2>1, <2>2, <2>4, <2>5, <2>6 DEF LiveInv
<1>3. CASE OperatorRecovers
  <2>1. /\ live' = live \cup {nextToken} /\ UNCHANGED <<client, pending, pc, tx, net, spent>>
        /\ pc = [p \in Procs |-> "off"]
        /\ file'.refresh \in {file.refresh, 0, nextToken}
        /\ config'.refresh \in {config.refresh, nextToken}
    BY <1>0, <1>3 DEF OperatorRecovers, DownInv, NoState
  <2>2. \A t : Accounted(t) => Accounted(t)'
    BY <2>1 DEF Accounted
  <2>3. \A t \in {0, nextToken} : t = 0 \/ t \in live' \/ t \in spent'
    BY <2>1
  <2>4. 0 \notin live'
    BY <1>0, <2>1 DEF LiveInv
  <2>5. /\ Accounted(client.refresh)' /\ Accounted(file.refresh)' /\ Accounted(config.refresh)'
        /\ Accounted(pending.state.refresh)' /\ \A p \in Procs : Accounted(tx[p].refresh)'
    BY <2>1, <2>2, <2>3 DEF LiveInv, Accounted
  <2>6. /\ net.refresh # 0 /\ ~net.answered => net.refresh \in spent
        /\ \A p \in Procs : pc[p] # "await"
    BY <2>1 DEF LiveInv
  <2>7. QED
    BY <2>1, <2>4, <2>5, <2>6 DEF LiveInv
<1>4. CASE Start
  <2>1. client'.refresh \in {file.refresh, config.refresh}
    BY <1>4 DEF Start, Loaded
  <2>2. pc' = [fetch |-> "idle", bg |-> "loop"] /\ UNCHANGED <<config, file, pending, tx, live, net, spent>>
    BY <1>4 DEF Start
  <2>3. QED
    BY <1>0, <2>1, <2>2, LiveCopies DEF LiveInv
<1>5. CASE Crash \/ Exit
  <2>1. /\ client' = NoClient /\ pending' = NoPending /\ pc' = [p \in Procs |-> "off"]
        /\ tx' = [p \in Procs |-> NoState] /\ UNCHANGED <<config, file, live, net, spent>>
    BY <1>5 DEF Crash, Exit, Vanish
  <2>2. Accounted(0)
    BY DEF Accounted
  <2>3. QED
    BY <2>1, <2>2, LiveCopies DEF LiveInv, NoClient, NoPending, NoState
<1>6. CASE Tick \/ Shutdown \/ UNCHANGED vars
  BY <1>6 DEF Tick, Shutdown, vars, LiveInv, Accounted
<1>7. QED
  BY <1>1, <1>2, <1>3, <1>4, <1>5, <1>6, LiveGate DEF Next

\* A pair about to be written is new, and so is a pending one; the pair in use, or to
\* be loaded after a crash, is unspent unless the pause says otherwise.
LEMMA AcceptedNext == Base /\ SpentInv /\ LiveInv => NeverLockedOut
<1>1. SUFFICES ASSUME Base, SpentInv, LiveInv PROVE NeverLockedOut
  OBVIOUS
<1>2. ASSUME NEW p \in Procs, pc[p] = "persist" PROVE tx[p].refresh \in live
  <2>1. tx[p].refresh # 0
    BY <1>1, <1>2 DEF Base, PauseInv, Transaction
  <2>2. tx[p].refresh \notin spent
    BY <1>1, <1>2 DEF SpentInv, PairInv, NewPair
  <2>3. QED
    BY <1>1, <2>1, <2>2 DEF LiveInv, Accounted
<1>3. ASSUME ~Paused, NextRefresh # 0, \A p \in Procs : pc[p] \notin {"await", "persist"}
      PROVE  NextRefresh \in live
  <2>1. CASE mode = "down"
    <3>1. NextRefresh = Loaded(config, file).refresh /\ ~Loaded(config, file).uncertain
      BY <1>3, <2>1 DEF NextRefresh, Paused
    <3>2. Loaded(config, file).refresh \notin spent
      BY <1>1, <3>1, LoadedUnspent DEF Base, SpentInv
    <3>3. Loaded(config, file).refresh \in {file.refresh, config.refresh}
      BY DEF Loaded
    <3>4. QED
      BY <1>1, <1>3, <3>1, <3>2, <3>3 DEF LiveInv, Accounted
  <2>2. CASE mode # "down" /\ pending # NoPending
    BY <1>1, <1>3, <2>2 DEF NextRefresh, SpentInv, PairInv, NewPair, LiveInv, Accounted
  <2>3. CASE mode # "down" /\ pending = NoPending
    BY <1>1, <1>3, <2>3 DEF NextRefresh, Paused, SpentInv, ClientInv, LiveInv, Accounted
  <2>4. QED
    BY <2>1, <2>2, <2>3
<1>4. QED
  BY <1>2, <1>3 DEF NeverLockedOut

\* Unless it paused for the operator, the bridge holds a refresh token the server
\* accepts, in memory and across every crash and restart: no lost answer, failed write
\* or late answer to a dead process locks it out unnoticed (New, performRefresh,
\* persistPendingTokenState, markRefreshOutcomeUncertain).
THEOREM AcceptedCorrect ==
    ASSUME StateOutranksConfig
    PROVE  Spec => []NeverLockedOut
<1>1. Init => Base /\ SpentInv /\ LiveInv
  BY TypeInit, ExclusionInit, PauseInit, SpentInit, LiveInit DEF Base
<1>2. Base /\ SpentInv /\ LiveInv /\ [Next]_vars => (Base /\ SpentInv /\ LiveInv)'
  BY TypeStep, ExclusionStep, PauseStep, SpentStep, LiveStep DEF Base
<1>3. QED
  BY <1>1, <1>2, AcceptedNext, PTL DEF Spec

-----------------------------------------------------------------------------
(* What wakes the keeper *)

\* On its way to a wait with no timer, or in it, the keeper has a wake-up for whatever
\* came up since it looked; it ended only where rotation has ended for good.
KeeperInv ==
    /\ pc["bg"] \in {"sched", "plan"} /\ pending # NoPending => wake
    /\ pc["bg"] = "park" /\ (pending # NoPending \/ BackgroundEnabled) => wake
    /\ mode = "up" /\ pc["bg"] = "done" => client.uncertain \/ client.refresh = 0
    /\ pending # NoPending => client.refresh # 0
    /\ \A p \in Procs : pc[p] \in Transaction => client.refresh # 0

\* Where the keeper may be after a step of its own under the gate.
LEMMA KeeperComesBack ==
    ASSUME Base, GateStep("bg")
    PROVE  /\ pc'["bg"] \notin {"plan", "park"}
           /\ pc'["bg"] = "sched" => pending' = NoPending
           /\ pc'["bg"] = "done" => mode = "stopping" \/ client'.uncertain
<1>0. /\ TypeInv /\ "bg" \in Procs /\ pc \in [Procs -> FetchPoints \cup KeeperPoints]
      /\ TasksOf("bg") = {"pendLoop", "background"}
  BY ValuesTyped DEF Base, Procs, TasksOf
<1>1. ASSUME pc["bg"] \in GatePoints, NEW outcome, Return("bg", outcome)
      PROVE  /\ pc'["bg"] \in {"sched", "sleep", "loop", "done"}
             /\ pc'["bg"] = "sched" => task["bg"] = "pendLoop" /\ outcome = "ok"
             /\ pc'["bg"] = "done" => mode = "stopping" \/ outcome = "uncertain"
  <2>1. task["bg"] \in {"pendLoop", "background"}
    BY <1>0, <1>1, GoroutineTyped
  <2>2. pc'["bg"] = Resume(task["bg"], outcome)
    BY <1>0, <1>1 DEF Return, Goto
  <2>3. CASE task["bg"] = "pendLoop"
    BY <2>2, <2>3 DEF Resume
  <2>4. CASE task["bg"] = "background"
    BY <2>2, <2>4 DEF Resume
  <2>5. QED
    BY <2>1, <2>3, <2>4
<1>2. CASE GateCancelled("bg") \/ PendingWriteFails("bg") \/ MarkerWriteFails("bg")
           \/ PairWriteFails("bg")
  <2>1. pc["bg"] \in GatePoints /\ \E outcome \in {"error", "durability"} : Return("bg", outcome)
    BY <1>2 DEF GateCancelled, PendingWriteFails, MarkerWriteFails, PairWriteFails, Leave,
         GatePoints, Transaction
  <2>2. QED
    BY <1>1, <2>1
<1>3. CASE GateForPending("bg")
  <2>1. pc["bg"] \in GatePoints
    BY <1>3 DEF GateForPending, GatePoints
  <2>2. CASE Return("bg", "ok") /\ pending' = NoPending
    BY <1>1, <2>1, <2>2
  <2>3. CASE Goto("bg", "write")
    BY <1>0, <2>3 DEF Goto
  <2>4. QED
    BY <1>3, <2>2, <2>3 DEF GateForPending
<1>4. CASE PendingWritten("bg")
  <2>1. pc["bg"] \in GatePoints /\ pending # NoPending
    BY <1>0, <1>4 DEF PendingWritten, GatePoints, Base, PauseInv
  <2>2. pending.base = client.version
    BY <2>1 DEF Base, PauseInv
  <2>3. Return("bg", "ok") /\ pending' = NoPending
    BY <1>4, <2>2 DEF PendingWritten
  <2>4. QED
    BY <1>1, <2>1, <2>3
<1>5. CASE GateForRefresh("bg")
  <2>1. pc["bg"] \in GatePoints /\ task["bg"] # "pendLoop"
    BY <1>5 DEF GateForRefresh, GatePoints, RefreshTasks
  <2>2. CASE Return("bg", IF Verdict("bg") = "refresh" THEN "error" ELSE Verdict("bg"))
    <3>1. Verdict("bg") # "uncertain"
      BY DEF Verdict
    <3>2. QED
      BY <1>1, <2>1, <2>2, <3>1
  <2>3. CASE Goto("bg", "prepare")
    BY <1>0, <2>3 DEF Goto
  <2>4. QED
    BY <1>5, <2>2, <2>3 DEF GateForRefresh
<1>6. CASE Ambiguous("bg")
  <2>1. pc["bg"] \in GatePoints /\ Return("bg", "uncertain") /\ client'.uncertain
    BY <1>0, <1>6 DEF Ambiguous, Leave, GatePoints, Transaction, TypeInv, TypeOK
  <2>2. QED
    BY <1>1, <2>1
<1>7. CASE PairWritten("bg")
  <2>1. pc["bg"] \in GatePoints /\ Return("bg", "ok") /\ pending' = NoPending
    BY <1>7 DEF PairWritten, Leave, GatePoints, Transaction
  <2>2. QED
    BY <1>1, <2>1
<1>8. CASE MarkerWritten("bg") \/ Post("bg") \/ Answered("bg")
  BY <1>0, <1>8 DEF MarkerWritten, Post, Answered, Goto
<1>9. CASE PairWriteRetried("bg")
  BY <1>9 DEF PairWriteRetried
<1>10. QED
  BY <1>2, <1>3, <1>4, <1>5, <1>6, <1>7, <1>8, <1>9 DEF GateStep

\* A step that leaves the pairs and the wake-up alone and puts the keeper into no wait.
LEMMA KeeperUnmoved ==
    ASSUME KeeperInv, UNCHANGED <<client, pending, wake>>,
           expiry'[client.access] = expiry[client.access],
           mode' = "up" => mode = "up",
           \A p \in Procs : pc'[p] \in Transaction => pc[p] \in Transaction \/ client.refresh # 0,
           \/ pc'["bg"] = pc["bg"]
           \/ /\ pc'["bg"] \notin {"plan", "park"}
              /\ pc'["bg"] = "sched" => pending = NoPending
              /\ pc'["bg"] = "done" => mode # "up" \/ client.uncertain
    PROVE  KeeperInv'
<1>1. BackgroundEnabled' = BackgroundEnabled
  BY DEF BackgroundEnabled, CanRefresh
<1>2. QED
  BY <1>1 DEF KeeperInv

\* A goroutine that leaves the gate with news has put the wake-up into the channel.
LEMMA KeeperNotified ==
    ASSUME KeeperInv, GateInv, NEW p \in Procs, pc[p] \in Busy,
           \A q \in Procs : pc'[q] \notin Transaction,
           wake', mode' = mode, pending' # NoPending => client'.refresh # 0,
           \/ client'.uncertain
           \/ /\ ~client.uncertain /\ client.refresh # 0
              /\ pc'["bg"] = "done" => pc["bg"] = "done" \/ mode = "stopping"
    PROVE  KeeperInv'
BY DEF KeeperInv

LEMMA KeeperGate ==
    ASSUME Base, KeeperInv, NEW p \in Procs, GateStep(p)
    PROVE  KeeperInv'
<1>0. /\ TypeInv /\ GateInv /\ Procs = {"fetch", "bg"} /\ mode' = mode
      /\ pc \in [Procs -> FetchPoints \cup KeeperPoints]
  BY ValuesTyped DEF Base, Procs, GateStep, GateCancelled, GateForPending, GateForRefresh,
     PendingWritten, PendingWriteFails, MarkerWritten, MarkerWriteFails, Post, Answered, Ambiguous,
     PairWritten, PairWriteRetried, PairWriteFails
<1> USE DEF serverVars
<1>1. \A q \in Procs \ {p} : pc'[q] = pc[q]
  BY <1>0 DEF GateStep, GateCancelled, GateForPending, GateForRefresh, PendingWritten,
     PendingWriteFails, MarkerWritten, MarkerWriteFails, Post, Answered, Ambiguous, PairWritten,
     PairWriteRetried, PairWriteFails, Return, Leave, Goto
<1>2. \/ pc'["bg"] = pc["bg"]
      \/ /\ pc'["bg"] \notin {"plan", "park"}
         /\ pc'["bg"] = "sched" => pending' = NoPending
         /\ pc'["bg"] = "done" => mode = "stopping" \/ client'.uncertain
  BY <1>0, <1>1, KeeperComesBack
<1>3. mode = "stopping" => mode # "up"
  OBVIOUS
<1>4. ASSUME pc[p] \in Busy, pc[p] \in GatePoints, NEW outcome, Return(p, outcome)
      PROVE  \A q \in Procs : pc'[q] \notin Transaction
  <2>1. PICK x \in (FetchPoints \cup KeeperPoints) \ Busy : pc' = [pc EXCEPT ![p] = x]
    BY <1>0, <1>4, ReturnLeaves
  <2>2. QED
    BY <1>0, <1>4, <2>1, Alone DEF Busy
<1>5. CASE GateCancelled(p) \/ GateForPending(p)
  <2>1. \A q \in Procs : pc'[q] \in Transaction => pc[q] \in Transaction
    <3>1. PICK q \in Procs, x \in (FetchPoints \cup KeeperPoints) \ Transaction :
            pc' = [pc EXCEPT ![q] = x]
      BY <1>0, <1>5, CancelIsStill, StillIsQuiet, EnterPending DEF Quiet
    <3>2. QED
      BY <1>0, <3>1
  <2>2. UNCHANGED <<client, pending, wake, expiry>>
    BY <1>5 DEF GateCancelled, GateForPending
  <2>3. QED
    BY <1>0, <1>2, <1>3, <2>1, <2>2, KeeperUnmoved
<1>6. CASE GateForRefresh(p)
  <2>1. \A q \in Procs : pc'[q] \in Transaction => pc[q] \in Transaction \/ client.refresh # 0
    <3>1. CASE Quiet
      <4>1. PICK q \in Procs, x \in (FetchPoints \cup KeeperPoints) \ Transaction :
              pc' = [pc EXCEPT ![q] = x]
        BY <3>1 DEF Quiet
      <4>2. QED
        BY <1>0, <4>1
    <3>2. QED
      BY <1>0, <1>6, <3>1, EnterRotation
  <2>2. UNCHANGED <<client, pending, wake, expiry>>
    BY <1>6 DEF GateForRefresh
  <2>3. QED
    BY <1>0, <1>2, <1>3, <2>1, <2>2, KeeperUnmoved
<1>7. CASE PendingWriteFails(p) \/ MarkerWriteFails(p)
  <2>1. /\ pc[p] \in Busy /\ pc[p] \in GatePoints /\ \E outcome : Return(p, outcome)
        /\ UNCHANGED <<client, pending, wake, expiry>>
    BY <1>7 DEF PendingWriteFails, MarkerWriteFails, Leave, Busy, GatePoints, Transaction
  <2>2. QED
    BY <1>0, <1>2, <1>3, <1>4, <2>1, KeeperUnmoved
<1>8. CASE MarkerWritten(p) \/ Post(p) \/ Answered(p) \/ PairWriteRetried(p)
  <2>1. /\ pc[p] \in Transaction /\ UNCHANGED <<client, pending, wake>>
        /\ expiry'[client.access] = expiry[client.access]
    BY <1>8 DEF MarkerWritten, Post, Answered, PairWriteRetried, Transaction
  <2>2. QED
    BY <1>0, <1>1, <1>2, <1>3, <2>1, KeeperUnmoved
<1>9. CASE PendingWritten(p)
  <2>1. /\ pc[p] \in Busy /\ pc[p] \in GatePoints /\ pending # NoPending
    BY <1>0, <1>9 DEF PendingWritten, Busy, GatePoints, Base, PauseInv
  <2>2. pending.base = client.version /\ ~client.uncertain /\ client.refresh # 0
    BY <2>1 DEF Base, PauseInv, KeeperInv
  <2>3. wake' /\ pending' = NoPending /\ \E outcome : Return(p, outcome)
    BY <1>9, <2>2 DEF PendingWritten
  <2>4. client'.uncertain \/ (pc'["bg"] = "done" => pc["bg"] = "done" \/ mode = "stopping")
    BY <1>2
  <2>5. QED
    BY <1>0, <1>4, <2>1, <2>2, <2>3, <2>4, KeeperNotified
<1>10. CASE Ambiguous(p) \/ PairWritten(p) \/ PairWriteFails(p)
  <2>1. /\ pc[p] \in Busy /\ pc[p] \in GatePoints /\ pc[p] \in Transaction /\ wake'
        /\ \E outcome : Return(p, outcome)
    BY <1>10 DEF Ambiguous, PairWritten, PairWriteFails, Leave, Busy, GatePoints, Transaction
  <2>2. pending = NoPending /\ ~client.uncertain /\ client.refresh # 0
    BY <2>1 DEF Base, PauseInv, KeeperInv
  <2>3. pending' # NoPending => client'.refresh # 0
    BY <1>10, <2>2 DEF Ambiguous, PairWritten, PairWriteFails
  <2>4. client'.uncertain \/ (pc'["bg"] = "done" => pc["bg"] = "done" \/ mode = "stopping")
    BY <1>2
  <2>5. QED
    BY <1>0, <1>4, <2>1, <2>2, <2>3, <2>4, KeeperNotified
<1>11. QED
  BY <1>5, <1>6, <1>7, <1>8, <1>9, <1>10 DEF GateStep

LEMMA KeeperOwnStep ==
    ASSUME Base, KeeperInv, KeeperStep
    PROVE  KeeperInv'
<1>0. /\ TypeInv /\ Procs = {"fetch", "bg"} /\ pc \in [Procs -> FetchPoints \cup KeeperPoints]
      /\ UNCHANGED <<mode, client, pending, expiry>>
  BY ValuesTyped DEF Base, Procs, KeeperStep, KeeperLoop, KeeperCheck, KeeperPlan, KeeperWake,
     serverVars
<1>1. \A p \in Procs : pc'[p] \in Transaction => pc[p] \in Transaction
  <2>1. PICK q \in Procs, x \in (FetchPoints \cup KeeperPoints) \ Transaction :
          pc' = [pc EXCEPT ![q] = x]
    BY <1>0, KeeperIsStill, StillIsQuiet DEF Quiet
  <2>2. QED
    BY <1>0, <2>1
<1>2. BackgroundEnabled' = BackgroundEnabled
  BY <1>0 DEF BackgroundEnabled, CanRefresh
<1>3. ASSUME NEW t \in {"pendLoop", "background"}, WaitForGate("bg", t)
      PROVE  pc'["bg"] \notin {"sched", "plan", "park"} /\ (pc'["bg"] = "done" => mode # "up")
  <2>1. \/ pc' = [pc EXCEPT !["bg"] = "wait"]
        \/ mode = "stopping" /\ pc' = [pc EXCEPT !["bg"] = Resume(t, "error")]
    BY <1>3 DEF WaitForGate, ContextDone, Goto
  <2>2. Resume(t, "error") \in {"done", "sleep"}
    BY <1>3 DEF Resume
  <2>3. QED
    BY <1>0, <2>1, <2>2
<1>4. CASE KeeperLoop
  <2>1. /\ wake' = wake
        /\ \/ mode = "stopping" /\ pc' = [pc EXCEPT !["bg"] = "done"]
           \/ WaitForGate("bg", "pendLoop")
           \/ pending = NoPending /\ pc' = [pc EXCEPT !["bg"] = "sched"]
    BY <1>4 DEF KeeperLoop, Goto
  <2>2. QED
    BY <1>0, <1>1, <1>2, <1>3, <2>1 DEF KeeperInv
<1>5. CASE KeeperCheck
  <2>1. /\ wake' = wake /\ pc["bg"] = "sched"
        /\ pc' = [pc EXCEPT !["bg"] = IF client.uncertain \/ client.refresh = 0 THEN "done" ELSE "plan"]
    BY <1>5 DEF KeeperCheck, Goto
  <2>2. QED
    BY <1>0, <1>1, <1>2, <2>1 DEF KeeperInv
<1>6. CASE KeeperPlan
  <2>1. /\ wake' = wake /\ pc["bg"] = "plan"
        /\ \/ WaitForGate("bg", "background")
           \/ pc' = [pc EXCEPT !["bg"] = "sleep"]
           \/ ~BackgroundEnabled /\ pc' = [pc EXCEPT !["bg"] = "park"]
    BY <1>6 DEF KeeperPlan, BackgroundDue, Goto
  <2>2. QED
    BY <1>0, <1>1, <1>2, <1>3, <2>1 DEF KeeperInv
<1>7. CASE KeeperWake
  <2>1. \/ mode = "stopping" /\ pc' = [pc EXCEPT !["bg"] = "done"]
        \/ pc' = [pc EXCEPT !["bg"] = "loop"]
    BY <1>7 DEF KeeperWake, Goto
  <2>2. QED
    BY <1>0, <1>1, <1>2, <2>1 DEF KeeperInv
<1>8. QED
  BY <1>4, <1>5, <1>6, <1>7 DEF KeeperStep

LEMMA KeeperInvStep ==
    ASSUME Base, MaterialOK, KeeperInv, [Next]_vars
    PROVE  KeeperInv'
<1>0. /\ TypeInv /\ DownInv /\ Procs = {"fetch", "bg"}
      /\ pc \in [Procs -> FetchPoints \cup KeeperPoints]
  BY ValuesTyped DEF Base, Procs
<1>1. CASE FetchStart \/ FetchStep
  <2>1. /\ UNCHANGED <<mode, client, pending, wake, expiry>> /\ pc'["bg"] = pc["bg"]
    BY <1>0, <1>1 DEF FetchStart, FetchStep, FetchCheckDue, DetailSend, DetailReply,
       DetailUnauthorized, FetchEnd, WaitForGate, Goto, serverVars
  <2>2. PICK q \in Procs, x \in (FetchPoints \cup KeeperPoints) \ Transaction :
          pc' = [pc EXCEPT ![q] = x]
    BY <1>0, <1>1, FetchIsStill, StillIsQuiet DEF Quiet, DownInv
  <2>3. \A p \in Procs : pc'[p] \in Transaction => pc[p] \in Transaction
    BY <1>0, <2>2
  <2>4. QED
    BY <2>1, <2>3, KeeperUnmoved
<1>2. CASE ServerAccepts
  <2>1. /\ UNCHANGED <<mode, client, pending, wake, pc>>
        /\ \E e : expiry' = [expiry EXCEPT ![nextToken] = e]
    BY <1>2 DEF ServerAccepts
  <2>2. client.access # nextToken /\ client.access \in Tokens /\ expiry \in [Tokens -> Nat]
    BY <1>0, ValuesTyped DEF MaterialOK, KnownInv, Issued
  <2>3. expiry'[client.access] = expiry[client.access]
    BY <2>1, <2>2
  <2>4. QED
    BY <2>1, <2>3, KeeperUnmoved
<1>3. CASE OperatorRecovers
  BY <1>0, <1>3 DEF OperatorRecovers, DownInv, KeeperInv
<1>4. CASE Start
  BY <1>0, <1>4 DEF Start, DownInv, KeeperInv, Transaction
<1>5. CASE Crash \/ Exit
  BY <1>0, <1>5 DEF Crash, Exit, Vanish, KeeperInv, Transaction
<1>6. CASE Tick \/ Shutdown \/ UNCHANGED vars
  <2>1. /\ UNCHANGED <<client, pending, wake, pc, expiry>> /\ (mode' = "up" => mode = "up")
    BY <1>6 DEF Tick, Shutdown, vars, serverVars
  <2>2. QED
    BY <2>1, KeeperUnmoved
<1>7. QED
  BY <1>0, <1>1, <1>2, <1>3, <1>4, <1>5, <1>6, KeeperOwnStep, KeeperGate DEF Next

\* The keeper misses nothing: whatever a poll leaves to it while it looks elsewhere, a
\* wake-up waits in its channel, and it has not ended (notifyMaintenance,
\* waitForMaintenance, RunBackground).
THEOREM KeeperCorrect == Spec => []KeeperMissesNothing
<1>1. Init => KeeperInv
  BY DEF Init, KeeperInv, Transaction, Procs
<1>2. Base /\ MaterialOK /\ KeeperInv /\ [Next]_vars => KeeperInv'
  BY KeeperInvStep
<1>3. Base /\ KeeperInv => KeeperMissesNothing
  BY DEF Base, PauseInv, KeeperInv, KeeperMissesNothing, BackgroundEnabled, CanRefresh
<1>4. QED
  BY <1>1, <1>2, <1>3, MaterialCorrect, PTL DEF Spec

=============================================================================
