---------------------------- MODULE ModbusSession ----------------------------
(***************************************************************************)
(* The local Modbus client: one fetch is one TCP session that consumes a   *)
(* fixed plan of reads in order and is closed by the first error.  The     *)
(* plan is shortened to one read of each kind: the three acquisitions that *)
(* are cached for the life of the process, the two reads that share the    *)
(* signed 32-bit grid powers, and the raw words that the validation        *)
(* evidence copies.  The inverter goes on measuring between two reads.     *)
(***************************************************************************)
EXTENDS Integers, Sequences

CONSTANTS
    Half,       \* half the range of a register: 2^15 in the program
    Statuses    \* the vectors of power, relay, alert and run-state words

ASSUME HalfAssumption == Half \in Nat \ {0}
ASSUME StatusesAssumption == "none" \notin Statuses

VARIABLES
    capabilities,   \* the profile gates and the metadata have been acquired
    session,        \* the reads of the fetch under way
    status          \* the status words that the inverter holds

modbusVars == <<capabilities, session>>

Range16 == 2 * Half
\* What the inverter can measure: the envelope of the decoders and its ends.
\* This is an assumption: with wider powers a torn pair of words may again be a
\* number inside the envelope.
Powers == -Half .. Half
BmsWords == {"zero", "ffff", "other"}

\* A signed 32-bit value in two registers, the low word first.
LowWord(v) == v % Range16
HighWord(v) == (v \div Range16) % Range16
Join(low, high) == low + Range16 * (IF high >= Half THEN high - Range16 ELSE high)

\* Wrong variant of Coherent: accepts whatever fits a signed register.
Coherent_Int16(low, high) ==
    /\ high \in {0, Range16 - 1}
    /\ Join(low, high) \in -Half .. Half - 1

\* decodeGridPowers accepts a pair of words only inside the envelope -0x7FFF ..
\* 0x7FFF.  One of its four powers stands for all; phases that do not add up to
\* the total are one more reason to fail.
Coherent(low, high) ==
    /\ high \in {0, Range16 - 1}
    /\ Join(low, high) \in 1 - Half .. Half - 1

fetchReadPlan ==
    <<"device", "capability", "metadata", "mode", "low", "high", "bms", "status">>
Gates == 1 .. 3

NoSession == [next |-> 0, low |-> 0, sampled |-> 0, power |-> 0, bms |-> "zero", status |-> "none"]

\* Nothing has been acquired yet.
ModbusInit ==
    /\ capabilities = FALSE
    /\ session = NoSession
    /\ status \in Statuses

-----------------------------------------------------------------------------
\* Fetch: dial.  Later fetches of the process skip the cached acquisitions.
Opens ==
    /\ session = NoSession
    /\ session' = [NoSession EXCEPT !.next = IF capabilities THEN 4 ELSE 1]
    /\ UNCHANGED <<capabilities, status>>

Reading(id) == session.next \in DOMAIN fetchReadPlan /\ fetchReadPlan[session.next] = id

\* The gates and the metadata are committed together, after the last of them.
ReadGate ==
    /\ session.next \in Gates
    /\ session' = [session EXCEPT !.next = @ + 1]
    /\ capabilities' = (capabilities \/ Reading("metadata"))
    /\ UNCHANGED status

ReadMode ==
    /\ Reading("mode")
    /\ session' = [session EXCEPT !.next = @ + 1]
    /\ UNCHANGED <<capabilities, status>>

\* The low words of a power come from one read ...
ReadLow ==
    /\ Reading("low")
    /\ \E v \in Powers :
           session' = [session EXCEPT !.next = @ + 1, !.low = LowWord(v), !.sampled = v]
    /\ UNCHANGED <<capabilities, status>>

\* ... and the high words from the next: the inverter may have measured
\* something else meanwhile.
ReadHigh ==
    /\ Reading("high")
    /\ \E v \in Powers :
           /\ Coherent(session.low, HighWord(v))
           /\ session' = [session EXCEPT !.next = @ + 1, !.power = Join(session.low, HighWord(v))]
    /\ UNCHANGED <<capabilities, status>>

ReadBms ==
    /\ Reading("bms")
    /\ \E w \in BmsWords : session' = [session EXCEPT !.next = @ + 1, !.bms = w]
    /\ UNCHANGED <<capabilities, status>>

ReadStatus ==
    /\ Reading("status")
    /\ session' = [session EXCEPT !.next = @ + 1, !.status = status]
    /\ UNCHANGED <<capabilities, status>>

ReadApproved == ReadGate \/ ReadMode \/ ReadLow \/ ReadHigh \/ ReadBms \/ ReadStatus

Complete == session.next = Len(fetchReadPlan) + 1

\* The session ends, with a snapshot or with the first error: dial, transport,
\* deadline, a frame that does not answer the request, a value out of its domain.
Close == session' = NoSession /\ UNCHANGED <<capabilities, status>>

InverterChanges ==
    /\ \E s \in Statuses \ {status} : status' = s
    /\ UNCHANGED modbusVars
=============================================================================
