---------------------------- MODULE Configuration ----------------------------
(***************************************************************************)
(* What config.FromCLI makes of an operator's settings and which of them   *)
(* it refuses (config/config.go), and what the constructors of runServe    *)
(* refuse on their own (app/app.go and the packages it builds).            *)
(*                                                                         *)
(* Data: a setting that is only checked by itself (an address, a range, a  *)
(* pattern) is one bit of its section: `valid` holds the sections whose    *)
(* own settings pass.  Kept are the settings that rules relate.            *)
(***************************************************************************)
EXTENDS Naturals, Sequences

KnownSources == {"jinko", "solarman", "modbus"}

\* A configuration; sourcePriority is empty when unset.
Configurations ==
    [source : STRING, sourcePriority : Seq(STRING), valid : SUBSET STRING,
     alerts : {"off", "on", "badAddress"}, mqtt : BOOLEAN, deviceID : BOOLEAN,
     discoveryStateFile : BOOLEAN, evidence : BOOLEAN, correlation : BOOLEAN,
     meter : BOOLEAN, modbusSN : BOOLEAN]

Names(priority) == {priority[i] : i \in DOMAIN priority}

-----------------------------------------------------------------------------
(* config.FromCLI.                                                         *)

Defaulted(c) ==
    [c EXCEPT !.sourcePriority = IF @ = <<>> THEN <<c.source>> ELSE @]

PrimarySource(c) == c.sourcePriority[1]

StartsWithModbus(c) == c.sourcePriority[1] = "modbus"

\* Wrong variant: several sources may share an installation without an identity.
validateMQTT_AnyDevice(c) ==
    c.mqtt =>
        /\ "mqtt" \in c.valid
        /\ c.discoveryStateFile => c.deviceID
        /\ c.meter => c.deviceID

validateMQTT(c) ==
    c.mqtt =>
        /\ "mqtt" \in c.valid
        /\ c.discoveryStateFile => c.deviceID
        /\ Len(c.sourcePriority) > 1 => c.deviceID
        /\ c.meter => c.deviceID

\* Wrong variant: the evidence log only needs modbus to be among the sources.
validateModbusExtras_Anywhere(c) ==
    /\ c.evidence => "modbus" \in Names(c.sourcePriority) /\ "log" \in c.valid
    /\ c.correlation =>
           /\ StartsWithModbus(c)
           /\ {"jinko", "solarman"} \subseteq Names(c.sourcePriority)
           /\ "homeassistant" \in c.valid

validateModbusExtras(c) ==
    /\ c.evidence => StartsWithModbus(c) /\ "log" \in c.valid
    /\ c.correlation =>
           /\ StartsWithModbus(c)
           /\ {"jinko", "solarman"} \subseteq Names(c.sourcePriority)
           /\ "homeassistant" \in c.valid

validateSourceConfig(c, s) == s \in KnownSources /\ s \in c.valid

validateSources(c) ==
    /\ \A i, j \in DOMAIN c.sourcePriority :
           c.sourcePriority[i] = c.sourcePriority[j] => i = j
    /\ \A s \in Names(c.sourcePriority) : validateSourceConfig(c, s)
    /\ Len(c.sourcePriority) > 1 /\ "modbus" \in Names(c.sourcePriority) => c.modbusSN

validate(c) ==
    /\ "server" \in c.valid
    /\ validateMQTT(c)
    /\ c.alerts # "off" => "alerts" \in c.valid
    /\ validateModbusExtras(c)
    /\ c.meter => "meter" \in c.valid
    /\ validateSources(c)

\* FromCLI returns Defaulted(c), or an error.
FromCLI(c) == c.source # "" /\ validate(Defaulted(c))

-----------------------------------------------------------------------------
(* What the constructors refuse once more, or on their own.                *)

\* buildAlerts: only NewSMTPNotifier parses the addresses.
buildAlertsRefuses(c) == c.alerts = "badAddress"

\* buildSingleSource: an unknown name, and all that modbus.New checks.
buildSourceRefuses(c, s) ==
    \/ s \notin KnownSources
    \/ s = "modbus" /\ "modbus" \notin c.valid

EnableModbusValidationEvidenceRefuses(c) ==
    \/ c.sourcePriority[1] # "modbus"
    \/ \E i \in 2 .. Len(c.sourcePriority) : c.sourcePriority[i] = "modbus"

\* NewHomeAssistantNotifier and ConfigureAlertCorrelation: each of the three
\* sources exactly once.
configureModbusAlertCorrelationRefuses(c) ==
    \/ "homeassistant" \notin c.valid
    \/ \E s \in KnownSources :
           ~ \E i \in DOMAIN c.sourcePriority :
               \A j \in DOMAIN c.sourcePriority : c.sourcePriority[j] = s <=> j = i

buildInverterSourceRefuses(c) ==
    \/ \E s \in Names(c.sourcePriority) : buildSourceRefuses(c, s)
    \/ c.evidence /\ EnableModbusValidationEvidenceRefuses(c)
    \/ c.correlation /\ configureModbusAlertCorrelationRefuses(c)

\* NewGridLoadClient, NewGridInputClient.
meterRefuses(c) == c.meter /\ "meter" \notin c.valid

\* NewPublisher, before it opens the manifest.
publisherRefuses(c) ==
    c.mqtt /\ \/ "mqtt" \notin c.valid
              \/ c.discoveryStateFile /\ (~c.deviceID \/ PrimarySource(c) = "")

\* priority.RunBackground keeps a token or runs the correlation worker.
hasMaintenance(c) == "jinko" \in Names(c.sourcePriority) \/ c.correlation

=============================================================================
