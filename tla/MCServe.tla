------------------------------- MODULE MCServe -------------------------------
EXTENDS Serve

\* A reading: its state key, its kind, and what it means.
Reading(key, kind, meaning) == [key |-> key, kind |-> kind, meaning |-> meaning]

\* Two units of one power, one key with two alert meanings, and a meter whose
\* key an inverter also reports.
Watt     == Reading("power", "ordinary", "W")
Kilowatt == Reading("power", "ordinary", "kW")
Words    == Reading("fault", "alert", "words")
Code     == Reading("fault", "alert", "code")
GridLoad == Reading("grid", "meter", "W")
GridVolt == Reading("grid", "ordinary", "V")

MCReports ==
    [modbus   |-> {{Watt, Words}},
     jinko    |-> {{Kilowatt}, {Code}},
     solarman |-> {{Watt}},
     meter    |-> {{GridLoad}}]

MCSerial == [modbus |-> "m", jinko |-> "j", solarman |-> "s"]

AllValid == {"server", "log", "mqtt", "alerts", "homeassistant", "meter", "jinko", "solarman", "modbus"}

Single(source) ==
    [source |-> source, sourcePriority |-> <<>>, valid |-> AllValid, alerts |-> "off",
     mqtt |-> TRUE, deviceID |-> FALSE, discoveryStateFile |-> FALSE, evidence |-> FALSE,
     correlation |-> FALSE, meter |-> FALSE, modbusSN |-> TRUE]

\* What is started on an installation without an identity, with one, with a
\* manifest as well, and without MQTT.
Identified(c) == [c EXCEPT !.deviceID = TRUE]
Owned(c) == [c EXCEPT !.deviceID = TRUE, !.discoveryStateFile = TRUE]
Silent(c) == [c EXCEPT !.mqtt = FALSE, !.discoveryStateFile = TRUE]
Alerted(c) == [c EXCEPT !.alerts = "on"]
Priority(c, names) == [c EXCEPT !.sourcePriority = names]

MCConfigs ==
    LET one == Single("modbus")
        two == Priority(one, <<"modbus", "jinko">>)
        reversed == Priority(one, <<"jinko", "modbus">>)
        metered == [Single("solarman") EXCEPT !.meter = TRUE]
        three == Priority(one, <<"modbus", "jinko", "solarman">>)
        twice == Priority(one, <<"modbus", "modbus">>)
    IN  {one, two, metered} \cup {Identified(two)} \cup {Owned(Alerted(two)), Owned(metered)}
        \cup {Silent(c) : c \in {one, three, twice, Single("none"),
                  [three EXCEPT !.correlation = TRUE], [two EXCEPT !.correlation = TRUE],
                  [two EXCEPT !.evidence = TRUE], [reversed EXCEPT !.evidence = TRUE],
                  [one EXCEPT !.alerts = "badAddress"],
                  [two EXCEPT !.evidence = TRUE, !.valid = @ \ {"log"}]}}
==============================================================================
