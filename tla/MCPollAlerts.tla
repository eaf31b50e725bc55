---------------------------- MODULE MCPollAlerts ----------------------------
(* Three installations that together use every rule, alone and two at a time, *)
(* with readings on and inside the edges of the thresholds and their bands.   *)
EXTENDS PollAlerts

MCSources == {"modbus", "jinko"}
MCObservers == <<"mqtt">>

Snapshot(source, words, volts, levels, degrees) ==
    [source |-> source, words |-> words, volts |-> volts, levels |-> levels, degrees |-> degrees]

Installation(grid, soc, temperature, notifyRecovery, snapshots) ==
    [grid |-> grid, soc |-> soc, temperature |-> temperature,
     notifyRecovery |-> notifyRecovery, snapshots |-> snapshots]

MCInstallations ==
    {Installation(0, 98, 0, TRUE,
        {Snapshot("modbus", {0, 1}, {}, {98, 100}, {}), Snapshot("modbus", {0}, {}, {99}, {}),
         Snapshot("jinko", {0}, {}, {100}, {})}),
     Installation(20, 0, 0, FALSE,
        {Snapshot("modbus", {1}, {20}, {}, {}), Snapshot("modbus", {0}, {20, 230}, {}, {}),
         Snapshot("jinko", {}, {}, {}, {})}),
     Installation(0, 0, 65, TRUE,
        {Snapshot("modbus", {}, {}, {}, {61}), Snapshot("modbus", {}, {}, {}, {60}),
         Snapshot("modbus", {}, {}, {}, {60, 65})})}
=============================================================================
