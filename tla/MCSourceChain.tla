---------------------------- MODULE MCSourceChain ----------------------------
EXTENDS SourceChain

MCInstallations ==
    {[order |-> <<"modbus", "solarman">>, projects |-> TRUE, observes |-> TRUE,
      configured |-> "sn1", stationed |-> FALSE],
     [order |-> <<"modbus", "solarman">>, projects |-> TRUE, observes |-> FALSE,
      configured |-> "unknown", stationed |-> TRUE],
     [order |-> <<"solarman", "modbus">>, projects |-> TRUE, observes |-> FALSE,
      configured |-> "unknown", stationed |-> FALSE],
     [order |-> <<"solarman", "modbus">>, projects |-> FALSE, observes |-> FALSE,
      configured |-> "sn2", stationed |-> FALSE]}
=============================================================================
