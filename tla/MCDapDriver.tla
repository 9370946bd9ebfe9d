----------------------------- MODULE MCDapDriver -----------------------------
(* Both drivers: two sessions of two commands on the HID driver, one of one *)
(* on the bulk driver.                                                      *)
EXTENDS DapDriver

CONSTANTS hid, bulk

MCDrivers == {hid, bulk}
MCOwn == [d \in MCDrivers |-> IF d = hid THEN 64 ELSE 512]
MCMaxSessions == [d \in MCDrivers |-> IF d = hid THEN 2 ELSE 1]
MCMaxCommands == [d \in MCDrivers |-> IF d = hid THEN 2 ELSE 1]

=============================================================================
