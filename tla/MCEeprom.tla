------------------------------ MODULE MCEeprom ------------------------------
\* The gateway: the id is read by the mqtt thread, the radio settings by the
\* master's; the server's commands come in the mqtt thread, the console's in
\* the uart thread.
EXTENDS Eeprom

MCReader   == [r \in Records |-> IF r = "id" THEN "mqtt" ELSE "master"]
MCSavers   == {"mqtt", "uart"} \X Records
MCRestarts == {"mqtt", "uart"} \X {"id"}
MCValAt    == [r \in Records |-> IF r = "id" THEN 1 ELSE 3]
MCCrcAt    == [r \in Records |-> IF r = "id" THEN 2 ELSE 4]
=============================================================================
