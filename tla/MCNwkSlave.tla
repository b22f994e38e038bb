----------------------------- MODULE MCNwkSlave -----------------------------
(* Small instances of NwkSlave for TLC.                                    *)
EXTENDS NwkSlave
=============================================================================
