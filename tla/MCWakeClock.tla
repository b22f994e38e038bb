---------------------------- MODULE MCWakeClock ----------------------------
EXTENDS WakeClock
=============================================================================
