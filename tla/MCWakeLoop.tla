------------------------------ MODULE MCWakeLoop ------------------------------
(* WakeLoop for TLC: the .cfg file gives the constants their values.           *)
EXTENDS WakeLoop
===============================================================================
