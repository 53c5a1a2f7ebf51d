--------------------------- MODULE MCScreenSession ----------------------------
(* ScreenSession for TLC: the .cfg file gives the constants their values.      *)
EXTENDS ScreenSession
===============================================================================
