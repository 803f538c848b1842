---- MODULE MCI2cSlave ----
(* One bus; the constants are plain numbers.                               *)
EXTENDS I2cSlave
====
