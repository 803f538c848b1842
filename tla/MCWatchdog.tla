---- MODULE MCWatchdog ----
(* An instance of Watchdog for TLC: the numbers of seconds are scaled      *)
(* down, and the setter lets "10" through.                                 *)
EXTENDS Watchdog
CONSTANTS t1, t2

Tasks == {t1, t2}
Selectables == Device \cup {10}
Loads == {1, 3, 6}
====
