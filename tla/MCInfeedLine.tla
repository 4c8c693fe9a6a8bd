---------------------------- MODULE MCInfeedLine ----------------------------
(* Instances of InfeedLine for TLC: two speeds, the code's debouncing with *)
(* the 6 clear scans shortened to 3, a topic that holds 2 commands.        *)
EXTENDS InfeedLine

MCSpeeds == {0, 6}
=============================================================================
