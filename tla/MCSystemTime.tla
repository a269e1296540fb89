---------------------------- MODULE MCSystemTime ----------------------------
(* Two processors, a second of one timer period, one update of the RTC. *)
EXTENDS SystemTime

CONSTANTS c1, c2

MCCpus == {c1, c2}
MCTimerUs == {1}
=============================================================================
