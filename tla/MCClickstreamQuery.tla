------------------------- MODULE MCClickstreamQuery -------------------------
(* ClickstreamQuery for TLC: with Gap = Duration = Delay = 2, a click at 1   *)
(* is on time after one at 3 and joins one at 0, one at 4 closes that        *)
(* session and window, and a click at 0 or 1 is then late.                   *)
EXTENDS ClickstreamQuery

MCClickTimes == {0, 1, 3, 4}
=============================================================================
