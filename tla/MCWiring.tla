------------------------------- MODULE MCWiring -------------------------------
(* Wiring for TLC: one repository beside the home directory, one harness with *)
(* a file that both modes share and a second file in one of them, and one     *)
(* whose file moves with the mode.                                            *)
EXTENDS Wiring

CONSTANTS r1, home, none, u0, u1

MCRepo == {r1}
MCUserLine == {u0, u1}
MCHarness == {"opencode", "claude-code"}

=============================================================================
