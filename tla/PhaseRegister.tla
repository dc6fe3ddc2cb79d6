---------------------------- MODULE PhaseRegister ----------------------------
(***************************************************************************)
(* What a project's phase file promises to the agent that works in the     *)
(* project: a register that holds the current phase and that moves along   *)
(* the SDD phase graph (signals/gates.py, _PHASE_GRAPH) in single steps.   *)
(***************************************************************************)
CONSTANTS
    Phase,          \* the phases a project can be in
    PhaseGraph      \* _PHASE_GRAPH: the successor of each phase that has one

VARIABLE phase

\* The exit gates of the current phase are met.
Advance ==
    /\ phase \in DOMAIN PhaseGraph
    /\ phase' = PhaseGraph[phase]

Spec == phase \in Phase /\ [][Advance]_phase
=============================================================================
