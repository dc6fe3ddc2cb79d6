-------------------------------- MODULE Phases --------------------------------
(* The phases of a project, and which one follows which.                       *)

\* _PHASE_GRAPH of signals/gates.py.
PhaseGraph == [spec |-> "design", design |-> "build", build |-> "qa",
               qa |-> "ship", ship |-> "ship"]

\* VALID_PHASES of install/subcommands/phase.py.
ValidPhases == {"spec", "design", "build", "qa", "ops", "meta", "governance"}

Phase == ValidPhases \cup {"ship"}
=============================================================================
