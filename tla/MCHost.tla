-------------------------------- MODULE MCHost --------------------------------
(* A setup for each runner and each kind of service, on two ports. *)
EXTENDS Host

CONSTANTS p1, p2

MCRequest ==
    {[runner |-> "ollama", port |-> p1, mode |-> "persistent", deployment |-> "native"],
     [runner |-> "llama-server", port |-> p2, mode |-> "manual", deployment |-> "native"],
     [runner |-> "lm-studio", port |-> p1, mode |-> "persistent", deployment |-> "native"],
     [runner |-> "ollama", port |-> p1, mode |-> "persistent", deployment |-> "container"]}

\* None, or that of each runner which is not of setup's own making.
MCModels == {[r \in Runner |-> IF r = "llama-server" THEN "absent" ELSE m] :
                m \in {"absent", "whole"}}

\* The presets, and two customs: the models only; .env and the state only.
MCChoice == Presets \cup {{"models"}, {"env", "state"}}
=============================================================================
