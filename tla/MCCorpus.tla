------------------------------- MODULE MCCorpus -------------------------------
(* A skill in two revisions, the second with one fragment less; the passes   *)
(* that operators ask for.                                                   *)
EXTENDS Corpus

CONSTANTS s1, n1, r1, r2

First == [id |-> s1, name |-> n1, rev |-> r1, type |-> "domain", seqs |-> {1, 2},
          deprecated |-> FALSE, supersededBy |-> None, wellFormed |-> TRUE, warnings |-> FALSE]
Revised == [First EXCEPT !.rev = r2, !.seqs = {1}]

Reviews == {First, Revised}

Seeds == {First}

Plain == [scope |-> None, force |-> FALSE, limited |-> FALSE, dryRun |-> FALSE,
          rebuildFts |-> FALSE, noRestart |-> FALSE]

Commands == {Plain, [Plain EXCEPT !.force = TRUE],
             [Plain EXCEPT !.force = TRUE, !.dryRun = TRUE],
             [Plain EXCEPT !.scope = s1, !.force = TRUE, !.limited = TRUE,
                           !.rebuildFts = TRUE, !.noRestart = TRUE]}
=============================================================================
