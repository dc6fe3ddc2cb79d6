-------------------------------- MODULE MCPacks --------------------------------
(* A domain skill in two revisions, the second with other fragments and with  *)
(* warnings; a system skill that has the first one's name, and is deprecated  *)
(* in its favour; and a file whose fragments are not contiguous.  Three packs *)
(* come with the package: `core', always on; `lang' and `web', which need     *)
(* each other, `web' needing `core' too, with vectors of another length.  A   *)
(* remote pack is not known here, though `lang' names it as a dependency.     *)
EXTENDS Packs

CONSTANTS s1, s2, n1, r1, r2, lang, web, core, remote

First == [id |-> s1, name |-> n1, rev |-> r1, type |-> "domain", seqs |-> {1, 2},
          deprecated |-> FALSE, supersededBy |-> None, wellFormed |-> TRUE, warnings |-> FALSE]
Revised == [First EXCEPT !.rev = r2, !.seqs = {2, 3}, !.warnings = TRUE]
Deprecated == [First EXCEPT !.id = s2, !.type = "system", !.seqs = {},
                            !.deprecated = TRUE, !.supersededBy = s1]
Gap == [First EXCEPT !.seqs = {1, 3}]

Reviews == {First, Revised, Deprecated, Gap}

Contents(reviews, deps) == [files |-> reviews, deps |-> deps, always |-> FALSE,
                          valid |-> TRUE, dim |-> TRUE]

Manifests == [p \in Pack |->
    CASE p = core   -> [Contents(<<First>>, <<>>) EXCEPT !.always = TRUE]
      [] p = lang  -> Contents(<<Gap, Deprecated>>, <<web, remote>>)
      [] p = web -> [Contents(<<Gap>>, <<core, lang>>) EXCEPT !.dim = FALSE]
      [] p = remote -> Contents(<<Revised, Gap>>, <<>>)]

Sorted == <<lang, web, core>>

Selections == {{}, {lang}, {core, remote}, {All}}
=============================================================================
