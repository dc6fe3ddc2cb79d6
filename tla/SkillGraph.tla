------------------------------ MODULE SkillGraph ------------------------------
(***************************************************************************)
(* LadybugDB, the graph of skills: the nodes and edges that                *)
(* storage/schema_cypher.py declares, the statements with which _insert of *)
(* ingest.py writes them, and the reads of reads/active.py.  Every         *)
(* statement commits by itself: LadybugStore.execute opens no transaction. *)
(*                                                                         *)
(* The writers give a skill one version, `<id>-v1', with status 'active',  *)
(* and its fragments the ids `<id>-v1-f<sequence>', so a version is named  *)
(* by its skill and a fragment by its skill and its sequence number.       *)
(***************************************************************************)
EXTENDS Naturals

CONSTANTS
    Skill,      \* skill ids
    Name,       \* canonical names
    Sequence,   \* sequence numbers of fragments
    Revision,   \* what a skill's prose may say
    None        \* no node; no value

ASSUME GraphAssumption ==
    /\ None \notin Skill \cup Revision
    /\ Sequence \subseteq Nat
    /\ 1 \in Sequence
    /\ None \notin Sequence

Fragment == Skill \X Sequence

SkillNode == [name : Name, deprecated : BOOLEAN, supersededBy : Skill \cup {None}]

ASSUME NodeAssumption == None \notin SkillNode

VARIABLES
    skill,          \* skill[s]: the Skill node of s, or None
    version,        \* version[s]: the prose of the SkillVersion node of s, or None
    hasVersion,     \* the skills with a HAS_VERSION edge
    currentVersion, \* the skills with a CURRENT_VERSION edge
    fragment,       \* fragment[f]: the revision a Fragment node was made from, or None
    decomposes      \* the fragments with a DECOMPOSES_TO edge from their version

graphVars == <<skill, version, hasVersion, currentVersion, fragment, decomposes>>

GraphTypeOK ==
    /\ skill \in [Skill -> SkillNode \cup {None}]
    /\ version \in [Skill -> Revision \cup {None}]
    /\ hasVersion \subseteq Skill
    /\ currentVersion \subseteq Skill
    /\ fragment \in [Fragment -> Revision \cup {None}]
    /\ decomposes \subseteq Fragment

GraphInit ==
    /\ skill = [s \in Skill |-> None]
    /\ version = [s \in Skill |-> None]
    /\ hasVersion = {}
    /\ currentVersion = {}
    /\ fragment = [f \in Fragment |-> None]
    /\ decomposes = {}
-----------------------------------------------------------------------------
(* The statements of _insert. *)

\* OPTIONAL MATCH (s)-[:HAS_VERSION]->(v)-[:DECOMPOSES_TO]->(f): nodes that no
\* edge ties to the skill are not matched.
Matched(s) == IF s \in hasVersion THEN {f \in decomposes : f[1] = s} ELSE {}

\* Mutant: the fragments are left behind.
DeleteSkillNotFragments(s) ==
    /\ skill' = [skill EXCEPT ![s] = None]
    /\ version' = [version EXCEPT ![s] = IF s \in hasVersion THEN None ELSE version[s]]
    /\ hasVersion' = hasVersion \ {s}
    /\ currentVersion' = currentVersion \ {s}
    /\ decomposes' = decomposes \ Matched(s)
    /\ UNCHANGED fragment

\* DETACH DELETE s, v, f.
DeleteSkill(s) ==
    /\ skill' = [skill EXCEPT ![s] = None]
    /\ version' = [version EXCEPT ![s] = IF s \in hasVersion THEN None ELSE version[s]]
    /\ fragment' = [f \in Fragment |-> IF f \in Matched(s) THEN None ELSE fragment[f]]
    /\ hasVersion' = hasVersion \ {s}
    /\ currentVersion' = currentVersion \ {s}
    /\ decomposes' = decomposes \ Matched(s)

\* Mutant: MERGE for CREATE, of the skill.
MergeSkill(s, node) ==
    /\ skill' = [skill EXCEPT ![s] = node]
    /\ UNCHANGED <<version, hasVersion, currentVersion, fragment, decomposes>>

CreateSkill(s, node) ==
    /\ skill[s] = None
    /\ skill' = [skill EXCEPT ![s] = node]
    /\ UNCHANGED <<version, hasVersion, currentVersion, fragment, decomposes>>

\* Mutant: MERGE for CREATE.
MergeVersion(s, rev) ==
    /\ version' = [version EXCEPT ![s] = rev]
    /\ UNCHANGED <<skill, hasVersion, currentVersion, fragment, decomposes>>

CreateVersion(s, rev) ==
    /\ version[s] = None
    /\ version' = [version EXCEPT ![s] = rev]
    /\ UNCHANGED <<skill, hasVersion, currentVersion, fragment, decomposes>>

\* Mutant: the new version is not made the current one.
CreateHasVersionOnly(s) ==
    /\ hasVersion' = hasVersion \cup {s}
    /\ UNCHANGED <<skill, version, currentVersion, fragment, decomposes>>

\* One statement makes both edges, if it finds both nodes.
CreateVersionEdges(s) ==
    /\ IF skill[s] # None /\ version[s] # None
       THEN /\ hasVersion' = hasVersion \cup {s}
            /\ currentVersion' = currentVersion \cup {s}
       ELSE UNCHANGED <<hasVersion, currentVersion>>
    /\ UNCHANGED <<skill, version, fragment, decomposes>>

CreateFragment(f, rev) ==
    /\ fragment[f] = None
    /\ fragment' = [fragment EXCEPT ![f] = rev]
    /\ UNCHANGED <<skill, version, hasVersion, currentVersion, decomposes>>

CreateFragmentEdge(f) ==
    /\ decomposes' = IF version[f[1]] # None /\ fragment[f] # None
                     THEN decomposes \cup {f} ELSE decomposes
    /\ UNCHANGED <<skill, version, hasVersion, currentVersion, fragment>>
-----------------------------------------------------------------------------
(* The reads of reads/active.py. *)

\* A skill the service serves.
Active(s) == s \in currentVersion /\ ~skill[s].deprecated

\* get_active_fragments, and the discovery query of the re-embed pass.
ActiveFragments == {f \in decomposes : Active(f[1])}

\* What _run_consistency_guard looks for.  One such skill fails every read of
\* the corpus.
Inconsistent(s) == s \in hasVersion /\ s \notin currentVersion
=============================================================================
