------------------------------ MODULE MCAuthoring ------------------------------
(* Two sources and two ids: the model names the drafts of one alike, those of *)
(* the other as it likes.                                                     *)
EXTENDS Authoring

CONSTANTS a, b, x, y

Names == [s \in Source |-> IF s = a THEN {x} ELSE {x, y}]

Ranks == [i \in Id |-> IF i = x THEN 1 ELSE 2]
=============================================================================
