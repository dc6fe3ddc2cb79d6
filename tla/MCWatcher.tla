------------------------------ MODULE MCWatcher ------------------------------
(* Two processes and two timers, which are alike. *)
EXTENDS Watcher, FiniteSets, TLC

CONSTANTS w1, w2, t1, t2

\* Two versions with one process, or one version with two.
Few == starts + Written + Cardinality({p \in Part : writer[p] # "none"}) <= 3

Alike == Permutations(Pid) \cup Permutations(Thread)
=============================================================================
