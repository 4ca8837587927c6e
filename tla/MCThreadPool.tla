----------------------------- MODULE MCThreadPool ----------------------------
(* Three workers and two clients race for three tasks, some of which the     *)
(* tasks post themselves; a batch is of at most two.                          *)
EXTENDS ThreadPool

CONSTANTS w1, w2, w3, c1, c2, t1, t2, t3

MCWorkers == {w1, w2, w3}
MCClients == {c1, c2}
MCTasks   == {t1, t2, t3}
=============================================================================
