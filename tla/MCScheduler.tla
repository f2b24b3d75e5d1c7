---------------------------- MODULE MCScheduler ----------------------------
(* Three credentials. The first two have virtual parents of their own; the third    *)
(* joins a parent, stands above the others, or belongs to the second provider.      *)
EXTENDS Scheduler

At(p, k, parent, ws) == [provider |-> p, priority |-> k, parent |-> parent, ws |-> ws]

MCAttributes ==
    [a \in Auths |->
        CASE a = 1 -> {At(1, 0, 1, FALSE)}
          [] a = 2 -> {At(1, 0, 2, TRUE)}
          [] a = 3 -> {At(1, 0, 2, FALSE), At(1, 1, NoParent, FALSE), At(2, 0, NoParent, FALSE)}]

\* Three equal credentials
MCEqual == [a \in Auths |-> {At(1, 0, NoParent, FALSE)}]
============================================================================
