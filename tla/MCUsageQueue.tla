---------------------------- MODULE MCUsageQueue ----------------------------
(* Subscribers and changes of the configuration while the clock stands; a      *)
(* reader alone; the forwarder alone; both of them from the second unit on.    *)
EXTENDS UsageQueue

CONSTANTS s1, s2

MCInit ==
    \E mode \in {"subscribers", "reader", "forwarder", "both"} :
        /\ now = CASE mode = "subscribers" -> MaxTime
                   [] mode = "both" -> MaxTime - 1
                   [] OTHER -> 0
        /\ enabled = TRUE
        /\ queue = NoItems
        /\ subscribers = {}
        /\ channel = [s \in Subscribers |-> [buffer |-> <<>>, closed |-> FALSE]]
        /\ admin = [pc |-> "idle", closing |-> {}, changes |-> 0]
        /\ given = 0
        /\ enqueuer = [t \in Threads |-> NoPayload]
        /\ handler = [s \in Subscribers |->
                         [pc |-> IF mode = "subscribers" THEN "away" ELSE "gone",
                          from |-> 0, got |-> <<>>]]
        /\ poller = [pc |-> IF mode = "forwarder" THEN "off" ELSE "idle", clock |-> 0]
        /\ forwarder = [pc |-> IF mode \in {"forwarder", "both"} THEN "poll" ELSE "off",
                        batch |-> <<>>, clock |-> 0]
        /\ told = <<>>
        /\ taken = <<>>
        /\ home = {}

MCSpec == MCInit /\ [][QueueNext]_queueVars /\ QueueFairness
=============================================================================
