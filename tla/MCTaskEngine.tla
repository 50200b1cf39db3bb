---------------------------- MODULE MCTaskEngine ----------------------------
(***************************************************************************)
(* Small instances of TaskEngine for TLC.                                  *)
(*                                                                         *)
(* Small: four states, one retry, back to the initial state through a      *)
(* configured transition.  Shipped: the state machine of configs/nuts.toml *)
(* (self retries, failed -> abandoned) with max_retries cut to 1.          *)
(***************************************************************************)
EXTENDS TaskEngine, TLC

SmallStates == {"pending", "working", "done", "failed"}
SmallTerminals == <<"done", "failed">>
SmallTransitions ==
    {<<"pending", "working">>, <<"pending", "failed">>, <<"working", "done">>,
     <<"working", "failed">>, <<"working", "pending">>}
SmallAutoRetry == {"working"}
SmallRetryTo == [s \in SmallStates |-> "pending"]
SmallMaxRetries == [s \in SmallStates |-> IF s = "working" THEN 1 ELSE 0]

ShippedStates == {"pending", "validating", "processing", "failover",
                  "completed", "failed", "abandoned"}
ShippedTerminals == <<"completed", "failed", "abandoned">>
ShippedTransitions ==
    {<<"pending", "validating">>, <<"pending", "abandoned">>,
     <<"validating", "processing">>, <<"validating", "failed">>,
     <<"processing", "failover">>, <<"processing", "failed">>,
     <<"failover", "completed">>, <<"failover", "failed">>,
     <<"failed", "abandoned">>}
ShippedAutoRetry == {"validating", "processing"}
ShippedRetryTo ==
    [s \in ShippedStates |-> IF s \in ShippedAutoRetry THEN s ELSE "pending"]
ShippedMaxRetries ==
    [s \in ShippedStates |-> IF s \in ShippedAutoRetry THEN 1 ELSE 0]

Symmetry == Permutations(Tasks)
=============================================================================
