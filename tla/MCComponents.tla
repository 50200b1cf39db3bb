---------------------------- MODULE MCComponents ----------------------------
EXTENDS Components

\* The transitions of configs/nuts.toml, with the one to abandoned that the
\* failover component asks for, and a way back.
Looping ==
    {<<"pending", "validating">>, <<"pending", "abandoned">>,
     <<"validating", "processing">>, <<"validating", "failed">>,
     <<"processing", "failover">>, <<"processing", "failed">>,
     <<"failover", "completed">>, <<"failover", "failed">>, <<"failed", "abandoned">>,
     <<"failover", "abandoned">>, <<"failover", "pending">>}

=============================================================================
