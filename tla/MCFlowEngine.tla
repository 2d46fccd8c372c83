---------------------------- MODULE MCFlowEngine ----------------------------
EXTENDS FlowStatus, TLC

\* A flow with nothing to do; an api_call and an assertion on its response; and
\* an assertion that has a response only if one was given to the execution,
\* before a wait and a step of no known type.
MCDefinitions == {<<>>, <<"metadata", "api_call", "assertion">>,
                  <<"assertion", "wait", "unknown">>}

\* Times that leave the flow in time, that make it late, and that the alarm cuts.
MCDurations == {1, 2, 3}

\* The key is accepted and access is refused.
MCDirectResults == {<<2, 1>>}
=============================================================================
