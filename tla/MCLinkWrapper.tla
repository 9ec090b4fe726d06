---------------------------- MODULE MCLinkWrapper ----------------------------
EXTENDS LinkWrapper

\* Every combination of switches, with at most one required variable missing.
MCEnvironments ==
    {e \in EnvironmentType : \E v \in RequiredVars : RequiredVars \ {v} \subseteq e.vars}

MCFailureCodes == {1, 255}
MCSignals == {9, 11}
==============================================================================
