--------------------------- MODULE MCWorkflowLease ---------------------------
EXTENDS WorkflowLease, TLC

CONSTANTS w1, w2, svc

MCProcesses == {w1, w2}
MCPrincipals == {svc}

\* Both workers authenticate as one service principal: lease_owner does not
\* tell them apart.
MCIdOf == [p \in MCProcesses |-> svc]
=============================================================================
