-------------------------------- MODULE MCSpan --------------------------------
\* A triangle of services.
EXTENDS Span
CONSTANTS a, b, c
MCRouters == {a, b, c}
MCPeers == {p \in MCRouters \X MCRouters : p[1] # p[2]}
MCPort == (a :> 1 @@ b :> 2 @@ c :> 3)
=============================================================================
