---------------------------- MODULE MCBroadcaster ----------------------------
EXTENDS Broadcaster, TLC

CONSTANTS a, b, c1, c2, c3

MCMsgsOf == (c1 :> <<a>>) @@ (c2 :> <<a, b>>) @@ (c3 :> <<b>>)
=============================================================================
