-------------------------- MODULE MCTokenDeployments --------------------------
EXTENDS TokenDeployments

CONSTANTS usdc, wbtc, eth, e
=============================================================================
