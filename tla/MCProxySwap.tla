---------------------------- MODULE MCProxySwap -----------------------------
EXTENDS ProxySwap, TLC

MCSymmetry == Permutations(Requests)
=============================================================================
