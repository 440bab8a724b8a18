--------------------------- MODULE MCWsTradeConn ---------------------------
\* WsTradeConn on a small instance, for TLC.
EXTENDS WsTradeConn, TLC

Symmetry == Permutations(Calls)
=============================================================================
