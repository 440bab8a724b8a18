---------------------------- MODULE MCTokenCache ----------------------------
\* TokenCache for TLC.  Time is in units of 15 seconds in TokenCache.cfg, of 5 seconds in
\* TokenHandshake.cfg.
EXTENDS TokenCache
=============================================================================
