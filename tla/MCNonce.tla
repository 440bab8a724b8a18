------------------------------ MODULE MCNonce ------------------------------
\* Nonce on a small instance, for TLC.
EXTENDS Nonce
=============================================================================
