--------------------------- MODULE MCSubscription ---------------------------
\* Subscription on a small instance, for TLC.
EXTENDS Subscription
=============================================================================
