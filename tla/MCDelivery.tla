---------------------------- MODULE MCDelivery ----------------------------
\* Model values for CollectorDelivery.
EXTENDS CollectorDelivery
CONSTANTS e1, e2
=============================================================================
