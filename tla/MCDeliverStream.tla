---------------------------- MODULE MCDeliverStream ----------------------------
EXTENDS DeliverStream
=============================================================================
