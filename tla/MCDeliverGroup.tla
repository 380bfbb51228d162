---------------------------- MODULE MCDeliverGroup ----------------------------
EXTENDS DeliverGroup
=============================================================================
