----------------------------- MODULE MCChaincodeTx -----------------------------
EXTENDS ChaincodeTx
=============================================================================
