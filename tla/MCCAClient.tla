-------------------------------- MODULE MCCAClient --------------------------------
EXTENDS CAClient
====================================================================================
