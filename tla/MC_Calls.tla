------------------------------- MODULE MC_Calls -------------------------------
EXTENDS ClientCalls
=============================================================================
