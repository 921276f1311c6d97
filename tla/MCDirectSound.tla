---------------------------- MODULE MCDirectSound ----------------------------
EXTENDS DirectSound

CONSTANT MaxPut

Supplied == \A ch \in Channels : put[ch] <= MaxPut
=============================================================================
