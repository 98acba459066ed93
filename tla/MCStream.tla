------------------------------ MODULE MCStream ------------------------------
EXTENDS AudioStream
=============================================================================
