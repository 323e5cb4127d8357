----------------------------- MODULE MCProbeHost -----------------------------
EXTENDS ProbeHost
=============================================================================
