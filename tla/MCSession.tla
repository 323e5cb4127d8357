------------------------------ MODULE MCSession ------------------------------
EXTENDS SessionClaims
=============================================================================
