-------------------------------- MODULE MCTray --------------------------------
EXTENDS Tray
=============================================================================
