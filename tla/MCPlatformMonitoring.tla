------------------------ MODULE MCPlatformMonitoring ------------------------
(* A small instance of PlatformMonitoring for TLC.                         *)
EXTENDS PlatformMonitoring

CONSTANTS v1, c1, c2

=============================================================================
