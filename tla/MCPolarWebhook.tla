--------------------------- MODULE MCPolarWebhook ---------------------------
(* Events of one user, on which alone deliveries can interfere.             *)
EXTENDS PolarWebhook
=============================================================================
