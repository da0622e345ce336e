-------------------------------- MODULE MCParts --------------------------------
(* Small instances of the parts, all in one run.                            *)
EXTENDS Parts, MCValues

CONSTANTS c1, al  \* a contact and an alias of Leads
=============================================================================
