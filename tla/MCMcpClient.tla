---------------------------- MODULE MCMcpClient ----------------------------
(* Small instances of McpClient; the configurations choose among them.       *)
EXTENDS McpClient

CONSTANTS tok, caller

MCStringTokens == {tok}
MCCallers == {caller}
None == {}
Yes == {TRUE}
Both == BOOLEAN

=============================================================================
