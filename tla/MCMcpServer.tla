----------------------------- MODULE MCMcpServer ------------------------------
(* Two servers on a file that does not exist yet; a call that is allowed or  *)
(* not, or fails, by what has been minted and vouched by then, and one whose *)
(* token no key of the server has signed; a difficulty that can be mined and *)
(* one that no digest reaches.                                               *)
EXTENDS McpServer

Key == <<"agentic-iam-mcp-dev-key">>

Mgr == MintRoot(Key, "mgr", {"READ", "WRITE"}, 10, 1, 8)

WriteTool == [name |-> "write_record", required_caps |-> {"WRITE"}, risk_floor |-> 2, est_cost |-> 1]

\* h_authorize() gives every source of the manifest the tier UNATTESTED.
Req(token, sources) ==
  [token |-> token, tool |-> WriteTool, declared_purpose |-> {"WRITE"},
   manifest |-> [i \in DOMAIN sources |-> [source_id |-> sources[i], tier |-> UNATTESTED]], now |-> 0]

Foreign == MintRoot(<<"another-key">>, "mgr", {"WRITE"}, 10, 9, 8)

MCRequests == { Req(Mgr, <<"db">>), Req(Foreign, <<>>) }
MCMints == { Mgr.identifier, [Mgr.identifier EXCEPT !.difficulty = 257] }
MCOtherMethods == { [method |-> "resources/list", id |-> id] : id \in {None, 1} }
MCVouches == {<<"db", 2>>}
MCCeiling == [r \in {"mgr"} |-> 1]
=============================================================================
