------------------------------- MODULE MCStore --------------------------------
(* Small instances of the store: two roots, one of them with an attenuated   *)
(* child and two budgets, four tools, two data sources.                      *)
EXTENDS Store, TLC

Key == <<"verifier-root-key">>

Mgr == MintRoot(Key, "mgr", {"READ", "WRITE"}, 10, 2, 8)
Ops == MintRoot(Key, "ops", {"READ", "WRITE"}, 10, 2, 8)
Parser == Attenuate(Mgr, [caps |-> {"WRITE"}, actor |-> "parser"])
Clerk == Attenuate(Mgr, [caps |-> {"READ", "WRITE"}, exp |-> 5, budget |-> 1, actor |-> "clerk"])

\* A token signed with another key, and one whose caveats were cut off.
Foreign == MintRoot(<<"another-key">>, "mgr", {"READ", "WRITE"}, 10, 9, 8)
Cut == [Clerk EXCEPT !.caveats = Tail(@)]

WriteTool == [name |-> "write_record", required_caps |-> {"WRITE"}, risk_floor |-> 2, est_cost |-> 1]
BulkTool == [name |-> "bulk_write", required_caps |-> {"WRITE"}, risk_floor |-> 0, est_cost |-> 2]
EnrichTool == [name |-> "enrich", required_caps |-> {"WRITE"}, risk_floor |-> 0, est_cost |-> 1]
ReadTool == [name |-> "read_record", required_caps |-> {"READ"}, risk_floor |-> 1, est_cost |-> 0]

\* The tier a manifest claims for itself; the authoritative resolver ignores it.
Cites(sources) == [i \in DOMAIN sources |-> [source_id |-> sources[i], tier |-> 3]]

PurposeReq(token, tool, purpose, sources, now) ==
  [token |-> token, tool |-> tool, declared_purpose |-> purpose,
   manifest |-> Cites(sources), now |-> now]

Req(token, tool, sources, now) == PurposeReq(token, tool, tool.required_caps, sources, now)

\* Calls that compete for one budget.
SpendRequests ==
  { Req(Parser, EnrichTool, <<>>, 1), Req(Mgr, BulkTool, <<>>, 1) }

\* With calls that depend on what has been vouched, and one that is refused anyway.
SharedRequests == SpendRequests \cup
  { Req(Parser, WriteTool, <<"db", "feed">>, 1), Req(Parser, EnrichTool, <<"feed">>, 10) }

\* A registered and an unregistered root.
MixedRequests ==
  { Req(Ops, EnrichTool, <<>>, 1), Req(Parser, EnrichTool, <<>>, 1) }

\* What one process meets: two roots, two budgets of one of them, lineages of
\* two sources and of none, and each reason for a refusal.
SingleRequests == MixedRequests \cup
  { Req(Mgr, WriteTool, <<"db", "feed">>, 1),
    Req(Clerk, EnrichTool, <<>>, 1),
    Req(Clerk, EnrichTool, <<>>, 5),
    Req(Parser, ReadTool, <<"db">>, 1),
    PurposeReq(Clerk, WriteTool, {"READ"}, <<"db">>, 1),
    PurposeReq(Mgr, ReadTool, {"READ", "WRITE"}, <<"feed">>, 1),
    Req(Foreign, WriteTool, <<"db">>, 1),
    Req(Cut, WriteTool, <<"db">>, 1) }

MCMints == {Mgr.identifier}
BothMints == {Mgr.identifier, Ops.identifier}

Lifts == {<<"db", 2>>, <<"feed", 2>>}
AnyVouch == {"db"} \X {0, 2} \cup {<<"feed", 3>>}

MCCeiling == [r \in {"mgr", "ops"} |-> 2]

Symmetric == Permutations(Procs)

\* What a holder may add to a token, each argument on its own and together,
\* the attempts to widen included; and what may be added a hop further down.
MCNarrowings ==
  [caps : {{}, {"WRITE"}, {"READ", "WRITE", "DELETE", "SPEND"}}]
  \cup [budget : {0, 1, 9}]
  \cup [exp : {1, 20}]
  \cup [caps : {{"READ", "WRITE", "DELETE"}}, budget : {9}, actor : {"leaf"}, holder : {"k"}]
=============================================================================
