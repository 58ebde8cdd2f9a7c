------------------------------ MODULE MCGateway -------------------------------
(* A root, an agent bound to key k1 that it delegated to, at an autonomy     *)
(* level or by hand, two tools and two nodes of one box.                     *)
EXTENDS Gateway

CONSTANTS top, a

Key == <<"verifier-root-key">>

Mgr == MintRoot(Key, "mgr", {"WRITE", "DELETE"}, 10, 3, 8)
Worker == attenuate_to_level(Mgr, "agent", Box!SUPERVISED, 1, "k1")
Agent == Attenuate(Mgr, [caps |-> {"WRITE", "DELETE"}, actor |-> "agent", holder |-> "k1"])
Foreign == MintRoot(<<"another-key">>, "mgr", {"WRITE"}, 10, 9, 8)

WriteTool == [name |-> "write_record", required_caps |-> {"WRITE"}, risk_floor |-> 2,
              est_cost |-> 1, reversible |-> TRUE]
DeleteTool == [name |-> "delete_record", required_caps |-> {"DELETE"}, risk_floor |-> 0,
               est_cost |-> 2, reversible |-> FALSE]

Req(token, tool) ==
  [token |-> token, tool |-> tool, declared_purpose |-> tool.required_caps,
   manifest |-> <<[source_id |-> "db", tier |-> 3]>>, now |-> 1]

Write == Req(Worker, WriteTool)
Delete == Req(Agent, DeleteTool)
Unbounded == Req(Mgr, DeleteTool)
Forged == Req(Foreign, WriteTool)

MCRequests == {Write, Delete, Unbounded, Forged}
MCCeiling == [r \in {"mgr"} |-> 3]
MCServing == {WriteTool}
MCTools == {WriteTool, DeleteTool}

By(req, signer, node, sampled) ==
  [req |-> req, payload |-> "row", signer |-> signer, node |-> node, sampled |-> sampled]

MCCalls ==
  { By(Write, signer, a, TRUE) : signer \in {"k1", "retries", None} }
  \cup { By(Write, "k1", None, FALSE), By(Delete, "k1", a, FALSE), By(Delete, "raises", top, FALSE),
         By(Unbounded, None, None, FALSE), By(Forged, None, None, FALSE) }

Svid(issuer, holder, not_after) == issue_svid(issuer, "mgr", holder, not_after)

\* The agent's row, and what a rotated key, a narrowed role and a shorter
\* validity put in its place.
Full == [svid |-> Svid("ca", "k1", None), caps |-> {"WRITE", "DELETE"}]
MCEnrollments ==
  { Full,
    [svid |-> Svid("ca", "k2", None), caps |-> {"WRITE", "DELETE"}],
    [svid |-> Svid("ca", "k1", None), caps |-> {"WRITE"}],
    [svid |-> Svid("ca", "k1", 1), caps |-> {"WRITE", "DELETE"}] }

MCInitialRows == {[r \in {"mgr"} |-> Full]}

MCVouches == {<<"db", 2>>}
MCBundles == {{}, {"ca"}}
MCNodes == {top, a}

\* The box of a trusted parent.
MCInit == Init /\ level[top] = Box!TRUSTED
MCSpec == MCInit /\ [][Next]_vars
=============================================================================
