----------------------------- MODULE MCDetective ------------------------------
(* Two calls of a root, one of them with a marked payload, and a refused one *)
(* of a caller that is nobody.                                               *)
EXTENDS Detective

Kind(root, tool, payload, decision, cost) ==
  [accountable_root |-> root, actor |-> root, tool |-> tool, payload |-> payload,
   decision |-> decision, cost |-> cost]

MCKinds ==
  { Kind("mgr", "write", "row", "EXECUTED", 1),
    Kind("mgr", "write", "marker", "EXECUTED", 2),
    Kind("nobody", "write", "row", "IDENTITY", 2) }

Row(ts) == Event(Kind("mgr", "write", "row", "EXECUTED", 1), ts)

\* A loop that has fired already.
MCEarlyLogs == { <<Row(0), Row(0)>> }
=============================================================================
