------------------------------- MODULE AgentIAM -------------------------------
(****************************************************************************)
(* The policy decision point of agent_iam.py over its in-memory parts: one  *)
(* call of authorize() is one step.  It is the module's own machine, and    *)
(* the abstract specification that the SQLite-backed store is to implement  *)
(* ("satisfy the SAME interfaces", store.py).                               *)
(*                                                                          *)
(* The ledger is SpendLedger._spent.  `emitted` is what the TriageSink has   *)
(* been handed, as a set: a packet carries a digest of its own body, so the *)
(* same refusal twice is the same incident.  `tier` is what the provenance  *)
(* resolver answers for each source.                                        *)
(****************************************************************************)
EXTENDS Decision

VARIABLES
  tier,      \* [Sources -> TrustTier]: the authoritative resolver
  spent,     \* [Roots -> Nat]: SpendLedger
  emitted    \* the packets handed to the TriageSink

vars == <<tier, spent, emitted>>

-----------------------------------------------------------------------------
Init ==
  /\ tier = [s \in Sources |-> UNATTESTED]
  /\ spent = [r \in Roots |-> 0]
  /\ emitted = {}

\* (mutation runs) the ledger overwritten instead of increased
Allow_absolute(req) ==
  /\ Decide(req, Claims[req], MinTier(req.manifest, tier), spent) = "ALLOW"
  /\ spent' = [spent EXCEPT ![Claims[req].accountable_root] = req.tool.est_cost]
  /\ UNCHANGED <<tier, emitted>>
Allow(req) ==
  /\ Decide(req, Claims[req], MinTier(req.manifest, tier), spent) = "ALLOW"
  /\ spent' = [spent EXCEPT ![Claims[req].accountable_root] = @ + req.tool.est_cost]
  /\ UNCHANGED <<tier, emitted>>

Quoted(req, code) == IF code = "BUDGET" THEN spent[RootOf(req)] ELSE 0

DenyOrPend(req) ==
  LET actual == MinTier(req.manifest, tier)
      code   == Decide(req, Claims[req], actual, spent)
  IN  /\ code # "ALLOW"
      /\ emitted' = emitted \cup {TriagePacket(code, req, actual, Quoted(req, code))}
      /\ UNCHANGED <<tier, spent>>

Authorize(req) == Allow(req) \/ DenyOrPend(req)

Vouch(s, t) ==
  /\ tier' = [tier EXCEPT ![s] = t]
  /\ UNCHANGED <<spent, emitted>>

Next ==
  \/ \E req \in Requests : Authorize(req)
  \/ \E s \in Sources, t \in TrustTier : Vouch(s, t)

Spec == Init /\ [][Next]_vars

-----------------------------------------------------------------------------
(* Properties *)

(* The resolver answers a tier for every source, the ledger a natural number *)
(* for every root, and what reaches the sink is a refusal.                   *)
TypeOK ==
  /\ tier \in [Sources -> TrustTier]
  /\ spent \in [Roots -> Nat]
  /\ \A p \in emitted : p.code \in {"IDENTITY", "CAPABILITY", "PURPOSE", "PROVENANCE", "BUDGET"}

(* Vouching exactly the sources a PENDING call names, to exactly the floor   *)
(* it names, is enough for that call to get past the provenance check.       *)
VouchAnswers(req) ==
  LET lifted == [s \in Sources |->
                   IF s \in SourcesOf(req.manifest) THEN Max({tier[s], req.tool.risk_floor})
                   ELSE tier[s]]
  IN  AccessState(Decide(req, Claims[req], MinTier(req.manifest, tier), spent)) = "PENDING"
        => AccessState(Decide(req, Claims[req], MinTier(req.manifest, lifted), spent)) # "PENDING"

(* The prerequisite attached to a PENDING call that cites data is a true one.*)
(* (A call that cites none stays PENDING whatever is vouched.)               *)
PrerequisiteSuffices == \A req \in Requests : req.manifest # <<>> => VouchAnswers(req)
=============================================================================
