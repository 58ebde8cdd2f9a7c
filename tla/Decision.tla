------------------------------- MODULE Decision -------------------------------
(****************************************************************************)
(* The decision of agent_iam.authorize() as operators: the five checks in   *)
(* their order, the weakest-link tier of a lineage and the incident packet  *)
(* of a refusal.  AgentIAM drives them over in-memory state, Store over     *)
(* SQLite.                                                                  *)
(****************************************************************************)
EXTENDS Seam7, FiniteSetsExt

CONSTANTS
  RootSecret,   \* the verifier's key
  Roots,        \* the root principals of the tokens that are presented
  Sources,      \* the data sources that manifests name
  Requests,     \* the authorize() calls that are made
  Ceiling       \* [Roots -> Nat], a bound on the budget of any token of a root

TrustTier == 0..3
UNATTESTED == 0
HUMAN_VOUCHED == 3

(* What verify() makes of each call's token at that call's time. *)
Claims == [req \in Requests |-> Verify(req.token, RootSecret, req.now)]

ASSUME RequestAssumption ==
  \A req \in Requests :
    /\ req.tool.est_cost \in Nat
    /\ req.manifest \in Seq([source_id : Sources, tier : TrustTier])
    /\ Claims[req].ok => /\ Claims[req].accountable_root \in Roots
                         /\ Claims[req].budget \in Nat

ASSUME CeilingAssumption ==
  /\ Ceiling \in [Roots -> Nat]
  /\ \A req \in Requests :
       Claims[req].ok => Claims[req].budget <= Ceiling[Claims[req].accountable_root]

-----------------------------------------------------------------------------
(* Provenance: a lineage is worth its weakest link, an empty one nothing. *)

SourcesOf(manifest) == {manifest[i].source_id : i \in DOMAIN manifest}

WeakestLink(tiers) == IF tiers = {} THEN UNATTESTED ELSE Min(tiers)

MinTier(manifest, tierOf) == WeakestLink({tierOf[s] : s \in SourcesOf(manifest)})

-----------------------------------------------------------------------------
(* The five checks.  A name with an underscore is a wrong form of the        *)
(* definition that follows it, which the mutation runs put in its place.     *)

RoleCovers(req, claims) == req.tool.required_caps \subseteq claims.caps

PurposeGranted(req, claims) == req.declared_purpose \subseteq claims.caps

PurposeCovers(req) == req.tool.required_caps \subseteq req.declared_purpose

MeetsFloor_above(req, actual) == actual > req.tool.risk_floor
MeetsFloor(req, actual) == actual >= req.tool.risk_floor

\* without the cost of the call; with the budget that the root was minted with
WithinBudget_unpriced(req, claims, already) == already <= claims.budget
WithinBudget_minted(req, claims, already) ==
  already + req.tool.est_cost <= req.token.identifier.budget
WithinBudget(req, claims, already) == already + req.tool.est_cost <= claims.budget

\* the reason of a refused token in the place of the code
Screen_unnamed(req, claims, actual) == IF ~claims.ok THEN claims.error ELSE "ALLOW"

(* Checks 1 to 4, which read nothing but the request and the resolved tier;  *)
(* the first that fails decides.                                             *)
Screen(req, claims, actual) ==
  IF ~claims.ok THEN "IDENTITY"
  ELSE IF ~RoleCovers(req, claims) THEN "CAPABILITY"
  ELSE IF ~PurposeGranted(req, claims) \/ ~PurposeCovers(req) THEN "PURPOSE"
  ELSE IF ~MeetsFloor(req, actual) THEN "PROVENANCE"
  ELSE "ALLOW"

Decide(req, claims, actual, ledger) ==
  LET code == Screen(req, claims, actual) IN
  IF code # "ALLOW" THEN code
  ELSE IF WithinBudget(req, claims, ledger[claims.accountable_root]) THEN "ALLOW"
  ELSE "BUDGET"

AccessState(code) ==
  CASE code = "ALLOW"      -> "PERMIT"
    [] code = "PROVENANCE" -> "PENDING"
    [] OTHER               -> "DENY"

RootOf(req) == IF Claims[req].ok THEN Claims[req].accountable_root ELSE None
ActorOf(req) == IF Claims[req].ok THEN Claims[req].actor ELSE None

(* The incident of a refusal.  Its detail is kept as what the wording tells  *)
(* apart: why a token was refused, the capabilities a role lacks, which of   *)
(* the two purpose tests failed, the sources to vouch, and the sums that a   *)
(* BUDGET refusal quotes.  Equal packets are equal incident ids.             *)
TriagePacket(code, req, actual, quoted) ==
  [code |-> code, accountable_root |-> RootOf(req), actor |-> ActorOf(req),
   tool |-> req.tool.name, required_caps |-> req.tool.required_caps,
   required_tier |-> req.tool.risk_floor, actual_tier |-> actual,
   declared_purpose |-> req.declared_purpose, now |-> req.now,
   error   |-> IF code = "IDENTITY" THEN Claims[req].error ELSE "",
   missing |-> IF code = "CAPABILITY" THEN req.tool.required_caps \ Claims[req].caps ELSE {},
   drift   |-> code = "PURPOSE" /\ PurposeGranted(req, Claims[req]),
   sources |-> IF code = "PROVENANCE" THEN SourcesOf(req.manifest) ELSE {},
   sums    |-> IF code = "BUDGET" THEN <<quoted, req.tool.est_cost, Claims[req].budget>> ELSE <<>>]
=============================================================================
