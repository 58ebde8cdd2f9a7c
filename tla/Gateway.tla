------------------------------- MODULE Gateway --------------------------------
(****************************************************************************)
(* gateway.py: the enforcement point.  invoke() puts together what the      *)
(* other modules model: the SVID and the role grant of the caller's root    *)
(* (issuer.py, store.py), proof of possession (authn.py), the decision      *)
(* point (AgentIAM, one step here; its statements are Store's subject), the *)
(* verdict on the acting node (Containment) and at last the tool.  Every    *)
(* statement of the store may raise; invoke() catches none of that.         *)
(*                                                                          *)
(* One thread makes the calls and drives the containment manager.  Other    *)
(* processes enroll and vouch in the same database, between any two of the  *)
(* statements of an invoke().  Every root is in the mint ledger.            *)
(* A name with an underscore is a wrong form of the definition that follows *)
(* it, which the mutation runs put in its place.                            *)
(****************************************************************************)
EXTENDS Decision, TLC

CONSTANTS
  Tools, Serving,   \* the tools given to register(), and those registered at the start
  TrustBundles,     \* the sets of CA keys a gateway may be built with; an empty
                    \*   one means that no attestation is asked for
  Enrollments,      \* the attestation rows [svid, caps] given to enroll()
  InitialRows,      \* the tables of such rows that the gateway may find
  Calls,            \* the invoke() calls: [req, payload, signer, node, sampled]
  Vouches,          \* the <<source, tier>> pairs that are vouched
  MaxCalls,         \* bounds of the model: invoke() calls,
  MaxAdmin,         \*   and registrations, enrollments and vouches
  Nodes, Top, Names, ReuseNames, Faults, PROMOTE_AFTER, MaxOutcomes

ASSUME GatewayAssumption ==
  /\ Serving \subseteq Tools
  /\ \A c \in Calls : c.req \in Requests
  /\ \A e \in Enrollments : e.svid.spiffe_id \in Roots
  /\ InitialRows \subseteq [Roots -> Enrollments \cup {None}]
  /\ Vouches \subseteq Sources \X TrustTier
  /\ MaxCalls \in Nat /\ MaxAdmin \in Nat

VARIABLES
  tier, spent, emitted,           \* of AgentIAM
  authn,                          \* the other incidents in the sink: AUTHENTICATION
  attested,                       \* [Roots -> row or None]: identity_attestation
  trusted_issuers, tools,         \* of the gateway, with
  issued, event_log,              \*   _challenges_issued
  pc, call, code, proof,          \* invoke(): where it is, and its local variables
  proofs,                         \* what signers have signed so far
  rows,                           \* history: the rows in force since the call began
  ran,                            \* history: the runs of the callables
  lost,                           \* history: [Roots -> Nat], what was charged for calls
                                  \*   that an exception of the store ended
  used,                           \* how much of each bound has been used
  parent, children, id, level, alive, streak, good, demotions,
  running, reaping, outcomes      \* of Containment

IAM == INSTANCE AgentIAM
Box == INSTANCE Containment

ASSUME BoxAssumption == Box!ContainmentAssumption

pdp    == <<tier, spent, emitted>>
invoke == <<pc, call, code, proof, rows>>
shared == <<trusted_issuers, tools, used, attested>>
trace  == <<authn, issued, proofs, event_log, ran, lost>>
box    == <<parent, children, id, level, alive, streak, good, demotions, running, reaping, outcomes>>
vars   == <<pdp, invoke, shared, trace, box>>

-----------------------------------------------------------------------------
(* Signatures are symbolic: only the key's owner makes Sign(key, _). *)

Sign(key, msg) == [by |-> key, of |-> msg]

\* the signature checked, of whatever challenge
verify_pop_unfresh(key, challenge, prf) == prf # None /\ prf.by = key
verify_pop(key, challenge, prf) == prf = Sign(key, challenge)

svid_claim(s) == [spiffe_id |-> s.spiffe_id, holder |-> s.holder, not_after |-> s.not_after]

issue_svid(issuer, spiffe_id, holder, not_after) ==
  LET claim == [spiffe_id |-> spiffe_id, holder |-> holder, not_after |-> not_after]
  IN  claim @@ [issuer |-> issuer, sig |-> Sign(issuer, claim)]

verify_svid_undated(s, now) == s.sig = Sign(s.issuer, svid_claim(s))
verify_svid(s, now) ==
  /\ s.sig = Sign(s.issuer, svid_claim(s))
  /\ s.not_after # None => now < s.not_after

role_ceiling(root) == IF attested[root] = None THEN {} ELSE attested[root].caps

\* the counter forgotten: the same call has the same challenge
Challenge_stale(c, n) == [now |-> c.req.now, n |-> 0, sig |-> c.req.token.sig, tool |-> c.req.tool.name]
Challenge(c, n) == [now |-> c.req.now, n |-> n, sig |-> c.req.token.sig, tool |-> c.req.tool.name]

(* What a signer hands back: a signature of the challenge with its key, or,  *)
(* for a client that retries, one it made before or none at all.             *)
Answers(signer, challenge) ==
  IF signer = "retries" THEN proofs \cup {None} ELSE {Sign(signer, challenge)}

-----------------------------------------------------------------------------
(* attenuate_to_level(): the one operation of containment.py that is about   *)
(* tokens.  The token is narrowed to the level its node has now; a later     *)
(* demotion does not reach it.                                               *)

caps_ceiling(l) ==
  {"READ"} \cup (IF l >= Box!CONTAINED  THEN {"ENRICH"} ELSE {})
          \cup (IF l >= Box!SUPERVISED THEN {"WRITE"}  ELSE {})
          \cup (IF l >= Box!TRUSTED    THEN {"SPAWN"}  ELSE {})

ttl_seconds(l) ==
  CASE l = Box!SHADOW -> 60 [] l = Box!CONTAINED -> 120
    [] l = Box!SUPERVISED -> 600 [] l = Box!TRUSTED -> 3600

attenuate_to_level(parent_token, spiffe_id, l, now, holder) ==
  Attenuate(parent_token,
            [caps |-> caps_ceiling(l), exp |-> now + ttl_seconds(l), actor |-> spiffe_id]
              @@ IF holder = None THEN <<>> ELSE [holder |-> holder])

-----------------------------------------------------------------------------
claims0 == Claims[call.req]
root0 == claims0.accountable_root

AuthnPacket(c, detail) ==
  [accountable_root |-> RootOf(c.req), actor |-> ActorOf(c.req), tool |-> c.req.tool.name,
   detail |-> detail, now |-> c.req.now]

Event(c, decision, actual) ==
  [ts |-> c.req.now, accountable_root |-> RootOf(c.req), actor |-> ActorOf(c.req),
   tool |-> c.req.tool.name, purpose |-> c.req.declared_purpose, payload |-> c.payload,
   provenance_tier |-> actual, cost |-> c.req.tool.est_cost, decision |-> decision]

Init ==
  /\ IAM!Init /\ Box!Init
  /\ authn = {} /\ attested \in InitialRows
  /\ trusted_issuers \in TrustBundles /\ tools = Serving /\ issued = 0 /\ event_log = <<>>
  /\ pc = "idle" /\ call = None /\ code = "" /\ proof = None
  /\ proofs = {} /\ rows = {} /\ ran = <<>> /\ lost = [r \in Roots |-> 0]
  /\ used = [calls |-> 0, admin |-> 0]

Goto(step) == pc' = step /\ UNCHANGED <<call, rows>>

(* _log() and the return that follows it. *)
LogAs(result) == Goto("log") /\ code' = result

(* invoke() is over, by its return or by an exception. *)
Over == pc' = "idle" /\ call' = None /\ code' = "" /\ proof' = None /\ rows' = {}

(* A statement of the store raises and ends a call that had been charged.    *)
Losing ==
  /\ Over
  /\ lost' = [lost EXCEPT ![RootOf(call.req)] = @ + call.req.tool.est_cost]

-----------------------------------------------------------------------------
(* invoke() *)

UnknownTool(c) ==
  /\ \A t \in tools : t.name # c.req.tool.name
  /\ UNCHANGED invoke

AfterVerify(c) ==
  /\ c.req.tool \in tools
  /\ call' = c /\ proof' = None
  /\ rows' = IF Claims[c.req].ok THEN {attested[RootOf(c.req)]} ELSE {}
  /\ code' = IF Claims[c.req].ok THEN "" ELSE "IDENTITY"
  /\ pc' = IF ~Claims[c.req].ok THEN "log"
           ELSE IF trusted_issuers # {} THEN "svid" ELSE "pop"

Invoke(c) ==
  /\ pc = "idle" /\ reaping = <<>> /\ used.calls < MaxCalls
  /\ used' = [used EXCEPT !.calls = @ + 1]
  /\ UnknownTool(c) \/ AfterVerify(c)
  /\ UNCHANGED <<pdp, trusted_issuers, tools, attested, trace, box>>

Chronicled(detail) == authn \cup {AuthnPacket(call, detail)}

(* The incident, then the event.  When emit() raises there is no event, and  *)
(* the incident is there if it was the commit that failed.  (The wrong form  *)
(* goes on to the event whatever became of the incident.)                    *)
Reject_swallowed(result, detail) ==
  authn' \in {authn, Chronicled(detail)} /\ LogAs(result) /\ UNCHANGED proof
Reject(result, detail) ==
  \/ authn' = Chronicled(detail) /\ LogAs(result) /\ UNCHANGED proof
  \/ authn' \in {authn, Chronicled(detail)} /\ Over

HolderMatches(svid) == svid.holder = claims0.holder

Attests(row) ==
  row # None /\ row.svid.issuer \in trusted_issuers /\ verify_svid(row.svid, call.req.now)

ReadSvid ==
  /\ pc = "svid"
  /\ LET row == attested[root0] IN
     \/ ~Attests(row) /\ Reject("IDENTITY", "no valid SVID")
     \/ Attests(row) /\ ~HolderMatches(row.svid) /\ Reject("AUTHENTICATION", "holder")
     \/ Attests(row) /\ HolderMatches(row.svid) /\ Goto("role") /\ UNCHANGED <<authn, code, proof>>
     \/ Over /\ UNCHANGED authn
  /\ UNCHANGED <<pdp, shared, issued, proofs, event_log, ran, lost, box>>

(* A second SELECT: the row may have been replaced since. *)
ReadRole ==
  /\ pc = "role"
  /\ \/ claims0.caps \subseteq role_ceiling(root0) /\ Goto("pop") /\ UNCHANGED <<authn, code, proof>>
     \/ ~(claims0.caps \subseteq role_ceiling(root0)) /\ Reject("CAPABILITY", "role grant")
     \/ Over /\ UNCHANGED authn
  /\ UNCHANGED <<pdp, shared, issued, proofs, event_log, ran, lost, box>>

Unbound ==
  /\ claims0.holder = None
  /\ Goto("authorize") /\ UNCHANGED <<code, proof, authn, issued, proofs>>

Bearer ==
  /\ claims0.holder # None /\ call.signer = None
  /\ Reject("AUTHENTICATION", "no proof") /\ UNCHANGED <<issued, proofs>>

Present(prf, challenge) ==
  \/ /\ verify_pop(claims0.holder, challenge, prf)
     /\ proof' = prf /\ Goto("authorize") /\ UNCHANGED <<authn, code>>
  \/ /\ ~verify_pop(claims0.holder, challenge, prf)
     /\ Reject("AUTHENTICATION", "proof failed")

(* The signer is the caller's; when it raises, so does invoke(), unlogged.   *)
Prove ==
  LET challenge == Challenge(call, issued + 1) IN
  /\ claims0.holder # None /\ call.signer # None
  /\ issued' = issued + 1
  /\ \/ call.signer = "raises" /\ Over /\ UNCHANGED <<authn, proofs>>
     \/ /\ call.signer # "raises"
        /\ \E prf \in Answers(call.signer, challenge) :
             proofs' = (proofs \cup {prf}) \ {None} /\ Present(prf, challenge)

ProofOfPossession ==
  /\ pc = "pop"
  /\ Unbound \/ Bearer \/ Prove
  /\ UNCHANGED <<pdp, shared, event_log, ran, lost, box>>

LogCode(decided) == IF AccessState(decided) = "PENDING" THEN "PENDING" ELSE decided

(* Store.authorize() raises before the write of its decision, or after it.   *)
AuthorizeRaises(decided) ==
  \/ Over /\ UNCHANGED <<pdp, lost>>
  \/ IAM!Authorize(call.req) /\ decided = "ALLOW" /\ Losing
  \/ IAM!Authorize(call.req) /\ decided # "ALLOW" /\ Over /\ UNCHANGED lost

Authorize ==
  LET decided == Decide(call.req, claims0, MinTier(call.req.manifest, tier), spent) IN
  /\ pc = "authorize"
  /\ \/ /\ IAM!Authorize(call.req) /\ UNCHANGED <<proof, lost>>
        /\ \/ decided = "ALLOW" /\ Goto("act") /\ UNCHANGED code
           \/ decided # "ALLOW" /\ LogAs(LogCode(decided))
     \/ AuthorizeRaises(decided)
  /\ UNCHANGED <<shared, authn, issued, proofs, event_log, ran, box>>

verdict ==
  IF call.node = None THEN "execute"
  ELSE Box!verdict_for(call.node, call.req.tool.reversible, call.sampled)

\* a node in SHADOW runs as if it had passed
Withheld_dead == verdict = "deny"
Withheld == verdict \in {"deny", "observe_only"}

Withhold ==
  /\ Withheld
  /\ LogAs(IF verdict = "deny" THEN "CONTAINED_DENY" ELSE "SHADOWED")
  /\ UNCHANGED <<proof, ran>>

(* The callable returns or raises; an exception leaves invoke() unlogged. *)
Execute ==
  /\ ~Withheld
  /\ \E raised \in BOOLEAN :
       /\ ran' = Append(ran, [call |-> call, proof |-> proof, rows |-> rows, raised |-> raised,
                              level |-> IF call.node = None THEN None ELSE level[call.node]])
       /\ IF raised THEN Over ELSE LogAs("EXECUTED") /\ UNCHANGED proof

Act ==
  /\ pc = "act"
  /\ Withhold \/ Execute
  /\ UNCHANGED <<pdp, shared, authn, issued, proofs, event_log, lost, box>>

PaidFor == {"EXECUTED", "SHADOWED", "CONTAINED_DENY"}

(* The lineage is resolved once more, for the event alone; when that raises, *)
(* a tool may have run without one.                                          *)
LogRaises ==
  /\ UNCHANGED event_log
  /\ \/ code \in PaidFor /\ Losing
     \/ code \notin PaidFor /\ Over /\ UNCHANGED lost

Log ==
  /\ pc = "log"
  /\ \/ /\ event_log' = Append(event_log, Event(call, code, MinTier(call.req.manifest, tier)))
        /\ Over /\ UNCHANGED lost
     \/ LogRaises
  /\ UNCHANGED <<pdp, shared, authn, issued, proofs, ran, box>>

-----------------------------------------------------------------------------
(* Around invoke() *)

Administer == used.admin < MaxAdmin /\ used' = [used EXCEPT !.admin = @ + 1]

(* A tool registered again under its name replaces the one before. *)
Register(t) ==
  /\ pc = "idle" /\ Administer
  /\ tools' = {u \in tools : u.name # t.name} \cup {t}
  /\ UNCHANGED <<pdp, invoke, trusted_issuers, attested, trace, box>>

(* INSERT OR REPLACE, by any process. *)
Enroll(row) ==
  LET root == row.svid.spiffe_id IN
  /\ Administer
  /\ attested' = [attested EXCEPT ![root] = row]
  /\ rows' = IF pc # "idle" /\ RootOf(call.req) = root THEN rows \cup {row} ELSE rows
  /\ UNCHANGED <<pdp, pc, call, code, proof, trusted_issuers, tools, trace, box>>

Vouch(s, t) ==
  /\ Administer /\ IAM!Vouch(s, t)
  /\ UNCHANGED <<invoke, trusted_issuers, tools, attested, trace, box>>

Manage == pc = "idle" /\ Box!Next /\ UNCHANGED <<pdp, invoke, shared, trace>>

Next ==
  \/ \E c \in Calls : Invoke(c)
  \/ ReadSvid \/ ReadRole \/ ProofOfPossession \/ Authorize \/ Act \/ Log
  \/ \E t \in Tools : Register(t)
  \/ \E row \in Enrollments : Enroll(row)
  \/ \E v \in Vouches : Vouch(v[1], v[2])
  \/ Manage

Spec == Init /\ [][Next]_vars
-----------------------------------------------------------------------------
(* Properties *)

Results == {"EXECUTED", "SHADOWED", "CONTAINED_DENY", "PENDING", "IDENTITY",
            "AUTHENTICATION", "CAPABILITY", "PURPOSE", "BUDGET"}

(* The state of the gateway has its types; every logged decision is one of   *)
(* those that Result lists (gateway.py:42-43), UNKNOWN_TOOL, which is never  *)
(* logged, aside.                                                            *)
TypeOK ==
  /\ IAM!TypeOK /\ Box!TypeOK
  /\ \A p \in authn : p.accountable_root \in Roots
  /\ lost \in [Roots -> Nat]
  /\ attested \in [Roots -> Enrollments \cup {None}]
  /\ trusted_issuers \in TrustBundles /\ tools \subseteq Tools /\ issued \in Nat
  /\ \A i \in DOMAIN event_log :
       event_log[i].decision \in Results /\ event_log[i].provenance_tier \in TrustTier
  /\ pc \in {"idle", "svid", "role", "pop", "authorize", "act", "log"}
  /\ pc # "idle" => call \in Calls
  /\ pc \notin {"idle", "log"} => claims0.ok
  /\ pc = "log" => code \in Results
  /\ rows \subseteq Enrollments \cup {None}
  /\ used \in [calls : 0..MaxCalls, admin : 0..MaxAdmin]

Total(seq, cost(_)) == FoldLeft(LAMBDA sum, e : sum + cost(e), 0, seq)

LoggedCost(r) ==
  Total(event_log, LAMBDA e : IF e.decision \in PaidFor /\ e.accountable_root = r THEN e.cost ELSE 0)
RaisedCost(r) ==
  Total(ran, LAMBDA x : IF x.raised /\ RootOf(x.call.req) = r THEN x.call.req.tool.est_cost ELSE 0)
PendingCost(r) ==
  IF (pc = "act" \/ (pc = "log" /\ code \in PaidFor)) /\ RootOf(call.req) = r
  THEN call.req.tool.est_cost ELSE 0

(* What a root has spent is exactly what its executed, shadowed and withheld *)
(* calls, its raising tools and its calls that a locked store ended after    *)
(* their charge cost: a call that fails authentication or a check is free,   *)
(* and nothing runs for nothing.                                             *)
EveryChargeHasItsCall ==
  \A r \in Roots : spent[r] = LoggedCost(r) + RaisedCost(r) + lost[r] + PendingCost(r)

(* A tool ran for an attested principal: a row that was in force at some     *)
(* moment of the call bound the token's holder and had not expired, and one  *)
(* granted its capabilities, whatever was enrolled meanwhile.                *)
RunsAreAttested ==
  trusted_issuers # {} =>
    \A i \in DOMAIN ran :
      LET c == ran[i].call IN
      /\ \E row \in ran[i].rows \ {None} :
           /\ row.svid.issuer \in trusted_issuers
           /\ row.svid.sig = Sign(row.svid.issuer, svid_claim(row.svid))
           /\ row.svid.not_after = None \/ c.req.now < row.svid.not_after
           /\ row.svid.holder = Claims[c.req].holder
      /\ \E row \in ran[i].rows \ {None} : Claims[c.req].caps \subseteq row.caps

(* A holder-bound token runs a tool only on a proof made by its holder's key *)
(* for that token and tool.                                                  *)
BoundRunsAreProven ==
  \A i \in DOMAIN ran :
    LET c == ran[i].call IN
    Claims[c.req].holder # None =>
      /\ ran[i].proof.by = Claims[c.req].holder
      /\ ran[i].proof.of.sig = c.req.token.sig /\ ran[i].proof.of.tool = c.req.tool.name

(* "A replayed (challenge, proof) pair fails because every invoke() mints a  *)
(* new challenge": one proof never serves two runs.                          *)
ProofsServeOnce ==
  \A i, j \in DOMAIN ran : ran[i].proof # None /\ i # j => ran[i].proof # ran[j].proof

(* Nothing runs for a node that is reaped or whose box is, and a reversible  *)
(* tool runs for a spawned node only after that node earned its way out of   *)
(* SHADOW.                                                                   *)
RunsAreEarned ==
  [][ran' # ran /\ call.node # None =>
       /\ call.node \in alive
       /\ call.node # Top =>
            /\ parent[call.node] \in alive
            /\ call.req.tool.reversible => good[call.node] >= PROMOTE_AFTER]_vars

(* A refused principal leaves its incident in the chronicle before its event *)
(* reaches the log; only a token that does not verify leaves none.           *)
RefusalsHaveIncidents ==
  \A i \in DOMAIN event_log :
    LET e == event_log[i] IN
    e.decision \notin PaidFor /\ e.accountable_root # None =>
      \E p \in emitted \cup authn :
        p.accountable_root = e.accountable_root /\ p.actor = e.actor /\ p.tool = e.tool /\ p.now = e.ts

(* "SHADOW = 0  # watch only: actions are computed + audited, NOT executed"  *)
(* (containment.py:37).  False: an irreversible tool gets the verdict GATE,  *)
(* which invoke() takes as passed.                                           *)
ShadowNeverExecutes == \A i \in DOMAIN ran : ran[i].level # Box!SHADOW
=============================================================================
