----------------------------- MODULE GatewayProofs -----------------------------
(****************************************************************************)
(* Theorems about Gateway, for any tools, tokens, rows and calls: what has  *)
(* run was proven and attested, no proof serves twice, what was refused has *)
(* its incident, and what was charged has its call.                         *)
(****************************************************************************)
EXTENDS Gateway, FoldProofs

-----------------------------------------------------------------------------
(* The invariant: what an invoke() has established at each of its steps, and *)
(* what the histories hold of the calls before.                              *)

IsSeq(s) == \E S : s \in Seq(S)

Typed ==
  /\ issued \in Nat
  /\ attested \in [Roots -> Enrollments \cup {None}]
  /\ IsSeq(ran) /\ IsSeq(event_log)

Proving == {"pop", "authorize", "act"}    \* no statement of the database is left
Cleared == {"authorize", "act"}           \* the proof has been accepted

(* The proof of a call is one made by its holder, of the n-th challenge.     *)
ProofOf(c, prf, n) ==
  IF Claims[c.req].holder = None THEN prf = None
  ELSE prf = Sign(Claims[c.req].holder, Challenge(c, n))

ProofsInv ==
  /\ pc \in {"svid", "role", "pop"} => proof = None
  /\ pc \in Cleared => ProofOf(call, proof, issued)
  /\ pc \in Cleared => \A i \in DOMAIN ran : proof # None => ran[i].proof # proof
  /\ \A i \in DOMAIN ran : \E n \in 0..issued : ProofOf(ran[i].call, ran[i].proof, n)
  /\ ProofsServeOnce

Binds(row, c) ==
  /\ row.svid.issuer \in trusted_issuers
  /\ row.svid.sig = Sign(row.svid.issuer, svid_claim(row.svid))
  /\ row.svid.not_after = None \/ c.req.now < row.svid.not_after
  /\ row.svid.holder = Claims[c.req].holder

BindingRow(c, seen) == \E row \in seen \ {None} : Binds(row, c)
GrantingRow(c, seen) == \E row \in seen \ {None} : Claims[c.req].caps \subseteq row.caps

RowsInv ==
  /\ pc \notin {"idle", "log"} => claims0.ok /\ attested[root0] \in rows
  /\ trusted_issuers # {} =>
       /\ pc = "role" \/ pc \in Proving => BindingRow(call, rows)
       /\ pc \in Proving => GrantingRow(call, rows)
       /\ \A i \in DOMAIN ran : BindingRow(ran[i].call, ran[i].rows)
                                /\ GrantingRow(ran[i].call, ran[i].rows)

IncidentOf(c, packets) ==
  \E p \in packets :
    /\ p.accountable_root = RootOf(c.req) /\ p.actor = ActorOf(c.req)
    /\ p.tool = c.req.tool.name /\ p.now = c.req.now

IncidentsInv ==
  /\ pc = "log" /\ code \notin PaidFor /\ RootOf(call.req) # None =>
       IncidentOf(call, emitted \cup authn)
  /\ RefusalsHaveIncidents

GatewayInv == Typed /\ ProofsInv /\ RowsInv /\ IncidentsInv

-----------------------------------------------------------------------------
LEMMA Appended ==
  ASSUME NEW s, IsSeq(s), NEW x
  PROVE  /\ IsSeq(Append(s, x))
         /\ Len(s) \in Nat /\ DOMAIN s = 1..Len(s)
         /\ DOMAIN Append(s, x) = 1..(Len(s) + 1)
         /\ Append(s, x)[Len(s) + 1] = x
         /\ \A i \in 1..Len(s) : Append(s, x)[i] = s[i]
<1>1. PICK S : s \in Seq(S)
  BY DEF IsSeq
<1>2. s \in Seq(S \cup {x})
  BY <1>1
<1>3. Append(s, x) \in Seq(S \cup {x})
  BY <1>2
<1> QED
  BY <1>2, <1>3 DEF IsSeq

LEMMA InitGateway == Init => GatewayInv
<1> SUFFICES ASSUME Init PROVE GatewayInv
  OBVIOUS
<1>1. attested \in [Roots -> Enrollments \cup {None}]
  BY GatewayAssumption DEF Init
<1>2. ran = <<>> /\ event_log = <<>> /\ issued = 0 /\ pc = "idle" /\ DOMAIN <<>> = {}
  <2>1. ran = <<>> /\ event_log = <<>> /\ issued = 0 /\ pc = "idle"
    BY DEF Init
  <2>2. DOMAIN <<>> = {}
    BY EmptySeq
  <2> QED
    BY <2>1, <2>2
<1>3. IsSeq(<<>>)
  BY EmptySeq DEF IsSeq
<1>4. Typed
  BY <1>1, <1>2, <1>3 DEF Typed
<1>5. ProofsInv /\ RowsInv /\ IncidentsInv
  BY <1>2 DEF ProofsInv, ProofsServeOnce, RowsInv, IncidentsInv, RefusalsHaveIncidents,
              Proving, Cleared
<1> QED
  BY <1>4, <1>5 DEF GatewayInv

-----------------------------------------------------------------------------
(* The instance of AgentIAM spells the decision out again. *)

LEMMA SameDecision ==
  ASSUME NEW req, NEW claims, NEW actual, NEW ledger
  PROVE  IAM!Decide(req, claims, actual, ledger) = Decide(req, claims, actual, ledger)
<1>1. IAM!Screen(req, claims, actual) = Screen(req, claims, actual)
  BY DEF IAM!Screen, Screen, IAM!RoleCovers, RoleCovers, IAM!PurposeGranted, PurposeGranted,
         IAM!PurposeCovers, PurposeCovers, IAM!MeetsFloor, MeetsFloor
<1> QED
  BY <1>1 DEF IAM!Decide, Decide, IAM!WithinBudget, WithinBudget

LEMMA SameTier ==
  ASSUME NEW manifest, NEW tierOf
  PROVE  IAM!MinTier(manifest, tierOf) = MinTier(manifest, tierOf)
<1>1. IAM!SourcesOf(manifest) = SourcesOf(manifest)
  BY DEF IAM!SourcesOf, SourcesOf
<1>2. ASSUME NEW S PROVE IAM!WeakestLink(S) = WeakestLink(S)
  BY DEF IAM!WeakestLink, WeakestLink, IAM!UNATTESTED, UNATTESTED, IAM!Min, Min
<1> QED
  BY <1>1, <1>2 DEF IAM!MinTier, MinTier

LEMMA SameClaims == IAM!Claims = Claims
BY DEF IAM!Claims, Claims, IAM!Verify, Verify, IAM!FoldLeft, FoldLeft,
       IAM!MapThenFoldSet, MapThenFoldSet, IAM!Max, Max, IAM!Narrow, Narrow,
       IAM!Least, Least, IAM!Hmac, Hmac, IAM!RootClaims, RootClaims,
       IAM!PowValid, PowValid, IAM!Refuse, Refuse, IAM!KnownCaveats, KnownCaveats

-----------------------------------------------------------------------------
(* The steps *)

(* What the properties speak of does not change. *)
Still == UNCHANGED <<trusted_issuers, attested, issued, ran, event_log>>

LEMMA QuietStep ==
  ASSUME GatewayInv, UNCHANGED <<pc, call, code, proof, rows, authn, emitted>>, Still
  PROVE  GatewayInv'
<1>1. Typed'
  BY DEF GatewayInv, Typed, IsSeq, Still
<1>2. ProofsInv'
  BY DEF GatewayInv, ProofsInv, ProofsServeOnce, ProofOf, Still
<1>3. RowsInv'
  <2>1. claims0' = claims0 /\ root0' = root0
    BY DEF claims0, root0
  <2> QED
    BY <2>1 DEF GatewayInv, RowsInv, BindingRow, GrantingRow, Binds, Still
<1>4. IncidentsInv'
  BY DEF GatewayInv, IncidentsInv, RefusalsHaveIncidents, IncidentOf, Still
<1> QED
  BY <1>1, <1>2, <1>3, <1>4 DEF GatewayInv

LEMMA StillTyped ==
  ASSUME GatewayInv, Still
  PROVE  Typed'
BY DEF GatewayInv, Typed, IsSeq, Still

(* The history of the runs, when neither it nor the proofs change.           *)
LEMMA StillProven ==
  ASSUME GatewayInv, Still,
         (pc \in {"svid", "role", "pop"} => proof = None)',
         (pc \in Cleared => ProofOf(call, proof, issued))',
         (pc \in Cleared => \A i \in DOMAIN ran : proof # None => ran[i].proof # proof)'
  PROVE  ProofsInv'
<1>1. \A i \in DOMAIN ran : \E n \in 0..issued : ProofOf(ran[i].call, ran[i].proof, n)
  BY DEF GatewayInv, ProofsInv
<1>2. (\A i \in DOMAIN ran : \E n \in 0..issued : ProofOf(ran[i].call, ran[i].proof, n))'
  BY <1>1 DEF Still, ProofOf
<1>3. ProofsServeOnce'
  BY DEF GatewayInv, ProofsInv, ProofsServeOnce, Still
<1> QED
  BY <1>2, <1>3 DEF ProofsInv

LEMMA StillAttested ==
  ASSUME GatewayInv, UNCHANGED <<trusted_issuers, ran>>,
         (pc \notin {"idle", "log"} => claims0.ok /\ attested[root0] \in rows)',
         trusted_issuers # {} =>
           /\ (pc = "role" \/ pc \in Proving => BindingRow(call, rows))'
           /\ (pc \in Proving => GrantingRow(call, rows))'
  PROVE  RowsInv'
BY DEF GatewayInv, RowsInv, BindingRow, GrantingRow, Binds

LEMMA StillChronicled ==
  ASSUME GatewayInv, UNCHANGED event_log, authn \subseteq authn', emitted \subseteq emitted',
         (pc = "log" /\ code \notin PaidFor /\ RootOf(call.req) # None =>
            IncidentOf(call, emitted \cup authn))'
  PROVE  IncidentsInv'
<1>1. RefusalsHaveIncidents
  BY DEF GatewayInv, IncidentsInv
<1>2. RefusalsHaveIncidents'
  BY <1>1 DEF RefusalsHaveIncidents
<1> QED
  BY <1>2 DEF IncidentsInv

(* A call that raises out of invoke() leaves nothing but the histories.      *)
LEMMA OverStep ==
  ASSUME GatewayInv, Over, Typed', ProofsInv', UNCHANGED <<trusted_issuers, ran, event_log>>,
         authn \subseteq authn', emitted \subseteq emitted'
  PROVE  GatewayInv'
<1>1. pc' = "idle"
  BY DEF Over
<1>2. RowsInv' /\ IncidentsInv'
  BY <1>1, StillAttested, StillChronicled DEF Proving
<1> QED
  BY <1>2 DEF GatewayInv

(* A statement of the store raises, and may have chronicled its incident.    *)
LEMMA RaisesStep ==
  ASSUME GatewayInv, Over, Still, authn \subseteq authn', emitted \subseteq emitted'
  PROVE  GatewayInv'
<1>1. pc' = "idle"
  BY DEF Over
<1>2. ProofsInv'
  BY <1>1, StillProven DEF Cleared
<1> QED
  BY <1>2, OverStep, StillTyped DEF Still

LEMMA InvokeStep ==
  ASSUME GatewayInv, NEW c \in Calls, Invoke(c)
  PROVE  GatewayInv'
<1>1. Still /\ UNCHANGED <<authn, emitted>>
  BY DEF Invoke, shared, trace, pdp, Still
<1>2. CASE UnknownTool(c)
  BY <1>1, <1>2, QuietStep DEF UnknownTool, invoke
<1>3. CASE AfterVerify(c)
  <2>1. call' = c /\ proof' = None /\ pc' \in {"log", "svid", "pop"}
        /\ (pc' # "log" => Claims[c.req].ok /\ rows' = {attested[RootOf(c.req)]})
        /\ (pc' = "log" => ~Claims[c.req].ok)
        /\ (pc' = "pop" => trusted_issuers = {})
    BY <1>3 DEF AfterVerify
  <2>2. pc' # "log" => root0' = RootOf(c.req)
    BY <2>1 DEF root0, claims0, RootOf
  <2>3. ProofsInv'
    BY <1>1, <2>1, StillProven DEF Cleared
  <2>4. (pc \notin {"idle", "log"} => claims0.ok /\ attested[root0] \in rows)'
    BY <1>1, <2>1, <2>2 DEF claims0, Still
  <2>5. RowsInv'
    BY <1>1, <2>1, <2>4, StillAttested DEF Proving, Still
  <2>6. pc' = "log" => (RootOf(call.req) = None)'
    BY <2>1 DEF RootOf
  <2>7. IncidentsInv'
    BY <1>1, <2>6, StillChronicled DEF Still
  <2> QED
    BY <1>1, <2>3, <2>5, <2>7, StillTyped DEF GatewayInv
<1> QED
  BY <1>2, <1>3 DEF Invoke

(* A refused call goes to the log when it has chronicled its refusal.        *)
LEMMA RejectStep ==
  ASSUME GatewayInv, NEW result, NEW detail, Reject(result, detail),
         UNCHANGED <<trusted_issuers, attested, ran, event_log, emitted>>,
         issued' \in Nat, issued <= issued'
  PROVE  GatewayInv'
<1>1. Typed'
  BY DEF GatewayInv, Typed, IsSeq
<1>2. authn \subseteq authn' /\ pc' \in {"log", "idle"}
  BY DEF Reject, Chronicled, LogAs, Goto, Over
<1>3. ProofsInv'
  <2>1. \A i \in DOMAIN ran : \E n \in 0..issued' : ProofOf(ran[i].call, ran[i].proof, n)
    BY DEF GatewayInv, ProofsInv, Typed
  <2>2. (\A i \in DOMAIN ran : \E n \in 0..issued : ProofOf(ran[i].call, ran[i].proof, n))'
    BY <2>1 DEF ProofOf
  <2>3. ProofsServeOnce'
    BY DEF GatewayInv, ProofsInv, ProofsServeOnce
  <2> QED
    BY <1>2, <2>2, <2>3 DEF ProofsInv, Cleared
<1>4. CASE Over
  BY <1>1, <1>2, <1>3, <1>4, OverStep
<1>5. CASE authn' = Chronicled(detail) /\ LogAs(result) /\ UNCHANGED proof
  <2>1. pc' = "log" /\ UNCHANGED <<call, rows>>
    BY <1>5 DEF LogAs, Goto
  <2>2. RowsInv'
    BY <2>1, StillAttested DEF Proving
  <2>3. LET p == AuthnPacket(call, detail) IN
        /\ p.accountable_root = RootOf(call.req) /\ p.actor = ActorOf(call.req)
        /\ p.tool = call.req.tool.name /\ p.now = call.req.now
    BY DEF AuthnPacket
  <2>4. AuthnPacket(call, detail) \in authn'
    BY <1>5 DEF Chronicled
  <2>5. IncidentOf(call, emitted \cup authn)'
    BY <2>1, <2>3, <2>4 DEF IncidentOf
  <2>6. IncidentsInv'
    BY <1>2, <2>5, StillChronicled
  <2> QED
    BY <1>1, <1>3, <2>2, <2>6 DEF GatewayInv
<1> QED
  BY <1>4, <1>5 DEF Reject

LEMMA ReadSvidStep ==
  ASSUME GatewayInv, ReadSvid
  PROVE  GatewayInv'
<1> DEFINE row == attested[root0]
<1>1. Still /\ UNCHANGED emitted /\ pc = "svid" /\ issued \in Nat
  BY DEF ReadSvid, shared, pdp, Still, GatewayInv, Typed
<1>2. CASE \E result, detail : Reject(result, detail)
  BY <1>1, <1>2, RejectStep DEF Still
<1>3. CASE Attests(row) /\ HolderMatches(row.svid) /\ Goto("role")
           /\ UNCHANGED <<authn, code, proof>>
  <2>1. pc' = "role" /\ UNCHANGED <<call, rows, proof, authn>>
    BY <1>3 DEF Goto
  <2>2. claims0.ok /\ row \in rows /\ proof = None
    BY <1>1 DEF GatewayInv, RowsInv, ProofsInv
  <2>3. row # None /\ Binds(row, call)
    BY <1>3 DEF Attests, HolderMatches, Binds, verify_svid, claims0
  <2>4. BindingRow(call, rows)
    BY <2>2, <2>3 DEF BindingRow
  <2>5. ProofsInv'
    BY <1>1, <2>1, <2>2, StillProven DEF Cleared
  <2>6. (claims0.ok /\ attested[root0] \in rows)'
    BY <1>1, <2>1, <2>2 DEF claims0, root0, Still
  <2>7. BindingRow(call, rows)'
    BY <1>1, <2>1, <2>4 DEF BindingRow, Binds, Still
  <2>8. RowsInv'
    BY <1>1, <2>1, <2>6, <2>7, StillAttested DEF Proving, Still
  <2>9. IncidentsInv'
    BY <1>1, <2>1, StillChronicled DEF Still
  <2> QED
    BY <1>1, <2>5, <2>8, <2>9, StillTyped DEF GatewayInv
<1>4. CASE Over /\ UNCHANGED authn
  BY <1>1, <1>4, RaisesStep
<1> QED
  BY <1>2, <1>3, <1>4 DEF ReadSvid

LEMMA ReadRoleStep ==
  ASSUME GatewayInv, ReadRole
  PROVE  GatewayInv'
<1>1. Still /\ UNCHANGED emitted /\ pc = "role" /\ issued \in Nat
  BY DEF ReadRole, shared, pdp, Still, GatewayInv, Typed
<1>2. CASE \E result, detail : Reject(result, detail)
  BY <1>1, <1>2, RejectStep DEF Still
<1>3. CASE claims0.caps \subseteq role_ceiling(root0) /\ Goto("pop")
           /\ UNCHANGED <<authn, code, proof>>
  <2>1. pc' = "pop" /\ UNCHANGED <<call, rows, proof, authn>>
    BY <1>3 DEF Goto
  <2>2. /\ claims0.ok /\ attested[root0] \in rows /\ proof = None
        /\ trusted_issuers # {} => BindingRow(call, rows)
    BY <1>1 DEF GatewayInv, RowsInv, ProofsInv
  <2>3. trusted_issuers # {} => GrantingRow(call, rows)
    BY <1>3, <2>2 DEF role_ceiling, BindingRow, GrantingRow, claims0
  <2>4. ProofsInv'
    BY <1>1, <2>1, <2>2, StillProven DEF Cleared
  <2>5. (claims0.ok /\ attested[root0] \in rows)'
    BY <1>1, <2>1, <2>2 DEF claims0, root0, Still
  <2>6. trusted_issuers # {} => BindingRow(call, rows)' /\ GrantingRow(call, rows)'
    BY <1>1, <2>1, <2>2, <2>3 DEF BindingRow, GrantingRow, Binds, Still
  <2>7. RowsInv'
    BY <1>1, <2>1, <2>5, <2>6, StillAttested DEF Still
  <2>8. IncidentsInv'
    BY <1>1, <2>1, StillChronicled DEF Still
  <2> QED
    BY <1>1, <2>4, <2>7, <2>8, StillTyped DEF GatewayInv
<1>4. CASE Over /\ UNCHANGED authn
  BY <1>1, <1>4, RaisesStep
<1> QED
  BY <1>2, <1>3, <1>4 DEF ReadRole

(* A call whose proof is accepted, or needs none, goes on to authorize().    *)
LEMMA ClearStep ==
  ASSUME GatewayInv, pc = "pop", Goto("authorize"),
         UNCHANGED <<trusted_issuers, attested, ran, event_log, authn, emitted>>,
         issued' \in Nat, issued <= issued', ProofOf(call, proof', issued'),
         \A i \in DOMAIN ran : proof' # None => ran[i].proof # proof'
  PROVE  GatewayInv'
<1>1. pc' = "authorize" /\ UNCHANGED <<call, rows>>
  BY DEF Goto
<1>2. Typed'
  BY DEF GatewayInv, Typed, IsSeq
<1>3. ProofsInv'
  <2>1. \A i \in DOMAIN ran : \E n \in 0..issued' : ProofOf(ran[i].call, ran[i].proof, n)
    BY DEF GatewayInv, ProofsInv, Typed
  <2>2. (\A i \in DOMAIN ran : \E n \in 0..issued : ProofOf(ran[i].call, ran[i].proof, n))'
    BY <2>1 DEF ProofOf
  <2>3. ProofsServeOnce'
    BY DEF GatewayInv, ProofsInv, ProofsServeOnce
  <2>4. ProofOf(call, proof, issued)'
    BY <1>1 DEF ProofOf
  <2> QED
    BY <1>1, <2>2, <2>3, <2>4 DEF ProofsInv, Cleared
<1>4. RowsInv'
  <2>1. /\ claims0.ok /\ attested[root0] \in rows
        /\ trusted_issuers # {} => BindingRow(call, rows) /\ GrantingRow(call, rows)
    BY DEF GatewayInv, RowsInv, Proving
  <2>2. (claims0.ok /\ attested[root0] \in rows)'
    BY <1>1, <2>1 DEF claims0, root0
  <2>3. trusted_issuers # {} => BindingRow(call, rows)' /\ GrantingRow(call, rows)'
    BY <1>1, <2>1 DEF BindingRow, GrantingRow, Binds
  <2> QED
    BY <1>1, <2>2, <2>3, StillAttested
<1>5. IncidentsInv'
  BY <1>1, StillChronicled
<1> QED
  BY <1>2, <1>3, <1>4, <1>5 DEF GatewayInv

(* Challenges are numbered, so a proof of a new one is none made before.     *)
LEMMA NewChallenge ==
  ASSUME GatewayInv, NEW c, NEW prf, ProofOf(c, prf, issued + 1), NEW i \in DOMAIN ran, prf # None
  PROVE  ran[i].proof # prf
<1>1. issued \in Nat
  BY DEF GatewayInv, Typed
<1>2. prf.of.n = issued + 1
  BY DEF ProofOf, Sign, Challenge
<1>3. PICK n \in 0..issued : ProofOf(ran[i].call, ran[i].proof, n)
  BY DEF GatewayInv, ProofsInv
<1>4. ran[i].proof = None \/ ran[i].proof.of.n = n
  BY <1>3 DEF ProofOf, Sign, Challenge
<1>5. n # issued + 1
  BY <1>1
<1> QED
  BY <1>2, <1>4, <1>5

LEMMA ProofOfPossessionStep ==
  ASSUME GatewayInv, ProofOfPossession
  PROVE  GatewayInv'
<1>1. UNCHANGED <<trusted_issuers, attested, ran, event_log, emitted>> /\ pc = "pop"
      /\ issued \in Nat /\ proof = None
  BY DEF ProofOfPossession, shared, pdp, GatewayInv, Typed, ProofsInv
<1>2. CASE Unbound
  <2>1. ProofOf(call, proof', issued')
    BY <1>1, <1>2 DEF Unbound, ProofOf, claims0
  <2> QED
    BY <1>1, <1>2, <2>1, ClearStep DEF Unbound
<1>3. CASE Bearer
  <2>1. issued' = issued
    BY <1>3 DEF Bearer
  <2>2. issued \in Nat /\ issued <= issued
    BY <1>1
  <2>3. Reject("AUTHENTICATION", "no proof")
    BY <1>3 DEF Bearer
  <2> QED
    BY <1>1, <2>1, <2>2, <2>3, RejectStep
<1>4. CASE Prove
  <2> DEFINE challenge == Challenge(call, issued + 1)
  <2>1. issued' = issued + 1 /\ issued' \in Nat /\ issued <= issued'
    BY <1>1, <1>4 DEF Prove
  <2>2. CASE Over /\ UNCHANGED <<authn, proofs>>
    <3>1. Typed'
      BY <1>1, <2>1 DEF GatewayInv, Typed, IsSeq
    <3>2. \A i \in DOMAIN ran : \E n \in 0..issued' : ProofOf(ran[i].call, ran[i].proof, n)
      BY <1>1, <2>1 DEF GatewayInv, ProofsInv
    <3>3. (\A i \in DOMAIN ran : \E n \in 0..issued : ProofOf(ran[i].call, ran[i].proof, n))'
      BY <1>1, <3>2 DEF ProofOf
    <3>4. ProofsServeOnce' /\ pc' = "idle"
      BY <1>1, <2>2 DEF GatewayInv, ProofsInv, ProofsServeOnce, Over
    <3>5. ProofsInv'
      BY <3>3, <3>4 DEF ProofsInv, Cleared
    <3> QED
      BY <1>1, <2>2, <3>1, <3>5, OverStep
  <2>3. ASSUME NEW prf, Present(prf, challenge) PROVE GatewayInv'
    <3>1. CASE /\ verify_pop(claims0.holder, challenge, prf)
               /\ proof' = prf /\ Goto("authorize") /\ UNCHANGED <<authn, code>>
      <4>1. ProofOf(call, prf, issued + 1)
        BY <1>4, <3>1 DEF Prove, verify_pop, ProofOf, claims0
      <4>2. \A i \in DOMAIN ran : proof' # None => ran[i].proof # proof'
        BY <3>1, <4>1, NewChallenge
      <4> QED
        BY <1>1, <2>1, <3>1, <4>1, <4>2, ClearStep
    <3>2. CASE Reject("AUTHENTICATION", "proof failed")
      BY <1>1, <2>1, <3>2, RejectStep
    <3> QED
      BY <2>3, <3>1, <3>2 DEF Present
  <2>4. \/ Over /\ UNCHANGED <<authn, proofs>>
        \/ \E prf : Present(prf, challenge)
    BY <1>4 DEF Prove
  <2> QED
    BY <2>2, <2>3, <2>4
<1> QED
  BY <1>2, <1>3, <1>4 DEF ProofOfPossession

(* What the decision point may leave behind, also when it raises later.      *)
LEMMA EmittedGrows == IAM!Authorize(call.req) => emitted \subseteq emitted'
BY DEF IAM!Authorize, IAM!Allow, IAM!DenyOrPend

LEMMA AuthorizeStep ==
  ASSUME GatewayInv, Authorize
  PROVE  GatewayInv'
<1> DEFINE decided == Decide(call.req, claims0, MinTier(call.req.manifest, tier), spent)
           Allowed == decided = "ALLOW" /\ Goto("act") /\ UNCHANGED code
           Refused == decided # "ALLOW" /\ LogAs(LogCode(decided))
<1>1. Still /\ UNCHANGED authn /\ pc = "authorize"
  BY DEF Authorize, shared, Still
<1>2. CASE AuthorizeRaises(decided)
  <2>1. Over /\ emitted \subseteq emitted'
    BY <1>2, EmittedGrows DEF AuthorizeRaises, Losing, pdp
  <2> QED
    BY <1>1, <2>1, RaisesStep
<1>3. CASE IAM!Authorize(call.req) /\ UNCHANGED proof /\ (Allowed \/ Refused)
  <2>1. UNCHANGED <<call, rows>> /\ (pc' = "act" \/ pc' = "log")
    BY <1>3 DEF Goto, LogAs
  <2>2. /\ claims0.ok /\ attested[root0] \in rows
        /\ trusted_issuers # {} => BindingRow(call, rows) /\ GrantingRow(call, rows)
        /\ ProofOf(call, proof, issued)
        /\ \A i \in DOMAIN ran : proof # None => ran[i].proof # proof
    BY <1>1 DEF GatewayInv, RowsInv, ProofsInv, Proving, Cleared
  <2>3. ProofsInv'
    <3>1. ProofOf(call, proof, issued)'
      BY <1>1, <1>3, <2>1, <2>2 DEF ProofOf, Still
    <3>2. (\A i \in DOMAIN ran : proof # None => ran[i].proof # proof)'
      BY <1>1, <1>3, <2>2 DEF Still
    <3> QED
      BY <1>1, <2>1, <3>1, <3>2, StillProven
  <2>4. RowsInv'
    <3>1. (claims0.ok /\ attested[root0] \in rows)'
      BY <1>1, <2>1, <2>2 DEF claims0, root0, Still
    <3>2. trusted_issuers # {} => BindingRow(call, rows)' /\ GrantingRow(call, rows)'
      BY <1>1, <2>1, <2>2 DEF BindingRow, GrantingRow, Binds, Still
    <3> QED
      BY <1>1, <3>1, <3>2, StillAttested DEF Still
  <2>5. CASE Allowed
    <3>1. pc' = "act" /\ emitted \subseteq emitted'
      BY <1>3, <2>5, EmittedGrows DEF Goto
    <3>2. IncidentsInv'
      BY <1>1, <3>1, StillChronicled DEF Still
    <3> QED
      BY <1>1, <2>3, <2>4, <3>2, StillTyped DEF GatewayInv
  <2>6. CASE Refused
    <3>1. IAM!Decide(call.req, IAM!Claims[call.req], IAM!MinTier(call.req.manifest, tier), spent)
            = decided
      BY SameDecision, SameTier, SameClaims DEF claims0
    <3> HIDE DEF decided
    <3>2. IAM!DenyOrPend(call.req)
      BY <1>3, <2>6, <3>1 DEF IAM!Authorize, IAM!Allow
    <3>3. PICK kind, actual, quoted :
            emitted' = emitted \cup {IAM!TriagePacket(kind, call.req, actual, quoted)}
      BY <3>2 DEF IAM!DenyOrPend
    <3> DEFINE packet == IAM!TriagePacket(kind, call.req, actual, quoted)
    <3>4. /\ packet.accountable_root = IAM!RootOf(call.req) /\ packet.actor = IAM!ActorOf(call.req)
          /\ packet.tool = call.req.tool.name /\ packet.now = call.req.now
      BY DEF IAM!TriagePacket
    <3>5. IAM!RootOf(call.req) = RootOf(call.req) /\ IAM!ActorOf(call.req) = ActorOf(call.req)
      BY SameClaims DEF IAM!RootOf, RootOf, IAM!ActorOf, ActorOf
    <3>6. packet \in emitted'
      BY <3>3
    <3> HIDE DEF packet
    <3>7. IncidentOf(call, emitted')
      BY <3>4, <3>5, <3>6 DEF IncidentOf
    <3>8. IncidentOf(call, emitted \cup authn)'
      BY <2>1, <3>7 DEF IncidentOf
    <3>9. emitted \subseteq emitted'
      BY <3>3
    <3>10. IncidentsInv'
      BY <1>1, <3>8, <3>9, StillChronicled DEF Still
    <3> QED
      BY <1>1, <2>3, <2>4, <3>10, StillTyped DEF GatewayInv
  <2> QED
    BY <1>3, <2>5, <2>6
<1> QED
  BY <1>2, <1>3 DEF Authorize

LEMMA WithholdStep ==
  ASSUME GatewayInv, pc = "act", Withhold, Still, UNCHANGED <<authn, emitted>>
  PROVE  GatewayInv'
<1>1. pc' = "log" /\ UNCHANGED proof /\ code' \in PaidFor
  BY DEF Withhold, LogAs, Goto, PaidFor
<1>2. ProofsInv'
  BY <1>1, StillProven DEF Cleared
<1>3. RowsInv'
  BY <1>1, StillAttested DEF Proving, Still
<1>4. IncidentsInv'
  BY <1>1, StillChronicled DEF Still, PaidFor
<1> QED
  BY <1>2, <1>3, <1>4, StillTyped DEF GatewayInv

(* The tool runs: what the call established goes into the history.           *)
LEMMA ExecuteStep ==
  ASSUME GatewayInv, pc = "act", Execute,
         UNCHANGED <<trusted_issuers, attested, issued, event_log, authn, emitted>>
  PROVE  GatewayInv'
<1>1. PICK raised, lev :
        ran' = Append(ran, [call |-> call, proof |-> proof, rows |-> rows, raised |-> raised,
                            level |-> lev])
  BY DEF Execute
<1> DEFINE run == [call |-> call, proof |-> proof, rows |-> rows, raised |-> raised, level |-> lev]
           n   == Len(ran)
<1>2. run.call = call /\ run.proof = proof /\ run.rows = rows
  OBVIOUS
<1>3. pc' = "idle" \/ (pc' = "log" /\ code' \in PaidFor)
  BY DEF Execute, Over, LogAs, Goto, PaidFor
<1>4. IsSeq(ran) /\ IsSeq(event_log) /\ issued \in Nat
  BY DEF GatewayInv, Typed
<1> HIDE DEF run
<1>5. /\ IsSeq(ran') /\ n \in Nat /\ DOMAIN ran = 1..n /\ DOMAIN ran' = 1..(n + 1)
      /\ ran'[n + 1] = run /\ \A i \in 1..n : ran'[i] = ran[i]
  BY <1>1, <1>4, Appended DEF run
<1> HIDE DEF n
<1>6. \A i \in DOMAIN ran' : i \in DOMAIN ran \/ i = n + 1
  BY <1>5
<1>7. Typed'
  BY <1>4, <1>5 DEF GatewayInv, Typed, IsSeq
<1>8. ProofsInv'
  <2>1. /\ ProofOf(call, proof, issued) /\ issued \in 0..issued
        /\ \A i \in DOMAIN ran : proof # None => ran[i].proof # proof
    BY <1>4 DEF GatewayInv, ProofsInv, Cleared
  <2>2. \A i \in DOMAIN ran : \E m \in 0..issued : ProofOf(ran[i].call, ran[i].proof, m)
    BY DEF GatewayInv, ProofsInv
  <2>3. \A i \in DOMAIN ran' : \E m \in 0..issued : ProofOf(ran'[i].call, ran'[i].proof, m)
    BY <1>2, <1>5, <1>6, <2>1, <2>2
  <2>4. (\A i \in DOMAIN ran : \E m \in 0..issued : ProofOf(ran[i].call, ran[i].proof, m))'
    BY <2>3 DEF ProofOf
  <2>5. ProofsServeOnce'
    <3>1. ASSUME NEW i \in DOMAIN ran', NEW j \in DOMAIN ran', ran'[i].proof # None, i # j
          PROVE  ran'[i].proof # ran'[j].proof
      <4>1. CASE i \in DOMAIN ran /\ j \in DOMAIN ran
        BY <1>5, <3>1, <4>1 DEF GatewayInv, ProofsInv, ProofsServeOnce
      <4>2. CASE i = n + 1 /\ j \in DOMAIN ran
        BY <1>2, <1>5, <2>1, <3>1, <4>2
      <4>3. CASE i \in DOMAIN ran /\ j = n + 1
        BY <1>2, <1>5, <2>1, <3>1, <4>3
      <4> QED
        BY <1>6, <3>1, <4>1, <4>2, <4>3
    <3> QED
      BY <3>1 DEF ProofsServeOnce
  <2> QED
    BY <1>3, <2>4, <2>5 DEF ProofsInv, Cleared
<1>9. RowsInv'
  <2>1. trusted_issuers # {} =>
          /\ BindingRow(call, rows) /\ GrantingRow(call, rows)
          /\ \A i \in DOMAIN ran : BindingRow(ran[i].call, ran[i].rows)
                                   /\ GrantingRow(ran[i].call, ran[i].rows)
    BY DEF GatewayInv, RowsInv, Proving
  <2>2. trusted_issuers # {} =>
          \A i \in DOMAIN ran' : BindingRow(ran'[i].call, ran'[i].rows)
                                /\ GrantingRow(ran'[i].call, ran'[i].rows)
    BY <1>2, <1>5, <1>6, <2>1
  <2>3. (trusted_issuers # {} =>
           \A i \in DOMAIN ran : BindingRow(ran[i].call, ran[i].rows)
                                 /\ GrantingRow(ran[i].call, ran[i].rows))'
    BY <2>2 DEF BindingRow, GrantingRow, Binds
  <2> QED
    BY <1>3, <2>3 DEF RowsInv, Proving
<1>10. IncidentsInv'
  BY <1>3, StillChronicled DEF PaidFor
<1> QED
  BY <1>7, <1>8, <1>9, <1>10 DEF GatewayInv

LEMMA ActStep ==
  ASSUME GatewayInv, Act
  PROVE  GatewayInv'
<1>1. /\ pc = "act" /\ UNCHANGED <<trusted_issuers, attested, issued, event_log, authn, emitted>>
  BY DEF Act, shared, pdp
<1>2. CASE Withhold
  BY <1>1, <1>2, WithholdStep DEF Withhold, Still
<1>3. CASE Execute
  BY <1>1, <1>3, ExecuteStep
<1> QED
  BY <1>2, <1>3 DEF Act

LEMMA EventStep ==
  ASSUME GatewayInv, Log, Over, NEW actual,
         event_log' = Append(event_log, Event(call, code, actual))
  PROVE  GatewayInv'
<1>1. /\ pc = "log" /\ pc' = "idle"
      /\ UNCHANGED <<trusted_issuers, attested, issued, ran, authn, emitted>>
  BY DEF Log, Over, shared, pdp
<1> DEFINE event == Event(call, code, actual)
           n     == Len(event_log)
<1>3. /\ event.decision = code /\ event.accountable_root = RootOf(call.req)
      /\ event.actor = ActorOf(call.req) /\ event.tool = call.req.tool.name
      /\ event.ts = call.req.now
  BY DEF Event
<1>4. IsSeq(event_log)
  BY DEF GatewayInv, Typed
<1> HIDE DEF event
<1>5. /\ IsSeq(event_log') /\ n \in Nat /\ DOMAIN event_log = 1..n
      /\ DOMAIN event_log' = 1..(n + 1) /\ event_log'[n + 1] = event
      /\ \A i \in 1..n : event_log'[i] = event_log[i]
  BY <1>4, Appended DEF event
<1> HIDE DEF n
<1>6. Typed'
  BY <1>1, <1>5 DEF GatewayInv, Typed, IsSeq
<1>7. ProofsInv'
  <2>1. (\A i \in DOMAIN ran : \E m \in 0..issued : ProofOf(ran[i].call, ran[i].proof, m))'
    BY <1>1 DEF GatewayInv, ProofsInv, ProofOf
  <2> QED
    BY <1>1, <2>1 DEF GatewayInv, ProofsInv, ProofsServeOnce, Cleared
<1>8. RowsInv'
  BY <1>1, StillAttested DEF Proving
<1>9. RefusalsHaveIncidents'
  <2> DEFINE packets == emitted \cup authn
             Has(e)  == e.decision \notin PaidFor /\ e.accountable_root # None =>
                          \E p \in packets : p.accountable_root = e.accountable_root
                            /\ p.actor = e.actor /\ p.tool = e.tool /\ p.now = e.ts
  <2>1. \A i \in DOMAIN event_log : Has(event_log[i])
    BY DEF GatewayInv, IncidentsInv, RefusalsHaveIncidents
  <2>2. Has(event)
    BY <1>1, <1>3 DEF GatewayInv, IncidentsInv, IncidentOf
  <2> HIDE DEF Has
  <2>3. \A i \in DOMAIN event_log' : Has(event_log'[i])
    BY <1>5, <2>1, <2>2
  <2> USE DEF Has
  <2> QED
    BY <1>1, <2>3 DEF RefusalsHaveIncidents
<1>10. IncidentsInv'
  BY <1>1, <1>9 DEF IncidentsInv
<1> QED
  BY <1>6, <1>7, <1>8, <1>10 DEF GatewayInv

LEMMA LogStep ==
  ASSUME GatewayInv, Log
  PROVE  GatewayInv'
<1>1. CASE LogRaises
  <2>1. Over /\ Still /\ UNCHANGED <<authn, emitted>>
    BY <1>1 DEF Log, LogRaises, Losing, shared, pdp, Still
  <2> QED
    BY <2>1, RaisesStep
<1>2. CASE ~LogRaises
  BY <1>2, EventStep DEF Log
<1> QED
  BY <1>1, <1>2

(* Another process replaces a row, whatever invoke() is at. *)
LEMMA EnrollStep ==
  ASSUME GatewayInv, NEW row \in Enrollments, Enroll(row)
  PROVE  GatewayInv'
<1> DEFINE root == row.svid.spiffe_id
<1>1. /\ UNCHANGED <<pc, call, code, proof, trusted_issuers, issued, ran, event_log, authn, emitted>>
      /\ attested' = [attested EXCEPT ![root] = row]
      /\ rows' = IF pc # "idle" /\ RootOf(call.req) = root THEN rows \cup {row} ELSE rows
  BY DEF Enroll, pdp, trace
<1>2. root \in Roots /\ attested \in [Roots -> Enrollments \cup {None}]
  BY GatewayAssumption DEF GatewayInv, Typed
<1> HIDE DEF root
<1>3. Typed'
  BY <1>1, <1>2 DEF GatewayInv, Typed, IsSeq
<1>4. ProofsInv'
  BY <1>1 DEF GatewayInv, ProofsInv, ProofsServeOnce, ProofOf
<1>5. rows \subseteq rows'
  BY <1>1
<1>6. RowsInv'
  <2>1. ASSUME pc \notin {"idle", "log"} PROVE claims0.ok' /\ (attested[root0] \in rows)'
    <3>1. claims0.ok /\ attested[root0] \in rows
      BY <2>1 DEF GatewayInv, RowsInv
    <3>2. RootOf(call.req) = root0 /\ root0' = root0 /\ claims0' = claims0
      BY <1>1, <3>1 DEF RootOf, root0, claims0
    <3>3. CASE root0 = root
      BY <1>1, <1>2, <2>1, <3>1, <3>2, <3>3
    <3>4. CASE root0 # root
      BY <1>1, <1>2, <2>1, <3>1, <3>2, <3>4
    <3> QED
      BY <3>3, <3>4
  <2>2. /\ BindingRow(call, rows) => BindingRow(call, rows)'
        /\ GrantingRow(call, rows) => GrantingRow(call, rows)'
    BY <1>1, <1>5 DEF BindingRow, GrantingRow, Binds
  <2> QED
    BY <1>1, <2>1, <2>2, StillAttested DEF GatewayInv, RowsInv
<1>7. IncidentsInv'
  BY <1>1 DEF GatewayInv, IncidentsInv, RefusalsHaveIncidents, IncidentOf
<1> QED
  BY <1>3, <1>4, <1>6, <1>7 DEF GatewayInv

LEMMA GatewayStep == GatewayInv /\ [Next]_vars => GatewayInv'
<1> SUFFICES ASSUME GatewayInv, [Next]_vars PROVE GatewayInv'
  OBVIOUS
<1>1. CASE UNCHANGED vars
  BY <1>1, QuietStep DEF vars, pdp, invoke, shared, trace, Still
<1>2. CASE \E t \in Tools : Register(t)
  BY <1>2, QuietStep DEF Register, pdp, invoke, trace, Still
<1>3. CASE \E v \in Vouches : Vouch(v[1], v[2])
  BY <1>3, QuietStep DEF Vouch, IAM!Vouch, invoke, trace, Still
<1>4. CASE Manage
  BY <1>4, QuietStep DEF Manage, pdp, invoke, shared, trace, Still
<1> QED
  BY <1>1, <1>2, <1>3, <1>4, InvokeStep, ReadSvidStep, ReadRoleStep, ProofOfPossessionStep,
     AuthorizeStep, ActStep, LogStep, EnrollStep DEF Next

LEMMA GatewayInvSays ==
  GatewayInv => ProofsServeOnce /\ BoundRunsAreProven /\ RunsAreAttested /\ RefusalsHaveIncidents
<1> SUFFICES ASSUME GatewayInv
             PROVE  BoundRunsAreProven /\ RunsAreAttested
  BY DEF GatewayInv, ProofsInv, IncidentsInv
<1>1. BoundRunsAreProven
  <2>1. \A i \in DOMAIN ran : \E n \in 0..issued : ProofOf(ran[i].call, ran[i].proof, n)
    BY DEF GatewayInv, ProofsInv
  <2>2. ASSUME NEW c, NEW prf, NEW n, ProofOf(c, prf, n), Claims[c.req].holder # None
        PROVE  /\ prf.by = Claims[c.req].holder
               /\ prf.of.sig = c.req.token.sig /\ prf.of.tool = c.req.tool.name
    BY <2>2 DEF ProofOf, Sign, Challenge
  <2> QED
    BY <2>1, <2>2 DEF BoundRunsAreProven
<1>2. RunsAreAttested
  BY DEF GatewayInv, RowsInv, BindingRow, GrantingRow, Binds, RunsAreAttested
<1> QED
  BY <1>1, <1>2

(* No proof serves two runs, whatever a client retries: a challenge is       *)
(* numbered by a counter that only grows.                                    *)
THEOREM NoProofServesTwice == Spec => []ProofsServeOnce
<1> QED
  BY InitGateway, GatewayStep, GatewayInvSays, PTL DEF Spec

(* A holder-bound token never runs a tool without its holder's proof, for    *)
(* that token and that tool.                                                 *)
THEOREM HolderProves == Spec => []BoundRunsAreProven
<1> QED
  BY InitGateway, GatewayStep, GatewayInvSays, PTL DEF Spec

(* A gateway with a trust bundle runs tools for attested principals alone,   *)
(* whatever is enrolled between the statements of its calls.                 *)
THEOREM AttestedOnly == Spec => []RunsAreAttested
<1> QED
  BY InitGateway, GatewayStep, GatewayInvSays, PTL DEF Spec

(* No refusal of a principal reaches the event log without its incident.     *)
THEOREM NoSilentRefusal == Spec => []RefusalsHaveIncidents
<1> QED
  BY InitGateway, GatewayStep, GatewayInvSays, PTL DEF Spec

-----------------------------------------------------------------------------
(* The box.  The containment tree lives under the gateway as it does alone,  *)
(* so what ContainmentProofs shows of its steps is used here.                *)

BoxProofs == INSTANCE ContainmentProofs

BoxInv == BoxProofs!Inv

LEMMA SameBoxAssumption == BoxProofs!ContainmentAssumption
BY BoxAssumption
   DEF Box!ContainmentAssumption, BoxProofs!ContainmentAssumption, Box!NoParent, BoxProofs!NoParent

LEMMA SameBoxStep == Box!Next => BoxProofs!Next
<1>1. ASSUME NEW p \in Nodes, NEW n \in Nodes, NEW name \in Names, Box!Spawn(p, n, name)
      PROVE  BoxProofs!Spawn(p, n, name)
  BY <1>1 DEF Box!Spawn, BoxProofs!Spawn, Box!Born, BoxProofs!Born, Box!NoParent, BoxProofs!NoParent,
     Box!MaySpawn, BoxProofs!MaySpawn, Box!max_children, BoxProofs!max_children,
     Box!NameIsTaken, BoxProofs!NameIsTaken, Box!ladder, BoxProofs!ladder,
     Box!SHADOW, BoxProofs!SHADOW, Box!CONTAINED, BoxProofs!CONTAINED,
     Box!SUPERVISED, BoxProofs!SUPERVISED, Box!TRUSTED, BoxProofs!TRUSTED
<1>2. ASSUME NEW n \in Nodes, Box!Reap(n) PROVE BoxProofs!Reap(n)
  BY <1>2 DEF Box!Reap, BoxProofs!Reap, Box!Born, BoxProofs!Born, Box!NoParent, BoxProofs!NoParent,
     Box!Enter, BoxProofs!Enter, Box!tree, BoxProofs!tree, Box!ladder, BoxProofs!ladder
<1>3. Box!Frame = BoxProofs!Frame
  BY DEF Box!Frame, BoxProofs!Frame, Box!Last, BoxProofs!Last
<1>4. Box!ReapChild => BoxProofs!ReapChild
  BY <1>3 DEF Box!ReapChild, BoxProofs!ReapChild, Box!Enter, BoxProofs!Enter,
     Box!tree, BoxProofs!tree, Box!ladder, BoxProofs!ladder
<1>5. Box!ReapSelf => BoxProofs!ReapSelf
  BY <1>3 DEF Box!ReapSelf, BoxProofs!ReapSelf, Box!Reaped, BoxProofs!Reaped,
     Box!Marked, BoxProofs!Marked, Box!Killed, BoxProofs!Killed, Box!Front, BoxProofs!Front,
     Box!tree, BoxProofs!tree, Box!ladder, BoxProofs!ladder
<1>6. ASSUME NEW n \in Nodes, Box!RecordOutcome(n) PROVE BoxProofs!RecordOutcome(n)
  BY <1>6 DEF Box!RecordOutcome, BoxProofs!RecordOutcome, Box!Born, BoxProofs!Born,
     Box!NoParent, BoxProofs!NoParent, Box!FloorViolation, BoxProofs!FloorViolation,
     Box!BadOutcome, BoxProofs!BadOutcome, Box!AfterBad, BoxProofs!AfterBad,
     Box!Demote, BoxProofs!Demote, Box!GoodOutcome, BoxProofs!GoodOutcome,
     Box!StreakAfter, BoxProofs!StreakAfter, Box!Promoted, BoxProofs!Promoted,
     Box!ParentLevel, BoxProofs!ParentLevel, Box!tree, BoxProofs!tree,
     Box!SHADOW, BoxProofs!SHADOW, Box!CONTAINED, BoxProofs!CONTAINED,
     Box!TRUSTED, BoxProofs!TRUSTED
<1> QED
  BY <1>1, <1>2, <1>4, <1>5, <1>6 DEF Box!Next, BoxProofs!Next, Box!Reaping, BoxProofs!Reaping

LEMMA InitBox == Init => BoxInv
<1>2. Box!Init => BoxProofs!Init
  BY DEF Box!Init, BoxProofs!Init, Box!NoParent, BoxProofs!NoParent, Box!SHADOW, BoxProofs!SHADOW,
         Box!AutonomyLevel, BoxProofs!AutonomyLevel
<1>3. BoxProofs!Init => BoxProofs!Inv
  BY SameBoxAssumption, BoxProofs!InitInv
<1> QED
  BY <1>2, <1>3 DEF Init, BoxInv
LEMMA BoxStep == BoxInv /\ [Next]_vars => BoxInv'
<1> SUFFICES ASSUME BoxInv, [Next]_vars PROVE BoxInv'
  OBVIOUS
<1>1. [BoxProofs!Next]_(BoxProofs!vars) => BoxInv'
  BY SameBoxAssumption, BoxProofs!StepInv DEF BoxInv
<1>2. CASE UNCHANGED box
  BY <1>1, <1>2 DEF box, BoxProofs!vars, BoxProofs!tree, BoxProofs!ladder
<1>3. CASE Manage
  BY <1>1, <1>2, <1>3, SameBoxStep DEF Manage
<1>4. [Next]_vars => Manage \/ UNCHANGED box
  BY DEF Next, vars, Invoke, ReadSvid, ReadRole, ProofOfPossession, Authorize, Act, Log,
         Register, Enroll, Vouch
<1> QED
  BY <1>2, <1>3, <1>4

(* What a level is worth to the node that has it.                            *)
LEMMA LivingNode ==
  ASSUME BoxInv, NEW n \in alive, n # Top
  PROVE  /\ parent[n] \in alive
         /\ Box!gating(level[n]) # "observe" => good[n] >= PROMOTE_AFTER
<1>1. BoxProofs!TypeOK /\ n \in Nodes /\ n \in BoxProofs!Spawned
  BY DEF BoxInv, BoxProofs!Inv, BoxProofs!TypeOK, BoxProofs!TreeOK, BoxProofs!Born, BoxProofs!Spawned
<1>2. parent[n] \in alive
  BY <1>1 DEF BoxInv, BoxProofs!Inv, BoxProofs!NoOrphans
<1>3. /\ level[n] \in 0..3 /\ streak[n] \in Nat /\ good[n] \in Nat
      /\ PROMOTE_AFTER \in Nat
  BY <1>1, SameBoxAssumption
     DEF BoxProofs!TypeOK, BoxProofs!AutonomyLevel, BoxProofs!ContainmentAssumption
<1>4. level[n] * PROMOTE_AFTER + (IF level[n] < 3 THEN streak[n] ELSE 0) <= good[n]
  BY <1>1 DEF BoxInv, BoxProofs!Inv, BoxProofs!Earned, BoxProofs!TRUSTED
<1>5. level[n] # 0 => good[n] >= PROMOTE_AFTER
  <2>1. level[n] = 1 => 1 * PROMOTE_AFTER + (IF level[n] < 3 THEN streak[n] ELSE 0) <= good[n]
    BY <1>4
  <2>2. level[n] = 2 => 2 * PROMOTE_AFTER + (IF level[n] < 3 THEN streak[n] ELSE 0) <= good[n]
    BY <1>4
  <2>3. level[n] = 3 => 3 * PROMOTE_AFTER + (IF level[n] < 3 THEN streak[n] ELSE 0) <= good[n]
    BY <1>4
  <2> QED
    BY <1>3, <2>1, <2>2, <2>3
<1>6. level[n] = 0 => Box!gating(level[n]) = "observe"
  BY DEF Box!gating, Box!SHADOW, Box!CONTAINED, Box!SUPERVISED, Box!TRUSTED
<1> QED
  BY <1>2, <1>5, <1>6

LEMMA EarnedStep ==
  ASSUME BoxInv, [Next]_vars, ran' # ran, call.node # None
  PROVE  /\ call.node \in alive
         /\ call.node # Top =>
              /\ parent[call.node] \in alive
              /\ call.req.tool.reversible => good[call.node] >= PROMOTE_AFTER
<1>1. Act /\ ~Withheld
  BY DEF Next, vars, trace, Invoke, ReadSvid, ReadRole, ProofOfPossession, Authorize, Act, Log,
         Register, Enroll, Vouch, Manage, Withhold, Execute
<1>2. verdict \notin {"deny", "observe_only"}
      /\ verdict = Box!verdict_for(call.node, call.req.tool.reversible, call.sampled)
  BY <1>1 DEF Withheld, verdict
<1>3. call.node \in alive
  BY <1>2 DEF Box!verdict_for
<1>4. call.req.tool.reversible => Box!gating(level[call.node]) # "observe"
  BY <1>2, <1>3 DEF Box!verdict_for
<1> QED
  BY <1>3, <1>4, LivingNode

(* A tool runs for a node only while it and its box live, and a reversible   *)
(* one for a spawned node only after that node earned its way out of SHADOW. *)
THEOREM RunnersHaveEarned == Spec => RunsAreEarned
<1>1. BoxInv /\ [Next]_vars =>
        [ran' # ran /\ call.node # None =>
           /\ call.node \in alive
           /\ call.node # Top =>
                /\ parent[call.node] \in alive
                /\ call.req.tool.reversible => good[call.node] >= PROMOTE_AFTER]_vars
  BY EarnedStep
<1> QED
  BY <1>1, InitBox, BoxStep, PTL DEF Spec, RunsAreEarned
-----------------------------------------------------------------------------
(* The accounts.  A total over a log grows by the entry that is appended. *)

EventShare(e, r) == IF e.decision \in PaidFor /\ e.accountable_root = r THEN e.cost ELSE 0
RunShare(x, r) == IF x.raised /\ RootOf(x.call.req) = r THEN x.call.req.tool.est_cost ELSE 0

LoggedIn(log, r) == Total(log, LAMBDA e : EventShare(e, r))
RaisedIn(runs, r) == Total(runs, LAMBDA x : RunShare(x, r))

LEMMA LoggedIsFold ==
  ASSUME NEW r, NEW E, NEW s \in Seq(E), \A e \in E : EventShare(e, r) \in Nat
  PROVE  LET g == [x \in Nat \X E |-> x[1] + EventShare(x[2], r)]
         IN  Folds(Nat, E, g, 0, s) /\ LoggedIn(s, r) = Fold(g, 0, s)
<1> DEFINE g == [x \in Nat \X E |-> x[1] + EventShare(x[2], r)]
<1>1. Folds(Nat, E, g, 0, s)
  BY DEF Folds
<1>2. PICK it : FoldTable(it, Nat, g, 0, s)
  <2> HIDE DEF g
  <2> QED
    BY <1>1, FoldTableExists
<1> DEFINE Rec(jt) == jt = [t \in SUBSET DOMAIN s |->
                              IF t = {} THEN 0 ELSE jt[t \ {Max(t)}] + EventShare(s[Max(t)], r)]
<1>3. \A t \in SUBSET DOMAIN s : t # {} => Max(t) \in DOMAIN s /\ s[Max(t)] \in E
  BY MaxChooses
<1>4. Rec(it)
  BY <1>2, <1>3 DEF FoldTable
<1>5. PICK jt : Rec(jt) /\ LoggedIn(s, r) = jt[DOMAIN s]
  BY <1>4 DEF LoggedIn, Total, FoldLeft, MapThenFoldSet
<1>6. GoesOn(jt, Nat, g, 0, s)
  BY <1>3, <1>5 DEF GoesOn
<1>7. jt[DOMAIN s] = Fold(g, 0, s)
  <2> HIDE DEF g, Rec
  <2> QED
    BY <1>1, <1>6, FoldIs
<1> QED
  BY <1>1, <1>5, <1>7

LEMMA RaisedIsFold ==
  ASSUME NEW r, NEW E, NEW s \in Seq(E), \A e \in E : RunShare(e, r) \in Nat
  PROVE  LET g == [x \in Nat \X E |-> x[1] + RunShare(x[2], r)]
         IN  Folds(Nat, E, g, 0, s) /\ RaisedIn(s, r) = Fold(g, 0, s)
<1> DEFINE g == [x \in Nat \X E |-> x[1] + RunShare(x[2], r)]
<1>1. Folds(Nat, E, g, 0, s)
  BY DEF Folds
<1>2. PICK it : FoldTable(it, Nat, g, 0, s)
  <2> HIDE DEF g
  <2> QED
    BY <1>1, FoldTableExists
<1> DEFINE Rec(jt) == jt = [t \in SUBSET DOMAIN s |->
                              IF t = {} THEN 0 ELSE jt[t \ {Max(t)}] + RunShare(s[Max(t)], r)]
<1>3. \A t \in SUBSET DOMAIN s : t # {} => Max(t) \in DOMAIN s /\ s[Max(t)] \in E
  BY MaxChooses
<1>4. Rec(it)
  BY <1>2, <1>3 DEF FoldTable
<1>5. PICK jt : Rec(jt) /\ RaisedIn(s, r) = jt[DOMAIN s]
  BY <1>4 DEF RaisedIn, Total, FoldLeft, MapThenFoldSet
<1>6. GoesOn(jt, Nat, g, 0, s)
  BY <1>3, <1>5 DEF GoesOn
<1>7. jt[DOMAIN s] = Fold(g, 0, s)
  <2> HIDE DEF g, Rec
  <2> QED
    BY <1>1, <1>6, FoldIs
<1> QED
  BY <1>1, <1>5, <1>7

LEMMA LoggedGrows ==
  ASSUME NEW r, NEW s, IsSeq(s), NEW e,
         \A i \in DOMAIN s : EventShare(s[i], r) \in Nat, EventShare(e, r) \in Nat
  PROVE  LoggedIn(s, r) \in Nat /\ LoggedIn(Append(s, e), r) = LoggedIn(s, r) + EventShare(e, r)
<1>1. PICK S : s \in Seq(S)
  BY DEF IsSeq
<1> DEFINE E == {x \in S \cup {e} : EventShare(x, r) \in Nat}
           g == [x \in Nat \X E |-> x[1] + EventShare(x[2], r)]
<1>2. s \in Seq(E) /\ e \in E /\ Append(s, e) \in Seq(E) /\ \A x \in E : EventShare(x, r) \in Nat
  <2>1. \A i \in 1..Len(s) : s[i] \in E
    BY <1>1
  <2>2. e \in E
    OBVIOUS
  <2> HIDE DEF E
  <2>3. s \in Seq(E)
    BY <1>1, <2>1
  <2> QED
    BY <2>2, <2>3 DEF E
<1> HIDE DEF E
<1>3. Folds(Nat, E, g, 0, s) /\ LoggedIn(s, r) = Fold(g, 0, s)
      /\ LoggedIn(Append(s, e), r) = Fold(g, 0, Append(s, e))
  BY <1>2, LoggedIsFold
<1>4. Fold(g, 0, s) \in Nat /\ Fold(g, 0, Append(s, e)) = g[<<Fold(g, 0, s), e>>]
  <2> HIDE DEF g
  <2> QED
    BY <1>2, <1>3, FoldType, FoldAppend
<1> QED
  BY <1>2, <1>3, <1>4

LEMMA NothingLogged == ASSUME NEW r PROVE LoggedIn(<<>>, r) = 0
<1> DEFINE g == [x \in Nat \X {} |-> x[1] + EventShare(x[2], r)]
<1>1. Folds(Nat, {}, g, 0, <<>>) /\ LoggedIn(<<>>, r) = Fold(g, 0, <<>>)
  <2>1. <<>> \in Seq({})
    BY EmptySeq
  <2> QED
    BY <2>1, LoggedIsFold
<1> HIDE DEF g
<1> QED
  BY <1>1, FoldEmpty

LEMMA RaisedGrows ==
  ASSUME NEW r, NEW s, IsSeq(s), NEW e,
         \A i \in DOMAIN s : RunShare(s[i], r) \in Nat, RunShare(e, r) \in Nat
  PROVE  RaisedIn(s, r) \in Nat /\ RaisedIn(Append(s, e), r) = RaisedIn(s, r) + RunShare(e, r)
<1>1. PICK S : s \in Seq(S)
  BY DEF IsSeq
<1> DEFINE E == {x \in S \cup {e} : RunShare(x, r) \in Nat}
           g == [x \in Nat \X E |-> x[1] + RunShare(x[2], r)]
<1>2. s \in Seq(E) /\ e \in E /\ Append(s, e) \in Seq(E) /\ \A x \in E : RunShare(x, r) \in Nat
  <2>1. \A i \in 1..Len(s) : s[i] \in E
    BY <1>1
  <2>2. e \in E
    OBVIOUS
  <2> HIDE DEF E
  <2>3. s \in Seq(E)
    BY <1>1, <2>1
  <2> QED
    BY <2>2, <2>3 DEF E
<1> HIDE DEF E
<1>3. Folds(Nat, E, g, 0, s) /\ RaisedIn(s, r) = Fold(g, 0, s)
      /\ RaisedIn(Append(s, e), r) = Fold(g, 0, Append(s, e))
  BY <1>2, RaisedIsFold
<1>4. Fold(g, 0, s) \in Nat /\ Fold(g, 0, Append(s, e)) = g[<<Fold(g, 0, s), e>>]
  <2> HIDE DEF g
  <2> QED
    BY <1>2, <1>3, FoldType, FoldAppend
<1> QED
  BY <1>2, <1>3, <1>4

LEMMA NothingRaised == ASSUME NEW r PROVE RaisedIn(<<>>, r) = 0
<1> DEFINE g == [x \in Nat \X {} |-> x[1] + RunShare(x[2], r)]
<1>1. Folds(Nat, {}, g, 0, <<>>) /\ RaisedIn(<<>>, r) = Fold(g, 0, <<>>)
  <2>1. <<>> \in Seq({})
    BY EmptySeq
  <2> QED
    BY <2>1, RaisedIsFold
<1> HIDE DEF g
<1> QED
  BY <1>1, FoldEmpty

-----------------------------------------------------------------------------
(* Between a charge and its entry the call itself carries it.                *)
Balanced(r) == spent[r] = LoggedIn(event_log, r) + RaisedIn(ran, r) + lost[r] + PendingCost(r)

AccountInv ==
  /\ spent \in [Roots -> Nat] /\ lost \in [Roots -> Nat]
  /\ \A i \in DOMAIN event_log : event_log[i].cost \in Nat
  /\ \A i \in DOMAIN ran : ran[i].call.req \in Requests
  /\ pc # "idle" => call.req \in Requests
  /\ \A r \in Roots : Balanced(r)

LEMMA Costs == \A req \in Requests : req.tool.est_cost \in Nat
BY RequestAssumption

LEMMA InitAccount == Init => AccountInv
<1> SUFFICES ASSUME Init PROVE AccountInv
  OBVIOUS
<1>1. /\ ran = <<>> /\ event_log = <<>> /\ pc = "idle" /\ DOMAIN <<>> = {}
      /\ spent = [r \in Roots |-> 0] /\ lost = [r \in Roots |-> 0]
  <2>1. DOMAIN <<>> = {}
    BY EmptySeq
  <2> QED
    BY <2>1 DEF Init, IAM!Init
<1>2. \A r \in Roots : PendingCost(r) = 0 /\ LoggedIn(event_log, r) = 0 /\ RaisedIn(ran, r) = 0
  BY <1>1, NothingLogged, NothingRaised DEF PendingCost
<1> QED
  BY <1>1, <1>2 DEF AccountInv, Balanced

LEMMA Totals ==
  ASSUME GatewayInv, AccountInv, NEW r
  PROVE  LoggedIn(event_log, r) \in Nat /\ RaisedIn(ran, r) \in Nat /\ PendingCost(r) \in Nat
<1>1. IsSeq(event_log) /\ IsSeq(ran)
  BY DEF GatewayInv, Typed
<1>2. \A i \in DOMAIN event_log : EventShare(event_log[i], r) \in Nat
  BY DEF AccountInv, EventShare
<1>3. \A i \in DOMAIN ran : RunShare(ran[i], r) \in Nat
  BY Costs DEF AccountInv, RunShare
<1>4. LoggedIn(event_log, r) \in Nat
  <2>1. PICK e : EventShare(e, r) \in Nat
    <3> DEFINE unpaid == [decision |-> ""]
    <3>1. unpaid.decision \notin PaidFor
      BY DEF PaidFor
    <3> HIDE DEF unpaid
    <3>2. EventShare(unpaid, r) = 0
      BY <3>1 DEF EventShare
    <3> QED
      BY <3>2
  <2> QED
    BY <1>1, <1>2, <2>1, LoggedGrows
<1>5. RaisedIn(ran, r) \in Nat
  <2>1. PICK x : RunShare(x, r) \in Nat
    <3>1. RunShare([raised |-> FALSE], r) = 0
      BY DEF RunShare
    <3> QED
      BY <3>1
  <2> QED
    BY <1>1, <1>3, <2>1, RaisedGrows
<1>6. PendingCost(r) \in Nat
  BY Costs DEF AccountInv, PendingCost
<1> QED
  BY <1>4, <1>5, <1>6

(* A step that leaves the ledger and the histories alone.                    *)
LEMMA AccountStays ==
  ASSUME AccountInv, UNCHANGED <<spent, lost, event_log, ran>>,
         (pc # "idle" => call.req \in Requests)',
         \A r \in Roots : PendingCost(r)' = PendingCost(r)
  PROVE  AccountInv'
BY DEF AccountInv, Balanced

LEMMA QuietAccount ==
  ASSUME AccountInv, UNCHANGED <<spent, lost, event_log, ran, pc, call, code>>
  PROVE  AccountInv'
<1>1. \A r \in Roots : PendingCost(r)' = PendingCost(r)
  BY DEF PendingCost
<1> QED
  BY <1>1, AccountStays DEF AccountInv

(* A call that has not been charged, and is not by the step, is free.        *)
Free == pc # "act" /\ (pc = "log" => code \notin PaidFor)

LEMMA FreeStep ==
  ASSUME AccountInv, UNCHANGED <<spent, lost, event_log, ran>>, Free, Free',
         (pc # "idle" => call.req \in Requests)'
  PROVE  AccountInv'
<1>1. \A r \in Roots : PendingCost(r)' = PendingCost(r)
  BY DEF PendingCost, Free
<1> QED
  BY <1>1, AccountStays

LossShare(r) == IF RootOf(call.req) = r THEN call.req.tool.est_cost ELSE 0

(* A call ends by an exception of the store; what it was charged is lost.    *)
LEMMA LosingStep ==
  ASSUME GatewayInv, AccountInv, Losing, UNCHANGED <<event_log, ran>>, call.req \in Requests,
         spent' \in [Roots -> Nat],
         \A r \in Roots : spent'[r] + PendingCost(r) = spent[r] + LossShare(r)
  PROVE  AccountInv'
<1>1. pc' = "idle" /\ lost' = [lost EXCEPT ![RootOf(call.req)] = @ + call.req.tool.est_cost]
  BY DEF Losing, Over
<1>2. /\ lost \in [Roots -> Nat] /\ spent \in [Roots -> Nat]
      /\ \A r \in Roots : LossShare(r) \in Nat /\ PendingCost(r) \in Nat
  BY Costs, Totals DEF AccountInv, LossShare
<1>3. \A r \in Roots : lost'[r] = lost[r] + LossShare(r)
  BY <1>1, <1>2 DEF LossShare
<1>4. lost' \in [Roots -> Nat]
  <2>1. lost' = [r \in Roots |-> lost'[r]]
    BY <1>1, <1>2
  <2> QED
    BY <1>2, <1>3, <2>1
<1>5. \A r \in Roots : PendingCost(r)' = 0
  BY <1>1 DEF PendingCost
<1>6. \A r \in Roots :
        spent'[r] = LoggedIn(event_log, r) + RaisedIn(ran, r) + lost'[r]
  <2>1. \A r \in Roots : /\ LoggedIn(event_log, r) \in Nat /\ RaisedIn(ran, r) \in Nat
                          /\ spent[r] = LoggedIn(event_log, r) + RaisedIn(ran, r) + lost[r]
                                           + PendingCost(r)
    BY Totals DEF AccountInv, Balanced
  <2>2. ASSUME NEW r \in Roots
        PROVE  spent'[r] = LoggedIn(event_log, r) + RaisedIn(ran, r) + lost'[r]
    <3> DEFINE logged == LoggedIn(event_log, r)
               raised == RaisedIn(ran, r)
               was    == PendingCost(r)
               share  == LossShare(r)
    <3>1. /\ logged \in Nat /\ raised \in Nat /\ was \in Nat /\ share \in Nat
          /\ lost[r] \in Nat /\ spent'[r] \in Nat
      BY <1>2, <2>1
    <3>2. /\ spent[r] = logged + raised + lost[r] + was
          /\ spent'[r] + was = spent[r] + share
          /\ lost'[r] = lost[r] + share
      BY <1>3, <2>1
    <3> HIDE DEF logged, raised, was, share
    <3>3. spent'[r] = logged + raised + lost'[r]
      BY <3>1, <3>2
    <3> QED
      BY <3>3 DEF logged, raised
  <2> QED
    BY <2>2
<1>7. \A r \in Roots : Balanced(r)'
  <2>1. \A r \in Roots : LoggedIn(event_log, r) \in Nat /\ RaisedIn(ran, r) \in Nat
                          /\ lost'[r] \in Nat
    BY <1>4, Totals
  <2> QED
    BY <1>5, <1>6, <2>1 DEF Balanced
<1> QED
  BY <1>1, <1>4, <1>7 DEF AccountInv

LEMMA AuthorizeAccount ==
  ASSUME GatewayInv, AccountInv, Authorize
  PROVE  AccountInv'
<1> DEFINE decided == Decide(call.req, claims0, MinTier(call.req.manifest, tier), spent)
           cost    == call.req.tool.est_cost
<1>1. /\ pc = "authorize" /\ UNCHANGED <<ran, event_log>>
      /\ \A r \in Roots : PendingCost(r) = 0
  BY DEF Authorize, PendingCost
<1>2. /\ claims0.ok /\ call.req \in Requests /\ cost \in Nat
      /\ root0 = RootOf(call.req) /\ root0 \in Roots
  BY <1>1, RequestAssumption DEF GatewayInv, RowsInv, AccountInv, claims0, root0, RootOf
<1>3. IAM!Decide(call.req, IAM!Claims[call.req], IAM!MinTier(call.req.manifest, tier), spent)
        = decided
  BY SameDecision, SameTier, SameClaims DEF claims0
<1>4. decided = "ALLOW" \/ decided \in {"IDENTITY", "CAPABILITY", "PURPOSE", "PROVENANCE", "BUDGET"}
  BY DEF Decide, Screen
<1>5. Free /\ (\/ Over \/ call' = call)
  BY <1>1 DEF Authorize, AuthorizeRaises, Losing, Free, Goto, LogAs
<1>6. \/ IAM!Authorize(call.req) /\ decided = "ALLOW"
         /\ (Losing \/ (Goto("act") /\ UNCHANGED lost))
      \/ IAM!Authorize(call.req) /\ decided # "ALLOW" /\ UNCHANGED lost
         /\ (Over \/ LogAs(LogCode(decided)))
      \/ Over /\ UNCHANGED <<pdp, lost>>
  BY DEF Authorize, AuthorizeRaises
<1> HIDE DEF decided
<1>7. CASE IAM!Authorize(call.req) /\ decided = "ALLOW"
           /\ (Losing \/ (Goto("act") /\ UNCHANGED lost))
  <2>1. spent' = [spent EXCEPT ![root0] = @ + cost]
    BY <1>3, <1>7, SameClaims DEF IAM!Authorize, IAM!Allow, IAM!DenyOrPend, claims0, root0
  <2>2. CASE Losing
    <3>1. \A r \in Roots : spent'[r] = spent[r] + LossShare(r)
      BY <1>2, <2>1 DEF AccountInv, LossShare
    <3>2. spent' \in [Roots -> Nat]
      BY <1>2, <2>1 DEF AccountInv
    <3>3. \A r \in Roots : LossShare(r) \in Nat /\ spent[r] \in Nat
      BY <1>2 DEF LossShare, AccountInv
    <3>4. \A r \in Roots : spent'[r] + PendingCost(r) = spent[r] + LossShare(r)
      BY <1>1, <3>1, <3>3
    <3> QED
      BY <1>1, <1>2, <2>2, <3>2, <3>4, LosingStep
  <2>3. CASE Goto("act") /\ UNCHANGED lost
    <3>1. pc' = "act" /\ call' = call
      BY <2>3 DEF Goto
    <3>2. \A r \in Roots : PendingCost(r)' = IF root0 = r THEN cost ELSE 0
      BY <1>2, <3>1 DEF PendingCost
    <3>3. spent \in [Roots -> Nat] /\ lost \in [Roots -> Nat]
      BY DEF AccountInv
    <3>4. \A r \in Roots : /\ LoggedIn(event_log, r) \in Nat /\ RaisedIn(ran, r) \in Nat
                            /\ spent[r] = LoggedIn(event_log, r) + RaisedIn(ran, r) + lost[r]
      <4>1. \A r \in Roots : LoggedIn(event_log, r) \in Nat /\ RaisedIn(ran, r) \in Nat
        BY Totals
      <4> QED
        BY <1>1, <3>3, <4>1 DEF AccountInv, Balanced
    <3> HIDE DEF cost
    <3>5. \A r \in Roots : spent'[r] = LoggedIn(event_log, r) + RaisedIn(ran, r) + lost[r]
                                          + (IF root0 = r THEN cost ELSE 0)
      BY <1>2, <2>1, <3>3, <3>4
    <3>6. \A r \in Roots : Balanced(r)'
      BY <1>1, <2>3, <3>2, <3>5 DEF Balanced
    <3>7. spent' \in [Roots -> Nat]
      BY <1>2, <2>1, <3>3
    <3> QED
      BY <1>1, <1>2, <2>3, <3>1, <3>3, <3>6, <3>7 DEF AccountInv
  <2> QED
    BY <1>7, <2>2, <2>3
<1>8. CASE IAM!Authorize(call.req) /\ decided # "ALLOW" /\ UNCHANGED lost
           /\ (Over \/ LogAs(LogCode(decided)))
  <2>1. UNCHANGED spent
    BY <1>3, <1>8 DEF IAM!Authorize, IAM!Allow, IAM!DenyOrPend
  <2>2. Free'
    BY <1>4, <1>8 DEF Free, Over, LogAs, Goto, LogCode, AccessState, PaidFor
  <2> QED
    BY <1>1, <1>2, <1>5, <1>8, <2>1, <2>2, FreeStep DEF Over
<1>9. CASE Over /\ UNCHANGED <<pdp, lost>>
  <2>1. Free' /\ pc' = "idle"
    BY <1>9 DEF Free, Over
  <2> QED
    BY <1>1, <1>5, <1>9, <2>1, FreeStep DEF pdp
<1> QED
  BY <1>6, <1>7, <1>8, <1>9

LEMMA ActAccount ==
  ASSUME GatewayInv, AccountInv, Act
  PROVE  AccountInv'
<1> DEFINE cost == call.req.tool.est_cost
<1>1. /\ pc = "act" /\ UNCHANGED <<spent, lost, event_log>> /\ call.req \in Requests /\ cost \in Nat
  BY Costs DEF Act, pdp, AccountInv
<1>2. CASE Withhold
  <2>1. pc' = "log" /\ code' \in PaidFor /\ UNCHANGED <<call, ran>>
    BY <1>2 DEF Withhold, LogAs, Goto, PaidFor
  <2>2. \A r \in Roots : PendingCost(r)' = PendingCost(r)
    BY <1>1, <2>1 DEF PendingCost
  <2> QED
    BY <1>1, <2>1, <2>2, AccountStays
<1>3. CASE Execute
  <2>1. PICK raised, x :
          /\ raised \in BOOLEAN /\ x.call = call /\ x.raised = raised /\ ran' = Append(ran, x)
          /\ IF raised THEN Over ELSE LogAs("EXECUTED")
    BY <1>3 DEF Execute
  <2>2. IsSeq(ran)
    BY DEF GatewayInv, Typed
  <2>3. /\ \A i \in DOMAIN ran' : ran'[i].call.req \in Requests
        /\ \A r \in Roots : RunShare(x, r) \in Nat /\ \A i \in DOMAIN ran : RunShare(ran[i], r) \in Nat
    <3>1. \A i \in DOMAIN ran : ran[i].call.req \in Requests
      BY DEF AccountInv
    <3>2. \A i \in DOMAIN ran' : ran'[i] = x \/ (i \in DOMAIN ran /\ ran'[i] = ran[i])
      BY <2>1, <2>2, Appended
    <3> QED
      BY <1>1, <2>1, <3>1, <3>2, Costs DEF RunShare
  <2>4. \A r \in Roots : /\ RaisedIn(ran, r) \in Nat
                          /\ RaisedIn(ran', r) = RaisedIn(ran, r) + RunShare(x, r)
    BY <2>1, <2>2, <2>3, RaisedGrows
  <2>5. \A r \in Roots : PendingCost(r) = RunShare(x, r) + PendingCost(r)'
    <3>1. CASE raised
      <4>1. x.raised /\ pc' = "idle"
        BY <2>1, <3>1 DEF Over
      <4>2. \A r \in Roots : PendingCost(r)' = 0
        BY <4>1 DEF PendingCost
      <4>3. \A r \in Roots : PendingCost(r) = RunShare(x, r) /\ RunShare(x, r) \in Nat
        BY <1>1, <2>1, <2>3, <4>1 DEF PendingCost, RunShare
      <4> QED
        BY <4>2, <4>3
    <3>2. CASE ~raised
      BY <1>1, <2>1, <3>2 DEF PendingCost, RunShare, LogAs, Goto, PaidFor
    <3> QED
      BY <3>1, <3>2
  <2>6. (pc # "idle" => call.req \in Requests)'
    BY <1>1, <2>1 DEF Over, LogAs, Goto
  <2>7. \A r \in Roots : LoggedIn(event_log, r) \in Nat /\ RunShare(x, r) \in Nat
                          /\ PendingCost(r)' \in Nat
    <3>1. \A r \in Roots : PendingCost(r)' \in Nat
      BY <1>1, <2>1, <2>6 DEF PendingCost, Over, LogAs, Goto
    <3> QED
      BY <2>3, <3>1, Totals
  <2>8. \A r \in Roots : Balanced(r)'
    <3>1. \A r \in Roots : lost[r] \in Nat
      BY DEF AccountInv
    <3> QED
      BY <1>1, <2>4, <2>5, <2>7, <3>1 DEF AccountInv, Balanced
  <2> QED
    BY <1>1, <2>3, <2>8, <2>6 DEF AccountInv
<1> QED
  BY <1>2, <1>3 DEF Act

LEMMA EventAccount ==
  ASSUME GatewayInv, AccountInv, Log, UNCHANGED lost, NEW actual,
         event_log' = Append(event_log, Event(call, code, actual)), Over
  PROVE  AccountInv'
<1> DEFINE cost == call.req.tool.est_cost
<1>1. /\ pc = "log" /\ pc' = "idle" /\ UNCHANGED <<spent, ran>> /\ cost \in Nat
      /\ call.req \in Requests
  BY Costs DEF Log, Over, pdp, AccountInv
<1>2. PICK e : /\ e.cost = cost /\ e.decision = code /\ e.accountable_root = RootOf(call.req)
               /\ event_log' = Append(event_log, e)
  BY DEF Event
<1>3. IsSeq(event_log)
  BY DEF GatewayInv, Typed
<1>4. \A i \in DOMAIN event_log' : event_log'[i].cost \in Nat
  <2>1. \A i \in DOMAIN event_log' :
          event_log'[i] = e \/ (i \in DOMAIN event_log /\ event_log'[i] = event_log[i])
    BY <1>2, <1>3, Appended
  <2> QED
    BY <1>1, <1>2, <2>1 DEF AccountInv
<1>5. \A r : LoggedIn(event_log', r) = LoggedIn(event_log, r) + EventShare(e, r)
  <2>1. \A r : EventShare(e, r) \in Nat /\ \A i \in DOMAIN event_log : EventShare(event_log[i], r) \in Nat
    BY <1>1, <1>2 DEF AccountInv, EventShare
  <2> QED
    BY <1>2, <1>3, <2>1, LoggedGrows
<1>6. \A r : PendingCost(r) = EventShare(e, r) /\ PendingCost(r)' = 0
  BY <1>1, <1>2 DEF PendingCost, EventShare
<1>7. \A r \in Roots : Balanced(r)'
  <2>1. \A r \in Roots : /\ lost[r] \in Nat
                          /\ spent[r] = LoggedIn(event_log, r) + RaisedIn(ran, r) + lost[r]
                                           + PendingCost(r)
    BY DEF AccountInv, Balanced
  <2>2. \A r : /\ LoggedIn(event_log, r) \in Nat /\ RaisedIn(ran, r) \in Nat
               /\ PendingCost(r) \in Nat
    BY Totals
  <2> QED
    BY <1>1, <1>5, <1>6, <2>1, <2>2 DEF Balanced
<1> QED
  BY <1>1, <1>4, <1>7 DEF AccountInv

LEMMA LogAccount ==
  ASSUME GatewayInv, AccountInv, Log
  PROVE  AccountInv'
<1>1. pc = "log" /\ UNCHANGED <<spent, ran>> /\ call.req \in Requests
  BY DEF Log, pdp, AccountInv
<1>2. CASE UNCHANGED event_log /\ code \in PaidFor /\ Losing
  <2>1. \A r \in Roots : PendingCost(r) = LossShare(r)
    BY <1>1, <1>2 DEF PendingCost, LossShare
  <2> QED
    BY <1>1, <1>2, <2>1, LosingStep DEF AccountInv
<1>3. CASE UNCHANGED event_log /\ code \notin PaidFor /\ Over /\ UNCHANGED lost
  BY <1>1, <1>3, FreeStep DEF Free, Over
<1>4. CASE ~LogRaises
  BY <1>4, EventAccount DEF Log
<1> QED
  BY <1>2, <1>3, <1>4 DEF LogRaises

LEMMA FreeSteps ==
  ASSUME GatewayInv, AccountInv,
         (\E c \in Calls : Invoke(c)) \/ ReadSvid \/ ReadRole \/ ProofOfPossession
  PROVE  AccountInv'
<1>1. UNCHANGED <<spent, lost, event_log, ran>>
  BY DEF Invoke, ReadSvid, ReadRole, ProofOfPossession, pdp, trace
<1>2. Free
  BY DEF Invoke, ReadSvid, ReadRole, ProofOfPossession, Free
<1>3. CASE \E c \in Calls : Invoke(c)
  <2>1. PICK c \in Calls : Invoke(c)
    BY <1>3
  <2>2. /\ pc' \in {"idle", "svid", "pop", "log"} /\ (pc' = "log" => code' \notin PaidFor)
        /\ (pc' # "idle" => call' = c)
    BY <2>1 DEF Invoke, UnknownTool, AfterVerify, invoke, PaidFor
  <2> QED
    BY <1>1, <1>2, <2>2, FreeStep, GatewayAssumption DEF Free
<1>4. CASE ReadSvid \/ ReadRole \/ ProofOfPossession
  <2>1. /\ pc' \in {"idle", "role", "pop", "authorize", "log"} /\ (pc' = "log" => code' \notin PaidFor)
        /\ (pc' # "idle" => call' = call) /\ pc # "idle"
    BY <1>4 DEF ReadSvid, ReadRole, ProofOfPossession, Unbound, Bearer, Prove, Present, Over,
            Reject, LogAs, Goto, PaidFor
  <2>2. (pc # "idle" => call.req \in Requests)'
    BY <2>1 DEF AccountInv
  <2> QED
    BY <1>1, <1>2, <2>1, <2>2, FreeStep DEF Free
<1> QED
  BY <1>3, <1>4

LEMMA AccountStep == GatewayInv /\ AccountInv /\ [Next]_vars => AccountInv'
<1> SUFFICES ASSUME GatewayInv, AccountInv, [Next]_vars PROVE AccountInv'
  OBVIOUS
<1>1. CASE UNCHANGED vars
  BY <1>1, QuietAccount DEF vars, pdp, invoke, trace
<1>2. CASE \E t \in Tools : Register(t)
  BY <1>2, QuietAccount DEF Register, pdp, invoke, trace
<1>3. CASE \E row \in Enrollments : Enroll(row)
  BY <1>3, QuietAccount DEF Enroll, pdp, trace
<1>4. CASE \E v \in Vouches : Vouch(v[1], v[2])
  BY <1>4, QuietAccount DEF Vouch, IAM!Vouch, invoke, trace
<1>5. CASE Manage
  BY <1>5, QuietAccount DEF Manage, pdp, invoke, trace
<1> QED
  BY <1>1, <1>2, <1>3, <1>4, <1>5, FreeSteps, AuthorizeAccount, ActAccount, LogAccount DEF Next

LEMMA AccountSays == AccountInv => EveryChargeHasItsCall
<1>1. \A r : LoggedCost(r) = LoggedIn(event_log, r) /\ RaisedCost(r) = RaisedIn(ran, r)
  BY DEF LoggedCost, RaisedCost, LoggedIn, RaisedIn, EventShare, RunShare, Total
<1> QED
  BY <1>1 DEF AccountInv, Balanced, EveryChargeHasItsCall

(* Whatever a root has spent went to a call of its own that ran, was         *)
(* withheld, or raised; what fails a check is never charged.                 *)
THEOREM ChargesAddUp == Spec => []EveryChargeHasItsCall
<1>1. Spec => []GatewayInv
  BY InitGateway, GatewayStep, PTL DEF Spec
<1> QED
  BY <1>1, InitAccount, AccountStep, AccountSays, PTL DEF Spec
=============================================================================
