-------------------------------- MODULE Store ---------------------------------
(****************************************************************************)
(* store.py: authorize() over one SQLite file that several processes share  *)
(* (every MCP server of a user opens the same control-plane.db).            *)
(*                                                                          *)
(* One process runs Store.authorize() as the sequence of its statements,    *)
(* each of them a step that the other processes may interleave with:        *)
(*   resolve    one SELECT for each source of the manifest                  *)
(*   screen     checks 1 to 4, no statement                                 *)
(*   budget     SELECT the spend, check 5                                   *)
(*   charge     UPSERT spend_ledger, commit                                 *)
(*   emit       INSERT OR IGNORE triage_incident, commit                    *)
(*   last_hash  SELECT the newest row_hash                                  *)
(*   record     INSERT decision_audit, commit, return                       *)
(* A statement that raises ends the call: the exception leaves authorize(), *)
(* and nothing rolls the connection back.                                   *)
(****************************************************************************)
EXTENDS Decision, Sqlite

CONSTANTS
  Mints,         \* the identifiers of the tokens given to register_principal
  Registered,    \* those of them that were registered before the start
  Vouches,       \* the <<source, tier>> pairs that are vouched
  Narrowings,    \* the keyword arguments that holders pass to attenuate()
  MaxCost,       \* a bound on the cost of a call
  MaxCalls,      \* bounds of the model: authorize() calls,
  MaxAdmin,      \*   registrations and vouches,
  MaxCrashes     \*   process crashes

ASSUME StoreAssumption ==
  /\ IsFiniteSet(Procs) /\ Procs # {}
  /\ Registered \subseteq Mints
  /\ Vouches \subseteq Sources \X TrustTier
  /\ MaxCost \in Nat
  /\ \A req \in Requests : req.tool.est_cost <= MaxCost
  /\ MaxCalls \in Nat /\ MaxAdmin \in Nat /\ MaxCrashes \in Nat

(* The verifier's key and a signature are sequences of what they have signed,*)
(* and times and sums are natural numbers, also in the caveats.              *)
Signed(s) == Len(s) \in Nat /\ s = [i \in 1..Len(s) |-> s[i]]

TypedCaveat(c) == /\ c.t = "exp" => c.exp \in Nat
                  /\ c.t = "budget" => c.v \in Nat

TypedToken(t) ==
  /\ t = [identifier |-> t.identifier, caveats |-> t.caveats, sig |-> t.sig]
  /\ t.identifier.exp \in Nat /\ t.identifier.budget \in Nat
  /\ Signed(t.sig) /\ Signed(t.caveats)
  /\ \A i \in DOMAIN t.caveats : TypedCaveat(t.caveats[i])

ASSUME TokenAssumption ==
  /\ Signed(RootSecret)
  /\ \A req \in Requests :
       TypedToken(req.token) /\ req.now \in Nat /\ req.tool.risk_floor \in TrustTier
  /\ \A kw \in Narrowings : /\ "exp" \in DOMAIN kw => kw.exp \in Nat
                            /\ "budget" \in DOMAIN kw => kw.budget \in Nat

VARIABLES
  pc,       \* [Procs -> the statement authorize() is at, or "idle"]
  frame,    \* [Procs -> its local variables]
  used      \* how much of each bound has been used

vars == <<db, tx, conn, pc, frame, used>>

-----------------------------------------------------------------------------
(* A name with an underscore is a wrong form of the definition that follows  *)
(* it, which the mutation runs put in its place.                             *)
(*                                                                           *)
(* The tables.  A source without a row has tier UNATTESTED and a root        *)
(* without a ledger row has spent nothing, so both tables are total here.    *)

RegisteredRoots(image) == {i.root : i \in image.principal}

(* INSERT OR IGNORE: a root that already has a row keeps it. *)
WithPrincipal(image, ident) ==
  IF ident.root \in RegisteredRoots(image) THEN image
  ELSE [image EXCEPT !.principal = @ \cup {ident}]

WithTier(image, s, t) == [image EXCEPT !.tier[s] = t]

Charged_absolute(image, root, amount) == [image EXCEPT !.spent[root] = amount]
Charged(image, root, amount) == [image EXCEPT !.spent[root] = @ + amount]

WithIncident_dropped(image, packet) == image
WithIncident(image, packet) == [image EXCEPT !.incidents = @ \cup {packet}]

(* The foreign key on accountable_root; NULL is accepted. *)
ForeignKey(image, root) == root = None \/ root \in RegisteredRoots(image)

(* The audit row of a decision and its place in the hash chain.  SHA-256 is  *)
(* symbolic: the hash of a row is the hash before it with the row appended.  *)
RowHash_unchained(fields, prev) == <<fields>>
RowHash(fields, prev) == Append(prev, fields)

Fields(req, code) ==
  [ts |-> req.now, code |-> code, accountable_root |-> RootOf(req), actor |-> ActorOf(req),
   tool |-> req.tool.name,
   request_hash |-> [tool |-> req.tool.name, required_caps |-> req.tool.required_caps,
                     purpose |-> req.declared_purpose,
                     sources |-> SourcesOf(req.manifest), now |-> req.now]]

Row(fields, prev) ==
  [fields |-> fields, prev_hash |-> prev, row_hash |-> RowHash(fields, prev)]

WithRow(image, row) == [image EXCEPT !.audit = Append(@, row)]

NewestHash_oldest(image) == IF image.audit = <<>> THEN <<>> ELSE Head(image.audit).row_hash
NewestHash(image) == IF image.audit = <<>> THEN <<>> ELSE Last(image.audit).row_hash

(* DecisionAuditLog.verify_chain() *)
VerifyChain(audit) ==
  \A i \in DOMAIN audit :
    /\ audit[i].prev_hash = IF i = 1 THEN <<>> ELSE audit[i - 1].row_hash
    /\ audit[i].row_hash = RowHash(audit[i].fields, audit[i].prev_hash)

-----------------------------------------------------------------------------
(* Control *)

EmptyFrame ==
  [req |-> None, left |-> <<>>, tier |-> UNATTESTED, code |-> "", quoted |-> 0, prev |-> <<>>]

(* min() over no source is UNATTESTED; over some it starts at the top tier.  *)
FirstFrame(req) ==
  [req |-> req, left |-> req.manifest,
   tier |-> IF req.manifest = <<>> THEN UNATTESTED ELSE HUMAN_VOUCHED,
   code |-> "", quoted |-> 0, prev |-> <<>>]

ReadingSteps == {"resolve", "budget", "last_hash"}
WritingSteps == {"charge", "emit", "record"}
Steps == ReadingSteps \cup WritingSteps \cup {"screen"}

Goto(p, step) == pc' = [pc EXCEPT ![p] = step]

(* The call is over, by its return or by an exception. *)
Leave(p) ==
  /\ Goto(p, "idle")
  /\ frame' = [frame EXCEPT ![p] = EmptyFrame]
  /\ UNCHANGED used

Init ==
  /\ db = [principal |-> Registered, tier |-> [s \in Sources |-> UNATTESTED],
           spent |-> [r \in Roots |-> 0], incidents |-> {}, audit |-> <<>>]
  /\ tx = db
  /\ conn = [p \in Procs |-> "none"]
  /\ pc = [p \in Procs |-> "idle"]
  /\ frame = [p \in Procs |-> EmptyFrame]
  /\ used = [calls |-> 0, admin |-> 0, crashes |-> 0]

-----------------------------------------------------------------------------
(* authorize() *)

Call(p, req) ==
  /\ pc[p] = "idle" /\ used.calls < MaxCalls
  /\ used' = [used EXCEPT !.calls = @ + 1]
  /\ frame' = [frame EXCEPT ![p] = FirstFrame(req)]
  /\ Goto(p, IF req.manifest = <<>> THEN "screen" ELSE "resolve")
  /\ UNCHANGED <<db, tx, conn>>

WeakestSoFar_latest(t, found) == found
WeakestSoFar(t, found) == Least(t, found)

(* tier_of() for the next source of the manifest, folded with min. *)
ResolveSource(p) ==
  /\ pc[p] = "resolve" /\ Read(p)
  /\ LET found == Image(p).tier[Head(frame[p].left).source_id]
         rest  == Tail(frame[p].left)
     IN  /\ frame' = [frame EXCEPT ![p].tier = WeakestSoFar(@, found), ![p].left = rest]
         /\ Goto(p, IF rest = <<>> THEN "screen" ELSE "resolve")
  /\ UNCHANGED used

Check(p) ==
  /\ pc[p] = "screen"
  /\ LET code == Screen(frame[p].req, Claims[frame[p].req], frame[p].tier)
     IN  /\ frame' = [frame EXCEPT ![p].code = code]
         /\ Goto(p, IF code = "ALLOW" THEN "budget" ELSE "emit")
  /\ UNCHANGED <<db, tx, conn, used>>

(* ledger.spent(); a refusal reads it again for the text of the packet, taken*)
(* here as the same read.                                                    *)
ReadSpent(p) ==
  /\ pc[p] = "budget" /\ Read(p)
  /\ LET req     == frame[p].req
         already == Image(p).spent[RootOf(req)]
     IN  \/ /\ WithinBudget(req, Claims[req], already)
            /\ Goto(p, "charge")
            /\ UNCHANGED frame
         \/ /\ ~WithinBudget(req, Claims[req], already)
            /\ frame' = [frame EXCEPT ![p].code = "BUDGET", ![p].quoted = already]
            /\ Goto(p, "emit")
  /\ UNCHANGED used

Charge(p) ==
  LET req     == frame[p].req
      charged == Charged(Image(p), RootOf(req), req.tool.est_cost)
      ok      == ForeignKey(Image(p), RootOf(req))
  IN  /\ pc[p] = "charge"
      /\ \/ ok /\ Commit(p, charged) /\ Goto(p, "last_hash") /\ UNCHANGED <<frame, used>>
         \/ Raises(p, charged, ok) /\ Leave(p)

EmitIncident(p) ==
  LET f      == frame[p]
      packet == TriagePacket(f.code, f.req, f.tier, f.quoted)
      added  == WithIncident(Image(p), packet)
      ok     == ForeignKey(Image(p), RootOf(f.req))
  IN  /\ pc[p] = "emit"
      /\ \/ ok /\ Commit(p, added) /\ Goto(p, "last_hash") /\ UNCHANGED <<frame, used>>
         \/ Raises(p, added, ok) /\ Leave(p)

ReadLastHash(p) ==
  /\ pc[p] = "last_hash" /\ Read(p)
  /\ frame' = [frame EXCEPT ![p].prev = NewestHash(Image(p))]
  /\ Goto(p, "record")
  /\ UNCHANGED used

(* decision_audit references no other table; its INSERT meets no constraint. *)
Recorded(p) ==
  WithRow(Image(p), Row(Fields(frame[p].req, frame[p].code), frame[p].prev))

(* The row is committed and authorize() returns its decision.  (In the wrong *)
(* form it returns also when the row could not be recorded.)                 *)
Return_swallowed(p) ==
  /\ pc[p] = "record"
  /\ Commit(p, Recorded(p)) \/ Raises(p, Recorded(p), TRUE)
  /\ Leave(p)
Return(p) == pc[p] = "record" /\ Commit(p, Recorded(p)) /\ Leave(p)

RecordRaises(p) == pc[p] = "record" /\ Raises(p, Recorded(p), TRUE) /\ Leave(p)

(* A SELECT that finds the file locked until the busy timeout expires; the   *)
(* wrong form waits for the lock without one.                                *)
ReadRaises_waiting(p) == FALSE
ReadRaises(p) == pc[p] \in ReadingSteps /\ ReadBusy(p) /\ Leave(p)

-----------------------------------------------------------------------------
(* The other writers *)

Administer(p, new) ==
  /\ pc[p] = "idle" /\ used.admin < MaxAdmin
  /\ used' = [used EXCEPT !.admin = @ + 1]
  /\ Commit(p, new) \/ Raises(p, new, TRUE)
  /\ UNCHANGED <<pc, frame>>

RegisterPrincipal(p, ident) == Administer(p, WithPrincipal(Image(p), ident))

Vouch(p, s, t) == Administer(p, WithTier(Image(p), s, t))

(* A process dies between two statements and is started again. *)
Crash(p) ==
  /\ used.crashes < MaxCrashes
  /\ pc[p] # "idle" \/ conn[p] # "none"
  /\ used' = [used EXCEPT !.crashes = @ + 1]
  /\ Close(p)
  /\ Goto(p, "idle")
  /\ frame' = [frame EXCEPT ![p] = EmptyFrame]

-----------------------------------------------------------------------------
(* Every statement of authorize() but the one it returns from. *)
Proceeding(p) ==
  \/ ResolveSource(p) \/ Check(p) \/ ReadSpent(p) \/ Charge(p)
  \/ EmitIncident(p) \/ ReadLastHash(p) \/ RecordRaises(p) \/ ReadRaises(p)

Authorizing(p) == Proceeding(p) \/ Return(p)

Next ==
  \E p \in Procs :
    \/ \E req \in Requests : Call(p, req)
    \/ Authorizing(p)
    \/ \E ident \in Mints : RegisterPrincipal(p, ident)
    \/ \E v \in Vouches : Vouch(p, v[1], v[2])
    \/ Crash(p)

Spec == Init /\ [][Next]_vars

(* A process that runs keeps executing the statements of the call it is in:  *)
(* the code is straight-line and every wait has the busy timeout.            *)
FairSpec == Spec /\ \A p \in Procs : WF_vars(Authorizing(p))

-----------------------------------------------------------------------------
(* Properties.  They speak of the committed content, and where a transaction *)
(* is open also of the content it would commit.                              *)

Codes == {"ALLOW", "IDENTITY", "CAPABILITY", "PURPOSE", "PROVENANCE", "BUDGET"}
AllFields == {Fields(req, code) : req \in Requests, code \in Codes}
Hashes == Seq(AllFields)
Rows == [fields : AllFields, prev_hash : Hashes, row_hash : Hashes]

(* The content of a file; nothing reads an incident back.                    *)
IsImage(d) ==
  d \in [principal : SUBSET Mints, tier : [Sources -> TrustTier], spent : [Roots -> Nat],
         incidents : {d.incidents}, audit : Seq(Rows)]

Frames ==
  [req : Requests \cup {None}, left : Seq([source_id : Sources, tier : TrustTier]),
   tier : TrustTier, code : Codes \cup {""}, quoted : Nat, prev : Hashes]

(* What the statement at which p is finds among the local variables. *)
FrameOK(p) ==
  /\ pc[p] # "idle" => frame[p].req \in Requests
  /\ pc[p] = "resolve" => frame[p].left # <<>>
  /\ pc[p] \in {"budget", "charge"} => frame[p].code = "ALLOW" /\ Claims[frame[p].req].ok
  /\ pc[p] \in {"emit", "last_hash", "record"} => frame[p].code \in Codes

(* The tables, the connections and the calls in progress have their types,   *)
(* and no statement of authorize() is reached without what it needs.         *)
TypeOK ==
  /\ IsImage(db) /\ IsImage(tx)
  /\ conn \in [Procs -> Modes]
  /\ pc \in [Procs -> Steps \cup {"idle"}]
  /\ frame \in [Procs -> Frames]
  /\ used \in [calls : 0..MaxCalls, admin : 0..MaxAdmin, crashes : 0..MaxCrashes]
  /\ \A p \in Procs : FrameOK(p)

InCall(p) == pc[p] # "idle"
Charging(p, r) == pc[p] = "charge" /\ RootOf(frame[p].req) = r
Allowed(p, r) ==
  pc[p] \in {"last_hash", "record"} /\ frame[p].code = "ALLOW" /\ RootOf(frame[p].req) = r

(* Check 5 as agent_iam.py states it: the spend of a root stays within the   *)
(* ceiling.  It holds for one process.  For several it is false: the spend   *)
(* is read by one statement and charged by a later one.                      *)
BudgetCeiling == \A r \in Roots : db.spent[r] <= Ceiling[r]

(* What several processes do guarantee: every process but one can be past    *)
(* its check with a charge that the others' checks have not seen, hence the  *)
(* overspend is less than one call's cost for each process but one.          *)
OverspendBounded ==
  \A r \in Roots : db.spent[r] <= Ceiling[r] + (Cardinality(Procs) - 1) * MaxCost

CostOf(tool) == (CHOOSE req \in Requests : req.tool.name = tool).tool.est_cost

AuditedCost(image, r) ==
  FoldLeft(LAMBDA sum, row :
             IF row.fields.code = "ALLOW" /\ row.fields.accountable_root = r
             THEN sum + CostOf(row.fields.tool) ELSE sum,
           0, image.audit)

UnauditedCost(r) ==
  MapThenSumSet(LAMBDA p : frame[p].req.tool.est_cost, {p \in Procs : Allowed(p, r)})

(* Nothing in the audit log is allowed for free: the audited ALLOWs of a     *)
(* root and the calls between their charge and their row are covered by the  *)
(* root's spend, whatever crashes and lock failures happened.                *)
AuditedAllowsAreCharged ==
  \A image \in {db, tx}, r \in Roots :
    AuditedCost(image, r) + UnauditedCost(r) <= image.spent[r]

(* The other direction: every charge ends up in an audit row, or its call is *)
(* still on the way there.  It holds as long as no process crashes and no    *)
(* statement raises.                                                         *)
EveryChargeIsAudited ==
  \A r \in Roots : AuditedCost(db, r) + UnauditedCost(r) = db.spent[r]

(* The tokens of a root share its ledger, and each has a budget of its own:  *)
(* with one process, each audited ALLOW together with all that its root was  *)
(* allowed before fits into the budget of the very token it was asked with.  *)
AllowsWithinBudget ==
  \A i \in DOMAIN db.audit :
    LET row   == db.audit[i].fields
        sofar == [audit |-> SubSeq(db.audit, 1, i)]
    IN  row.code = "ALLOW" =>
          \E req \in Requests :
            /\ Fields(req, "ALLOW") = row
            /\ AuditedCost(sofar, row.accountable_root) <= Claims[req].budget

(* Every refusal that the audit log shows has its incident in the chronicle, *)
(* so that the vouch it waits for can be asked for.                          *)
RefusalsAreChronicled ==
  \A image \in {db, tx} : \A i \in DOMAIN image.audit :
    LET row == image.audit[i].fields IN
    row.code # "ALLOW" =>
      \E inc \in image.incidents :
        /\ inc.code = row.code /\ inc.tool = row.tool /\ inc.now = row.ts
        /\ inc.accountable_root = row.accountable_root /\ inc.actor = row.actor

(* verify_chain() answers true for a log nobody edited.  It holds for one    *)
(* process, through crashes and failed statements.                           *)
ChainIntact == VerifyChain(db.audit)

(* With several processes the log is not a chain but a tree: each row still  *)
(* commits to some earlier row, or to the beginning, and to all before it.   *)
AuditIsATree ==
  \A image \in {db, tx} : \A i \in DOMAIN image.audit :
    LET row == image.audit[i] IN
    /\ row.row_hash = Append(row.prev_hash, row.fields)
    /\ row.prev_hash = <<>> \/ \E j \in 1..(i - 1) : image.audit[j].row_hash = row.prev_hash

(* An audited ALLOW acted on vouched data: when sources are only ever lifted,*)
(* every source it cited still meets the floor of its tool, although the     *)
(* tiers were read several statements before the row was written.            *)
FloorOf(tool) == (CHOOSE req \in Requests : req.tool.name = tool).tool.risk_floor

AllowedOnVouchedData ==
  \A i \in DOMAIN db.audit :
    LET row == db.audit[i].fields IN
    row.code = "ALLOW" =>
      \A s \in row.request_hash.sources : db.tier[s] >= FloorOf(row.tool)

(* When every root is registered and no two processes contend at a commit,   *)
(* no call leaves its connection inside a transaction.                       *)
NoTransactionLeftOpen == \A p \in Procs : conn[p] = "none"

(* Every call ends: by its decision, or by the exception of a statement that *)
(* was refused or found the file locked.                                     *)
EveryCallEnds == \A p \in Procs : InCall(p) ~> ~InCall(p)

(* One process implements the in-memory decision point, statement by         *)
(* statement, through crashes and refused rows.                              *)
InMemory == INSTANCE AgentIAM WITH
  tier <- db.tier, spent <- db.spent, emitted <- db.incidents

ImplementsInMemory == InMemory!Spec

(* Vouching what a PENDING call names, to the floor it names, gets that call *)
(* past the provenance check (agent_iam.py, the prerequisite).               *)
PrerequisiteSuffices == InMemory!PrerequisiteSuffices

Delegations ==
  { [req |-> req, claims |-> Verify(Attenuate(Attenuate(req.token, one), two), RootSecret, req.now)] :
      req \in Requests, one \in Narrowings, two \in Narrowings }

(* A delegated token unlocks nothing: whatever is added to a token in two    *)
(* hops, a call that the longer token is allowed, the shorter one was        *)
(* allowed too (attenuate(): "Every argument can only NARROW the token").    *)
AttenuationNeverUnlocks ==
  \A d \in Delegations :
    LET actual == MinTier(d.req.manifest, db.tier)
    IN  Decide(d.req, d.claims, actual, db.spent) = "ALLOW"
          => Decide(d.req, Claims[d.req], actual, db.spent) = "ALLOW"
=============================================================================
