----------------------------- MODULE StoreProofs ------------------------------
(****************************************************************************)
(* Theorems about Store, for any number of processes, roots, sources and    *)
(* calls: type correctness, the bound on the overspend, what the audit log  *)
(* and the ledger owe each other, and, of the decision itself, that the     *)
(* prerequisite of a PENDING call answers it and that no caveat added to a  *)
(* token opens a call.                                                      *)
(****************************************************************************)
EXTENDS Store, FoldProofs

-----------------------------------------------------------------------------
(* The operators on the tables *)

(* Each way of writing a table yields tables of the same types.              *)
LEMMA ImageWithPrincipal ==
  ASSUME NEW d, IsImage(d), NEW ident \in Mints
  PROVE  IsImage(WithPrincipal(d, ident))
BY DEF IsImage, WithPrincipal

LEMMA ImageWithTier ==
  ASSUME NEW d, IsImage(d), NEW s \in Sources, NEW t \in TrustTier
  PROVE  IsImage(WithTier(d, s, t))
BY DEF IsImage, WithTier

LEMMA ImageCharged ==
  ASSUME NEW d, IsImage(d), NEW r \in Roots, NEW n \in Nat
  PROVE  IsImage(Charged(d, r, n))
<1>1. d.spent[r] + n \in Nat
  BY DEF IsImage
<1>2. [d.spent EXCEPT ![r] = @ + n] \in [Roots -> Nat]
  BY <1>1 DEF IsImage
<1>3. Charged(d, r, n) = [d EXCEPT !.spent = [d.spent EXCEPT ![r] = @ + n]]
  BY DEF Charged, IsImage
<1> QED
  BY <1>2, <1>3 DEF IsImage

LEMMA ImageWithIncident ==
  ASSUME NEW d, IsImage(d), NEW packet
  PROVE  IsImage(WithIncident(d, packet))
BY DEF IsImage, WithIncident

LEMMA RowType ==
  ASSUME NEW fields \in AllFields, NEW prev \in Hashes
  PROVE  Row(fields, prev) \in Rows
BY DEF Row, Rows, Hashes, RowHash

LEMMA ImageWithRow ==
  ASSUME NEW d, IsImage(d), NEW row \in Rows
  PROVE  IsImage(WithRow(d, row))
<1>1. Append(d.audit, row) \in Seq(Rows)
  BY DEF IsImage
<1>2. WithRow(d, row) = [d EXCEPT !.audit = Append(d.audit, row)]
  BY DEF WithRow
<1> QED
  BY <1>1, <1>2 DEF IsImage

LEMMA NewestHashType ==
  ASSUME NEW d, IsImage(d)
  PROVE  NewestHash(d) \in Hashes
<1>1. CASE d.audit = <<>>
  BY <1>1 DEF NewestHash, Hashes
<1>2. CASE d.audit # <<>>
  <2>1. d.audit \in Seq(Rows)
    BY DEF IsImage
  <2>2. Len(d.audit) \in 1..Len(d.audit)
    BY <1>2, <2>1
  <2>3. Last(d.audit) \in Rows
    BY <2>1, <2>2 DEF Last
  <2> QED
    BY <1>2, <2>3 DEF NewestHash, Rows
<1> QED
  BY <1>1, <1>2

-----------------------------------------------------------------------------
(* Type correctness *)

(* The connection and the content that a process sees, after any step of     *)
(* Sqlite.                                                                   *)
LEMMA ImageType ==
  ASSUME TypeOK, NEW p \in Procs
  PROVE  IsImage(Image(p))
BY DEF TypeOK, Image

LEMMA ReadType ==
  ASSUME TypeOK, NEW p \in Procs, Read(p)
  PROVE  IsImage(db)' /\ IsImage(tx)' /\ conn' \in [Procs -> Modes]
BY DEF TypeOK, Read, Modes, IsImage

LEMMA CommitType ==
  ASSUME TypeOK, NEW p \in Procs, NEW new, IsImage(new), Commit(p, new)
  PROVE  IsImage(db)' /\ IsImage(tx)' /\ conn' \in [Procs -> Modes]
BY DEF TypeOK, Commit, Modes, IsImage

LEMMA RaisesType ==
  ASSUME TypeOK, NEW p \in Procs, NEW new, IsImage(new), NEW ok, Raises(p, new, ok)
  PROVE  IsImage(db)' /\ IsImage(tx)' /\ conn' \in [Procs -> Modes]
<1>1. IsImage(Image(p))
  BY ImageType
<1>2. CASE WriteBusy(p)
  BY <1>2 DEF TypeOK, WriteBusy, Modes, IsImage
<1>3. CASE CommitBusy(p, new)
  BY <1>3 DEF TypeOK, CommitBusy, Modes, IsImage
<1>4. CASE ConstraintFails(p)
  BY <1>1, <1>4 DEF TypeOK, ConstraintFails, Modes, IsImage
<1> QED
  BY <1>2, <1>3, <1>4 DEF Raises

LEMMA CloseType ==
  ASSUME TypeOK, NEW p \in Procs, Close(p)
  PROVE  IsImage(db)' /\ IsImage(tx)' /\ conn' \in [Procs -> Modes]
BY DEF TypeOK, Close, Modes, IsImage

(* A process that leaves its call leaves a well-typed control state.         *)
LEMMA EmptyFrameType == EmptyFrame \in Frames
BY DEF EmptyFrame, Frames, Hashes, TrustTier, UNATTESTED

LEMMA LeaveType ==
  ASSUME TypeOK, NEW p \in Procs, Leave(p)
  PROVE  /\ pc' \in [Procs -> Steps \cup {"idle"}]
         /\ frame' \in [Procs -> Frames]
         /\ used' = used
         /\ \A q \in Procs : FrameOK(q)'
<1>1. pc' = [pc EXCEPT ![p] = "idle"] /\ frame' = [frame EXCEPT ![p] = EmptyFrame]
  BY DEF Leave, Goto
<1>2. pc' \in [Procs -> Steps \cup {"idle"}] /\ frame' \in [Procs -> Frames]
  BY <1>1, EmptyFrameType DEF TypeOK
<1>3. ASSUME NEW q \in Procs PROVE FrameOK(q)'
  BY <1>1, <1>2 DEF TypeOK, FrameOK
<1> QED
  BY <1>2, <1>3 DEF Leave

(* A step to another statement of the same call. *)
LEMMA AdvanceType ==
  ASSUME TypeOK, NEW p \in Procs, NEW step \in Steps, NEW f \in Frames,
         Goto(p, step), frame' = [frame EXCEPT ![p] = f],
         f.req \in Requests,
         step = "resolve" => f.left # <<>>,
         step \in {"budget", "charge"} => f.code = "ALLOW" /\ Claims[f.req].ok,
         step \in {"emit", "last_hash", "record"} => f.code \in Codes
  PROVE  /\ pc' \in [Procs -> Steps \cup {"idle"}]
         /\ frame' \in [Procs -> Frames]
         /\ \A q \in Procs : FrameOK(q)'
<1>1. pc' \in [Procs -> Steps \cup {"idle"}] /\ frame' \in [Procs -> Frames]
  BY DEF TypeOK, Goto
<1>2. ASSUME NEW q \in Procs PROVE FrameOK(q)'
  <2>1. CASE q = p
    BY <1>1, <2>1 DEF TypeOK, Goto, FrameOK
  <2>2. CASE q # p
    BY <1>1, <2>2 DEF TypeOK, Goto, FrameOK
  <2> QED
    BY <2>1, <2>2
<1> QED
  BY <1>1, <1>2

LEMMA ScreenType ==
  ASSUME NEW req, NEW claims, NEW actual
  PROVE  /\ Screen(req, claims, actual) \in Codes
         /\ Screen(req, claims, actual) = "ALLOW" => claims.ok
BY DEF Screen, Codes

LEMMA InitType == Init => TypeOK
<1> SUFFICES ASSUME Init PROVE TypeOK
  OBVIOUS
<1>1. IsImage(db) /\ tx = db
  BY StoreAssumption DEF Init, IsImage, TrustTier, UNATTESTED, Rows
<1>2. frame \in [Procs -> Frames] /\ pc = [p \in Procs |-> "idle"]
  BY EmptyFrameType DEF Init
<1>3. used \in [calls : 0..MaxCalls, admin : 0..MaxAdmin, crashes : 0..MaxCrashes]
  BY StoreAssumption DEF Init
<1> QED
  BY <1>1, <1>2, <1>3 DEF Init, TypeOK, Modes, FrameOK

LEMMA FirstFrameType ==
  ASSUME NEW req \in Requests
  PROVE  FirstFrame(req) \in Frames
<1>1. req.manifest \in Seq([source_id : Sources, tier : TrustTier])
  BY RequestAssumption
<1> QED
  BY <1>1 DEF FirstFrame, Frames, Hashes, TrustTier, UNATTESTED, HUMAN_VOUCHED

LEMMA CallType ==
  ASSUME TypeOK, NEW p \in Procs, NEW req \in Requests, Call(p, req)
  PROVE  TypeOK'
<1> DEFINE step == IF req.manifest = <<>> THEN "screen" ELSE "resolve"
<1>1. FirstFrame(req) \in Frames
  BY FirstFrameType
<1>2. FirstFrame(req).req = req /\ FirstFrame(req).left = req.manifest
  BY DEF FirstFrame
<1>3. Goto(p, step) /\ frame' = [frame EXCEPT ![p] = FirstFrame(req)]
  BY DEF Call
<1>4. step \in Steps /\ step \notin {"budget", "charge", "emit", "last_hash", "record"}
  BY DEF Steps, ReadingSteps
<1>5. step = "resolve" => FirstFrame(req).left # <<>>
  BY <1>2
<1>6. /\ pc' \in [Procs -> Steps \cup {"idle"}]
      /\ frame' \in [Procs -> Frames]
      /\ \A q \in Procs : FrameOK(q)'
  <2> HIDE DEF step
  <2> QED
    BY <1>1, <1>2, <1>3, <1>4, <1>5, AdvanceType
<1>7. used' \in [calls : 0..MaxCalls, admin : 0..MaxAdmin, crashes : 0..MaxCrashes]
  BY StoreAssumption DEF TypeOK, Call
<1>8. IsImage(db)' /\ IsImage(tx)' /\ conn' \in [Procs -> Modes]
  BY DEF TypeOK, Call, IsImage
<1> QED
  BY <1>6, <1>7, <1>8 DEF TypeOK

LEMMA ResolveSourceType ==
  ASSUME TypeOK, NEW p \in Procs, ResolveSource(p)
  PROVE  TypeOK'
<1> DEFINE found == Image(p).tier[Head(frame[p].left).source_id]
           rest  == Tail(frame[p].left)
           f     == [frame[p] EXCEPT !.tier = WeakestSoFar(@, found), !.left = rest]
           step  == IF rest = <<>> THEN "screen" ELSE "resolve"
<1>1. frame[p] \in Frames /\ frame[p].left # <<>> /\ frame[p].req \in Requests
  BY DEF TypeOK, ResolveSource, FrameOK
<1>2. Head(frame[p].left) \in [source_id : Sources, tier : TrustTier]
      /\ rest \in Seq([source_id : Sources, tier : TrustTier])
  <2>1. ASSUME NEW S, NEW left \in Seq(S), left # <<>>
        PROVE  Head(left) \in S /\ Tail(left) \in Seq(S)
    BY <2>1
  <2>2. frame[p].left \in Seq([source_id : Sources, tier : TrustTier])
    BY <1>1 DEF Frames
  <2> QED
    BY <1>1, <2>1, <2>2
<1>3. found \in TrustTier
  BY <1>2, ImageType DEF IsImage
<1>4. f \in Frames /\ f.req \in Requests /\ f.left = rest
  BY <1>1, <1>2, <1>3 DEF Frames, WeakestSoFar, Least
<1>5. Goto(p, step) /\ frame' = [frame EXCEPT ![p] = f]
  BY DEF ResolveSource, TypeOK
<1>6. step \in Steps /\ step \notin {"budget", "charge", "emit", "last_hash", "record"}
      /\ (step = "resolve" => f.left # <<>>)
  BY <1>4 DEF Steps, ReadingSteps
<1>7. /\ pc' \in [Procs -> Steps \cup {"idle"}]
      /\ frame' \in [Procs -> Frames]
      /\ \A q \in Procs : FrameOK(q)'
  <2> HIDE DEF step, f
  <2> QED
    BY <1>4, <1>5, <1>6, AdvanceType
<1> QED
  BY <1>7, ReadType DEF ResolveSource, TypeOK

LEMMA CheckType ==
  ASSUME TypeOK, NEW p \in Procs, Check(p)
  PROVE  TypeOK'
<1> DEFINE code == Screen(frame[p].req, Claims[frame[p].req], frame[p].tier)
           f    == [frame[p] EXCEPT !.code = code]
           step == IF code = "ALLOW" THEN "budget" ELSE "emit"
<1>1. frame[p] \in Frames /\ frame[p].req \in Requests
  BY DEF TypeOK, Check, FrameOK
<1>2. code \in Codes /\ (code = "ALLOW" => Claims[frame[p].req].ok)
  BY ScreenType
<1>3. f \in Frames /\ f.req = frame[p].req /\ f.code = code
  <2> HIDE DEF code
  <2> QED
    BY <1>1, <1>2 DEF Frames
<1>4. Goto(p, step) /\ frame' = [frame EXCEPT ![p] = f]
  BY DEF Check, TypeOK
<1>5. step \in Steps /\ step \notin {"resolve", "charge", "last_hash", "record"}
      /\ (step = "budget" => code = "ALLOW")
  BY DEF Steps, ReadingSteps, WritingSteps
<1>6. /\ pc' \in [Procs -> Steps \cup {"idle"}]
      /\ frame' \in [Procs -> Frames]
      /\ \A q \in Procs : FrameOK(q)'
  <2> HIDE DEF code, step, f
  <2> QED
    BY <1>1, <1>2, <1>3, <1>4, <1>5, AdvanceType
<1> QED
  BY <1>6 DEF Check, TypeOK, IsImage

(* A call that has passed checks 1 to 4 has a root, whose ledger row is read.*)
LEMMA PassedHasRoot ==
  ASSUME TypeOK, NEW p \in Procs, pc[p] \in {"budget", "charge"}
  PROVE  /\ frame[p].req \in Requests
         /\ RootOf(frame[p].req) = Claims[frame[p].req].accountable_root
         /\ RootOf(frame[p].req) \in Roots
         /\ Claims[frame[p].req].budget \in Nat
         /\ frame[p].req.tool.est_cost \in Nat
BY RequestAssumption DEF TypeOK, FrameOK, RootOf

LEMMA ReadSpentType ==
  ASSUME TypeOK, NEW p \in Procs, ReadSpent(p)
  PROVE  TypeOK'
<1> DEFINE already == Image(p).spent[RootOf(frame[p].req)]
<1>1. frame[p] \in Frames /\ frame[p].req \in Requests
      /\ frame[p].code = "ALLOW" /\ Claims[frame[p].req].ok
  BY DEF TypeOK, ReadSpent, FrameOK
<1>2. already \in Nat
  BY PassedHasRoot, ImageType DEF ReadSpent, IsImage
<1>3. CASE Goto(p, "charge") /\ UNCHANGED frame
  <2>1. frame' = [frame EXCEPT ![p] = frame[p]]
    BY <1>3 DEF TypeOK
  <2>2. "charge" \in Steps
    BY DEF Steps, WritingSteps
  <2> QED
    BY <1>1, <1>3, <2>1, <2>2, AdvanceType, ReadType DEF ReadSpent, TypeOK
<1>4. CASE /\ frame' = [frame EXCEPT ![p].code = "BUDGET", ![p].quoted = already]
           /\ Goto(p, "emit")
  <2> DEFINE f == [frame[p] EXCEPT !.code = "BUDGET", !.quoted = already]
  <2>1. f \in Frames /\ f.req = frame[p].req /\ f.code \in Codes
    <3> HIDE DEF already
    <3> QED
      BY <1>1, <1>2 DEF Frames, Codes
  <2>2. frame' = [frame EXCEPT ![p] = f]
    BY <1>4 DEF TypeOK
  <2>3. "emit" \in Steps
    BY DEF Steps, WritingSteps
  <2> HIDE DEF f
  <2> QED
    BY <1>1, <1>4, <2>1, <2>2, <2>3, AdvanceType, ReadType DEF ReadSpent, TypeOK
<1> QED
  BY <1>3, <1>4 DEF ReadSpent

(* A write that succeeds moves on to the hash of the newest audit row; one   *)
(* that raises ends the call.                                                *)
LEMMA WriteType ==
  ASSUME TypeOK, NEW p \in Procs, NEW new, IsImage(new), NEW ok,
         pc[p] \in {"charge", "emit"},
         \/ Commit(p, new) /\ Goto(p, "last_hash") /\ UNCHANGED <<frame, used>>
         \/ Raises(p, new, ok) /\ Leave(p)
  PROVE  TypeOK'
<1>1. CASE Commit(p, new) /\ Goto(p, "last_hash") /\ UNCHANGED <<frame, used>>
  <2>1. frame[p] \in Frames /\ frame[p].req \in Requests /\ frame[p].code \in Codes
    BY DEF TypeOK, FrameOK, Codes
  <2>2. "last_hash" \in Steps /\ frame' = [frame EXCEPT ![p] = frame[p]]
    BY <1>1 DEF Steps, ReadingSteps, TypeOK
  <2> QED
    BY <1>1, <2>1, <2>2, AdvanceType, CommitType DEF TypeOK
<1>2. CASE Raises(p, new, ok) /\ Leave(p)
  BY <1>2, RaisesType, LeaveType DEF TypeOK
<1> QED
  BY <1>1, <1>2

LEMMA ChargeType ==
  ASSUME TypeOK, NEW p \in Procs, Charge(p)
  PROVE  TypeOK'
<1> DEFINE charged == Charged(Image(p), RootOf(frame[p].req), frame[p].req.tool.est_cost)
           ok      == ForeignKey(Image(p), RootOf(frame[p].req))
<1>1. IsImage(charged)
  BY PassedHasRoot, ImageType, ImageCharged DEF Charge
<1>2. pc[p] \in {"charge", "emit"}
      /\ \/ Commit(p, charged) /\ Goto(p, "last_hash") /\ UNCHANGED <<frame, used>>
         \/ Raises(p, charged, ok) /\ Leave(p)
  BY DEF Charge
<1> HIDE DEF charged, ok
<1> QED
  BY <1>1, <1>2, WriteType

LEMMA EmitIncidentType ==
  ASSUME TypeOK, NEW p \in Procs, EmitIncident(p)
  PROVE  TypeOK'
<1> DEFINE packet == TriagePacket(frame[p].code, frame[p].req, frame[p].tier, frame[p].quoted)
           added  == WithIncident(Image(p), packet)
           ok     == ForeignKey(Image(p), RootOf(frame[p].req))
<1>1. IsImage(added)
  BY ImageType, ImageWithIncident
<1>2. pc[p] \in {"charge", "emit"}
      /\ \/ Commit(p, added) /\ Goto(p, "last_hash") /\ UNCHANGED <<frame, used>>
         \/ Raises(p, added, ok) /\ Leave(p)
  BY DEF EmitIncident
<1> HIDE DEF added, ok
<1> QED
  BY <1>1, <1>2, WriteType

LEMMA ReadLastHashType ==
  ASSUME TypeOK, NEW p \in Procs, ReadLastHash(p)
  PROVE  TypeOK'
<1> DEFINE newest == NewestHash(Image(p))
           f      == [frame[p] EXCEPT !.prev = newest]
<1>1. frame[p] \in Frames /\ frame[p].req \in Requests /\ frame[p].code \in Codes
  BY DEF TypeOK, ReadLastHash, FrameOK
<1>2. newest \in Hashes
  BY ImageType, NewestHashType
<1>3. f \in Frames /\ f.req = frame[p].req /\ f.code = frame[p].code
  <2> HIDE DEF newest
  <2> QED
    BY <1>1, <1>2 DEF Frames
<1>4. Goto(p, "record") /\ frame' = [frame EXCEPT ![p] = f] /\ "record" \in Steps
  BY DEF ReadLastHash, TypeOK, Steps, WritingSteps
<1> HIDE DEF f
<1> QED
  BY <1>1, <1>3, <1>4, AdvanceType, ReadType DEF ReadLastHash, TypeOK

(* The last statement of authorize(), whether it returns or raises. *)
Record(p) == Return(p) \/ RecordRaises(p)

LEMMA RecordType ==
  ASSUME TypeOK, NEW p \in Procs, Record(p)
  PROVE  TypeOK'
<1> DEFINE fields   == Fields(frame[p].req, frame[p].code)
           appended == WithRow(Image(p), Row(fields, frame[p].prev))
<1>1. frame[p].prev \in Hashes /\ frame[p].req \in Requests /\ frame[p].code \in Codes
  BY DEF TypeOK, Record, Return, RecordRaises, Recorded, FrameOK, Frames
<1>2. fields \in AllFields
  BY <1>1 DEF AllFields
<1>3. IsImage(appended)
  <2> HIDE DEF fields
  <2> QED
    BY <1>1, <1>2, RowType, ImageType, ImageWithRow
<1>4. Leave(p) /\ (Commit(p, appended) \/ Raises(p, appended, TRUE))
  BY DEF Record, Return, RecordRaises, Recorded
<1> HIDE DEF appended
<1> QED
  BY <1>3, <1>4, CommitType, RaisesType, LeaveType DEF TypeOK

LEMMA ReadRaisesType ==
  ASSUME TypeOK, NEW p \in Procs, ReadRaises(p)
  PROVE  TypeOK'
BY LeaveType DEF ReadRaises, ReadBusy, TypeOK, IsImage

LEMMA AdministerType ==
  ASSUME TypeOK, NEW p \in Procs, NEW new, IsImage(new), Administer(p, new)
  PROVE  TypeOK'
<1>1. used' \in [calls : 0..MaxCalls, admin : 0..MaxAdmin, crashes : 0..MaxCrashes]
  BY StoreAssumption DEF TypeOK, Administer
<1>2. IsImage(db)' /\ IsImage(tx)' /\ conn' \in [Procs -> Modes]
  BY CommitType, RaisesType DEF Administer
<1>3. \A q \in Procs : FrameOK(q)'
  BY DEF Administer, TypeOK, FrameOK
<1> QED
  BY <1>1, <1>2, <1>3 DEF Administer, TypeOK

LEMMA CrashType ==
  ASSUME TypeOK, NEW p \in Procs, Crash(p)
  PROVE  TypeOK'
<1>1. used' \in [calls : 0..MaxCalls, admin : 0..MaxAdmin, crashes : 0..MaxCrashes]
  BY StoreAssumption DEF TypeOK, Crash
<1>2. pc' \in [Procs -> Steps \cup {"idle"}] /\ frame' \in [Procs -> Frames]
  BY EmptyFrameType DEF TypeOK, Crash, Goto
<1>3. \A q \in Procs : FrameOK(q)'
  BY <1>2 DEF Crash, Goto, TypeOK, FrameOK
<1>4. IsImage(db)' /\ IsImage(tx)' /\ conn' \in [Procs -> Modes]
  BY CloseType DEF Crash
<1> QED
  BY <1>1, <1>2, <1>3, <1>4 DEF TypeOK

LEMMA StepType == TypeOK /\ [Next]_vars => TypeOK'
<1> SUFFICES ASSUME TypeOK, [Next]_vars PROVE TypeOK'
  OBVIOUS
<1>1. CASE UNCHANGED vars
  BY <1>1 DEF vars, TypeOK, IsImage, FrameOK
<1>2. ASSUME NEW p \in Procs, Authorizing(p) PROVE TypeOK'
  BY <1>2, ResolveSourceType, CheckType, ReadSpentType, ChargeType, EmitIncidentType,
     ReadLastHashType, RecordType, ReadRaisesType DEF Authorizing, Proceeding, Record
<1>3. ASSUME NEW p \in Procs, NEW req \in Requests, Call(p, req) PROVE TypeOK'
  BY <1>3, CallType
<1>4. ASSUME NEW p \in Procs, NEW ident \in Mints, RegisterPrincipal(p, ident) PROVE TypeOK'
  BY <1>4, ImageType, ImageWithPrincipal, AdministerType DEF RegisterPrincipal
<1>5. ASSUME NEW p \in Procs, NEW v \in Vouches, Vouch(p, v[1], v[2]) PROVE TypeOK'
  <2>1. v[1] \in Sources /\ v[2] \in TrustTier
    BY StoreAssumption
  <2> QED
    BY <1>5, <2>1, ImageType, ImageWithTier, AdministerType DEF Vouch
<1>6. ASSUME NEW p \in Procs, Crash(p) PROVE TypeOK'
  BY <1>6, CrashType
<1> QED
  BY <1>1, <1>2, <1>3, <1>4, <1>5, <1>6 DEF Next

(* In every behaviour of the store, with whatever crashes, lock failures and *)
(* refused rows, the tables keep their types and no statement of authorize() *)
(* is reached without what it needs.                                         *)
THEOREM TypeCorrect == Spec => []TypeOK
<1> QED
  BY InitType, StepType, PTL DEF Spec
-----------------------------------------------------------------------------
(* The bound on the overspend.                                               *)
(*                                                                           *)
(* OverspendBounded is not inductive: what limits the spend to come is which *)
(* processes are past their check.  For each root there is an anchor, the    *)
(* process that passed its check last: when it passed, the spend and its own *)
(* cost were within the ceiling, and since then nothing but charges of the   *)
(* others that had passed before it has been added.  The others still at     *)
(* their charge may add MaxCost each, which is what AnchoredAt counts.       *)

(* The mint ledger has every root, so that no charge is refused.             *)
AllRegistered == Roots \subseteq {ident.root : ident \in Registered}

OwnCharge(a, r) == IF Charging(a, r) THEN frame[a].req.tool.est_cost ELSE 0

OtherCharges(a, r) == {p \in Procs \ {a} : Charging(p, r)}

Allowance == (Cardinality(Procs) - 1) * MaxCost

AnchoredAt(a, r) ==
  db.spent[r] + OwnCharge(a, r) + Cardinality(OtherCharges(a, r)) * MaxCost
    <= Ceiling[r] + Allowance

SpendInv ==
  /\ TypeOK
  /\ NoTransactionLeftOpen
  /\ Roots \subseteq RegisteredRoots(db)
  /\ \A r \in Roots : \E a \in Procs : AnchoredAt(a, r)

(* Counting *)
LEMMA TimesMaxCost ==
  ASSUME NEW m \in Nat, NEW n \in Nat, m <= n
  PROVE  /\ m * MaxCost \in Nat /\ n * MaxCost \in Nat
         /\ m * MaxCost <= n * MaxCost
         /\ m < n => m * MaxCost + MaxCost <= n * MaxCost
<1>1. MaxCost \in Nat
  BY StoreAssumption
<1>2. ASSUME NEW d \in Nat, NEW k \in Nat PROVE d * k \in Nat
  BY <1>2
<1>3. n = m + (n - m) /\ n - m \in Nat
  OBVIOUS
<1>4. n * MaxCost = m * MaxCost + (n - m) * MaxCost
  BY <1>1, <1>3
<1>5. m < n => (n - m) * MaxCost = MaxCost + (n - m - 1) * MaxCost /\ n - m - 1 \in Nat
  BY <1>1
<1> QED
  BY <1>1, <1>2, <1>3, <1>4, <1>5

LEMMA ProcsCount ==
  /\ IsFiniteSet(Procs) /\ Cardinality(Procs) - 1 \in Nat
  /\ Allowance \in Nat
<1>1. IsFiniteSet(Procs) /\ Procs # {} /\ Cardinality(Procs) \in Nat
  BY StoreAssumption, FS_CardinalityType
<1>2. Cardinality(Procs) # 0
  BY <1>1, FS_EmptySet
<1>3. Cardinality(Procs) - 1 \in Nat
  BY <1>1, <1>2
<1> QED
  BY <1>1, <1>3, TimesMaxCost DEF Allowance

LEMMA OthersCount ==
  ASSUME NEW a \in Procs, NEW S \in SUBSET (Procs \ {a})
  PROVE  /\ IsFiniteSet(S) /\ Cardinality(S) \in Nat
         /\ Cardinality(S) * MaxCost \in Nat
         /\ Cardinality(S) * MaxCost <= Allowance
<1>1. IsFiniteSet(Procs) /\ Cardinality(Procs) - 1 \in Nat
  BY ProcsCount
<1>2. IsFiniteSet(Procs \ {a}) /\ Cardinality(Procs \ {a}) = Cardinality(Procs) - 1
  BY <1>1, FS_RemoveElement
<1>3. IsFiniteSet(S) /\ Cardinality(S) <= Cardinality(Procs) - 1
  BY <1>2, FS_Subset
<1>4. Cardinality(S) \in Nat
  BY <1>3, FS_CardinalityType
<1> QED
  BY <1>1, <1>3, <1>4, TimesMaxCost DEF Allowance

LEMMA OwnChargeType ==
  ASSUME TypeOK, NEW a \in Procs, NEW r \in Roots
  PROVE  /\ OwnCharge(a, r) \in Nat
         /\ OwnCharge(a, r) <= MaxCost
         /\ db.spent[r] \in Nat /\ Ceiling[r] \in Nat
<1>1. MaxCost \in Nat /\ Ceiling[r] \in Nat
  BY StoreAssumption, CeilingAssumption
<1>2. db.spent[r] \in Nat
  BY DEF TypeOK, IsImage
<1>3. CASE Charging(a, r)
  BY <1>1, <1>2, <1>3, PassedHasRoot, StoreAssumption DEF Charging, OwnCharge
<1>4. CASE ~Charging(a, r)
  BY <1>1, <1>2, <1>4 DEF OwnCharge
<1> QED
  BY <1>3, <1>4

(* A step after which no process has come to its charge, and no spend has    *)
(* changed, keeps every anchor.                                              *)
LEMMA FewerCharges ==
  ASSUME TypeOK, TypeOK', NEW r \in Roots, NEW a \in Procs, AnchoredAt(a, r),
         db'.spent[r] = db.spent[r],
         \A q \in Procs : Charging(q, r)' => Charging(q, r) /\ frame'[q].req = frame[q].req
  PROVE  AnchoredAt(a, r)'
<1>1. OtherCharges(a, r)' \subseteq OtherCharges(a, r)
  BY DEF OtherCharges
<1>2. OtherCharges(a, r) \in SUBSET (Procs \ {a}) /\ OtherCharges(a, r)' \in SUBSET (Procs \ {a})
  BY <1>1 DEF OtherCharges
<1>3. /\ IsFiniteSet(OtherCharges(a, r))
      /\ Cardinality(OtherCharges(a, r)) \in Nat /\ Cardinality(OtherCharges(a, r)') \in Nat
  BY <1>2, OthersCount
<1>4. Cardinality(OtherCharges(a, r)') <= Cardinality(OtherCharges(a, r))
  BY <1>1, <1>3, FS_Subset
<1>5. /\ Cardinality(OtherCharges(a, r)') * MaxCost \in Nat
      /\ Cardinality(OtherCharges(a, r)) * MaxCost \in Nat
      /\ Cardinality(OtherCharges(a, r)') * MaxCost <= Cardinality(OtherCharges(a, r)) * MaxCost
  BY <1>3, <1>4, TimesMaxCost
<1>6. OwnCharge(a, r) \in Nat /\ OwnCharge(a, r)' \in Nat /\ OwnCharge(a, r)' <= OwnCharge(a, r)
  <2>1. OwnCharge(a, r) \in Nat
    BY OwnChargeType
  <2>2. CASE Charging(a, r)'
    BY <2>1, <2>2 DEF OwnCharge
  <2>3. CASE ~Charging(a, r)'
    BY <2>1, <2>3 DEF OwnCharge
  <2> QED
    BY <2>1, <2>2, <2>3
<1>7. db.spent[r] \in Nat /\ Ceiling[r] \in Nat /\ Allowance \in Nat
  BY OwnChargeType, ProcsCount
<1> QED
  BY <1>5, <1>6, <1>7 DEF AnchoredAt, Allowance

(* With no transaction open, nothing that writes or reads can be locked out. *)
LEMMA NothingLocked ==
  ASSUME TypeOK, NoTransactionLeftOpen, NEW p \in Procs
  PROVE  /\ Image(p) = db
         /\ Read(p) => UNCHANGED <<db, conn>>
         /\ ~ReadBusy(p)
         /\ \A new : ~Raises(p, new, TRUE)
<1>1. \A q \in Procs : conn[q] = "none"
  BY DEF NoTransactionLeftOpen
<1>2. CanRead(p) /\ CanWrite(p) /\ CanCommit(p)
  BY <1>1 DEF CanRead, CanWrite, CanCommit, NoneElse
<1>3. ~ReadBusy(p) /\ \A new : ~Raises(p, new, TRUE)
  BY <1>2 DEF ReadBusy, Raises, WriteBusy, CommitBusy
<1>4. Read(p) => UNCHANGED <<db, conn>>
  BY <1>1 DEF Read, TypeOK
<1> QED
  BY <1>1, <1>3, <1>4 DEF Image, Writer

LEMMA CommitKeepsClosed ==
  ASSUME TypeOK, NoTransactionLeftOpen, NEW p \in Procs, NEW new, Commit(p, new)
  PROVE  NoTransactionLeftOpen' /\ db' = new
BY DEF NoTransactionLeftOpen, Commit, TypeOK

(* No operation takes a root out of the mint ledger, or changes a spend but  *)
(* by a charge.                                                              *)
LEMMA ChargedFields ==
  ASSUME NEW d, IsImage(d), NEW r \in Roots, NEW n \in Nat
  PROVE  /\ RegisteredRoots(Charged(d, r, n)) = RegisteredRoots(d)
         /\ Charged(d, r, n).spent = [d.spent EXCEPT ![r] = @ + n]
<1>1. Charged(d, r, n) = [d EXCEPT !.spent = [d.spent EXCEPT ![r] = @ + n]]
  BY DEF Charged, IsImage
<1> QED
  BY <1>1 DEF RegisteredRoots, IsImage

LEMMA IncidentFields ==
  ASSUME NEW d, IsImage(d), NEW packet
  PROVE  /\ RegisteredRoots(WithIncident(d, packet)) = RegisteredRoots(d)
         /\ WithIncident(d, packet).spent = d.spent
BY DEF WithIncident, RegisteredRoots, IsImage

LEMMA RowFields ==
  ASSUME NEW d, IsImage(d), NEW row
  PROVE  /\ RegisteredRoots(WithRow(d, row)) = RegisteredRoots(d)
         /\ WithRow(d, row).spent = d.spent
BY DEF WithRow, RegisteredRoots, IsImage

LEMMA TierFields ==
  ASSUME NEW d, IsImage(d), NEW s, NEW t
  PROVE  /\ RegisteredRoots(WithTier(d, s, t)) = RegisteredRoots(d)
         /\ WithTier(d, s, t).spent = d.spent
BY DEF WithTier, RegisteredRoots, IsImage

LEMMA PrincipalFields ==
  ASSUME NEW d, IsImage(d), NEW ident
  PROVE  /\ RegisteredRoots(d) \subseteq RegisteredRoots(WithPrincipal(d, ident))
         /\ WithPrincipal(d, ident).spent = d.spent
BY DEF WithPrincipal, RegisteredRoots, IsImage

(* The invariant, from a step that keeps what it is made of.                 *)
LEMMA KeepsSpendInv ==
  ASSUME SpendInv, TypeOK', NoTransactionLeftOpen',
         RegisteredRoots(db) \subseteq RegisteredRoots(db)',
         db'.spent = db.spent,
         \A q \in Procs, r \in Roots :
           Charging(q, r)' => Charging(q, r) /\ frame'[q].req = frame[q].req
  PROVE  SpendInv'
<1>1. ASSUME NEW r \in Roots PROVE \E a \in Procs : AnchoredAt(a, r)'
  <2>1. PICK a \in Procs : AnchoredAt(a, r)
    BY DEF SpendInv
  <2>2. AnchoredAt(a, r)'
    BY <2>1, FewerCharges DEF SpendInv
  <2> QED
    BY <2>2
<1>2. (\A r \in Roots : \E a \in Procs : AnchoredAt(a, r))'
  BY <1>1
<1> QED
  BY <1>2 DEF SpendInv

(* A step of p's call to a statement other than the charge.                  *)
LEMMA MovesOn ==
  ASSUME TypeOK, NEW p \in Procs, NEW step, Goto(p, step), step # "charge",
         \A q \in Procs \ {p} : frame'[q] = frame[q]
  PROVE  \A q \in Procs, r \in Roots :
           Charging(q, r)' => Charging(q, r) /\ frame'[q].req = frame[q].req
BY DEF TypeOK, Goto, Charging
-----------------------------------------------------------------------------
(* Each step keeps the invariant *)

LEMMA SpendInit ==
  ASSUME AllRegistered, Init
  PROVE  SpendInv
<1>1. TypeOK
  BY InitType
<1>2. NoTransactionLeftOpen /\ Roots \subseteq RegisteredRoots(db)
  BY DEF Init, NoTransactionLeftOpen, AllRegistered, RegisteredRoots
<1>3. PICK a : a \in Procs
  BY StoreAssumption
<1>4. ASSUME NEW r \in Roots PROVE AnchoredAt(a, r)
  <2>1. \A q \in Procs : ~Charging(q, r)
    BY DEF Init, Charging
  <2>2. OtherCharges(a, r) = {} /\ OwnCharge(a, r) = 0 /\ db.spent[r] = 0
    BY <1>3, <2>1 DEF Init, OtherCharges, OwnCharge
  <2>3. Cardinality(OtherCharges(a, r)) = 0
    BY <2>2, FS_EmptySet
  <2>4. Ceiling[r] \in Nat /\ Allowance \in Nat /\ MaxCost \in Nat
    BY CeilingAssumption, ProcsCount, StoreAssumption
  <2> QED
    BY <2>2, <2>3, <2>4 DEF AnchoredAt
<1> QED
  BY <1>1, <1>2, <1>3, <1>4 DEF SpendInv

(* The steps that only read, and the one without a statement.                *)
LEMMA ReadingKeepsSpendInv ==
  ASSUME SpendInv, NEW p \in Procs,
         ResolveSource(p) \/ Check(p) \/ ReadLastHash(p)
  PROVE  SpendInv'
<1>1. TypeOK /\ NoTransactionLeftOpen
  BY DEF SpendInv
<1>2. TypeOK'
  BY <1>1, ResolveSourceType, CheckType, ReadLastHashType
<1>3. UNCHANGED <<db, conn>>
  BY <1>1, NothingLocked DEF ResolveSource, Check, ReadLastHash
<1>4. \E step : Goto(p, step) /\ step # "charge"
  BY DEF ResolveSource, Check, ReadLastHash
<1>5. \A q \in Procs \ {p} : frame'[q] = frame[q]
  BY <1>1 DEF ResolveSource, Check, ReadLastHash, TypeOK
<1>6. \A q \in Procs, r \in Roots :
        Charging(q, r)' => Charging(q, r) /\ frame'[q].req = frame[q].req
  BY <1>1, <1>4, <1>5, MovesOn
<1> QED
  BY <1>1, <1>2, <1>3, <1>6, KeepsSpendInv DEF NoTransactionLeftOpen, RegisteredRoots

(* A process that passes its check becomes the anchor of its root.           *)
LEMMA ReadSpentKeepsSpendInv ==
  ASSUME SpendInv, NEW p \in Procs, ReadSpent(p)
  PROVE  SpendInv'
<1> DEFINE req     == frame[p].req
           already == db.spent[RootOf(req)]
<1>1. TypeOK /\ NoTransactionLeftOpen /\ TypeOK'
  BY ReadSpentType DEF SpendInv
<1>2. UNCHANGED <<db, conn>> /\ Image(p) = db /\ pc[p] = "budget"
  BY <1>1, NothingLocked DEF ReadSpent
<1>3. CASE ~WithinBudget(req, Claims[req], already)
  <2>1. Goto(p, "emit") /\ \A q \in Procs \ {p} : frame'[q] = frame[q]
    BY <1>1, <1>2, <1>3 DEF ReadSpent, TypeOK
  <2>2. \A q \in Procs, r \in Roots :
          Charging(q, r)' => Charging(q, r) /\ frame'[q].req = frame[q].req
    BY <1>1, <2>1, MovesOn
  <2> QED
    BY <1>1, <1>2, <2>2, KeepsSpendInv DEF NoTransactionLeftOpen, RegisteredRoots
<1>4. CASE WithinBudget(req, Claims[req], already)
  <2>1. Goto(p, "charge") /\ UNCHANGED frame
    BY <1>2, <1>4 DEF ReadSpent
  <2>2. PICK root \in Roots : root = RootOf(req)
    BY <1>1, <1>2, PassedHasRoot
  <2>3. req \in Requests /\ Claims[req].ok /\ root = Claims[req].accountable_root
        /\ Claims[req].budget \in Nat /\ req.tool.est_cost \in Nat
    BY <1>1, <1>2, <2>2, PassedHasRoot DEF TypeOK, FrameOK
  <2>4. already + req.tool.est_cost <= Ceiling[root]
    BY <1>1, <1>4, <2>2, <2>3, CeilingAssumption, OwnChargeType DEF WithinBudget
  <2>5. AnchoredAt(p, root)'
    <3>1. OtherCharges(p, root)' \in SUBSET (Procs \ {p})
      BY DEF OtherCharges
    <3>2. Cardinality(OtherCharges(p, root)') * MaxCost \in Nat
          /\ Cardinality(OtherCharges(p, root)') * MaxCost <= Allowance
      BY <3>1, OthersCount
    <3>3. OwnCharge(p, root)' = req.tool.est_cost \/ OwnCharge(p, root)' = 0
      BY <2>1 DEF OwnCharge
    <3>4. already \in Nat /\ Ceiling[root] \in Nat /\ Allowance \in Nat
      BY <1>1, <2>2, OwnChargeType, ProcsCount
    <3>5. db'.spent[root] + OwnCharge(p, root)' <= Ceiling[root]
      BY <1>2, <2>2, <2>3, <2>4, <3>3, <3>4
    <3>6. db'.spent[root] \in Nat /\ OwnCharge(p, root)' \in Nat
      BY <1>2, <2>2, <2>3, <3>3, <3>4
    <3> HIDE DEF already
    <3> QED
      BY <3>2, <3>4, <3>5, <3>6 DEF AnchoredAt, Allowance
  <2>6. ASSUME NEW r \in Roots, r # root PROVE \E a \in Procs : AnchoredAt(a, r)'
    <3>1. PICK a \in Procs : AnchoredAt(a, r)
      BY DEF SpendInv
    <3>2. \A q \in Procs : Charging(q, r)' => Charging(q, r) /\ frame'[q].req = frame[q].req
      BY <1>1, <2>2, <2>1, <2>6 DEF Charging, Goto, TypeOK
    <3> QED
      BY <1>1, <1>2, <3>1, <3>2, FewerCharges
  <2>7. (\A r \in Roots : \E a \in Procs : AnchoredAt(a, r))'
    BY <2>5, <2>6
  <2> QED
    BY <1>1, <1>2, <2>7 DEF SpendInv, NoTransactionLeftOpen, RegisteredRoots
<1> QED
  BY <1>3, <1>4

(* A charge adds to the spend what its process no longer counts for.         *)
LEMMA ChargeKeepsSpendInv ==
  ASSUME SpendInv, NEW p \in Procs, Charge(p)
  PROVE  SpendInv'
<1> DEFINE req  == frame[p].req
           root == RootOf(req)
           cost == req.tool.est_cost
<1>1. TypeOK /\ NoTransactionLeftOpen /\ TypeOK'
  BY ChargeType DEF SpendInv
<1>2. pc[p] = "charge" /\ Image(p) = db /\ IsImage(db)
  BY <1>1, NothingLocked DEF Charge, TypeOK
<1>3. root \in Roots /\ cost \in Nat /\ req \in Requests
  BY <1>1, <1>2, PassedHasRoot
<1>4. ForeignKey(db, root)
  BY <1>3 DEF ForeignKey, SpendInv
<1>5. Commit(p, Charged(db, root, cost)) /\ Goto(p, "last_hash") /\ UNCHANGED frame
  BY <1>1, <1>2, <1>4, NothingLocked DEF Charge
<1>6. NoTransactionLeftOpen' /\ db' = Charged(db, root, cost)
  BY <1>1, <1>5, CommitKeepsClosed
<1>7. /\ RegisteredRoots(db)' = RegisteredRoots(db)
      /\ db'.spent = [db.spent EXCEPT ![root] = @ + cost]
  <2>1. RegisteredRoots(db)' = RegisteredRoots(db')
    BY DEF RegisteredRoots
  <2> QED
    BY <1>2, <1>3, <1>6, <2>1, ChargedFields
<1>8. \A q \in Procs, r \in Roots : Charging(q, r)' <=> q # p /\ Charging(q, r)
  BY <1>1, <1>5 DEF Charging, Goto, TypeOK
<1>9. db.spent \in [Roots -> Nat]
  BY <1>2 DEF IsImage
<1>10. ASSUME NEW r \in Roots PROVE \E a \in Procs : AnchoredAt(a, r)'
  <2>1. PICK a \in Procs : AnchoredAt(a, r)
    BY DEF SpendInv
  <2>2. CASE r # root
    <3>1. db'.spent[r] = db.spent[r]
      BY <1>7, <1>9, <2>2
    <3>2. \A q \in Procs : Charging(q, r)' => Charging(q, r) /\ frame'[q].req = frame[q].req
      BY <1>5, <1>8
    <3> QED
      BY <1>1, <2>1, <3>1, <3>2, FewerCharges
  <2>3. CASE r = root
    <3>1. db'.spent[r] = db.spent[r] + cost /\ Charging(p, r)
      BY <1>2, <1>7, <1>9, <2>3 DEF Charging
    <3>2. db.spent[r] \in Nat /\ Ceiling[r] \in Nat /\ Allowance \in Nat /\ OwnCharge(a, r) \in Nat
      BY <1>1, OwnChargeType, ProcsCount
    <3>3. OtherCharges(a, r) \in SUBSET (Procs \ {a}) /\ OtherCharges(a, r)' \in SUBSET (Procs \ {a})
      BY DEF OtherCharges
    <3>4. /\ IsFiniteSet(OtherCharges(a, r))
          /\ Cardinality(OtherCharges(a, r)) \in Nat
          /\ Cardinality(OtherCharges(a, r)) * MaxCost \in Nat
      BY <3>3, OthersCount
    <3>5. CASE a = p
      <4>1. OtherCharges(a, r)' = OtherCharges(a, r)
        BY <1>8, <3>5 DEF OtherCharges
      <4>2. OwnCharge(a, r)' = 0 /\ OwnCharge(a, r) = cost
        BY <1>8, <3>1, <3>5 DEF OwnCharge
      <4>3. AnchoredAt(a, r)'
        <5> HIDE DEF cost
        <5> QED
          BY <1>3, <2>1, <3>1, <3>2, <3>4, <4>1, <4>2 DEF AnchoredAt, Allowance
      <4> QED
        BY <4>3
    <3>6. CASE a # p
      <4>1. OtherCharges(a, r)' = OtherCharges(a, r) \ {p} /\ p \in OtherCharges(a, r)
        BY <1>8, <3>1, <3>6 DEF OtherCharges
      <4>2. Cardinality(OtherCharges(a, r)') = Cardinality(OtherCharges(a, r)) - 1
            /\ Cardinality(OtherCharges(a, r)') \in Nat
        BY <3>3, <3>4, <4>1, FS_RemoveElement, OthersCount
      <4>3. /\ Cardinality(OtherCharges(a, r)') * MaxCost \in Nat
            /\ Cardinality(OtherCharges(a, r)') * MaxCost + MaxCost
                 <= Cardinality(OtherCharges(a, r)) * MaxCost
        BY <3>4, <4>2, TimesMaxCost
      <4>4. OwnCharge(a, r)' = OwnCharge(a, r)
        BY <1>5, <1>8, <3>6 DEF OwnCharge
      <4>5. cost <= MaxCost /\ MaxCost \in Nat
        BY <1>3, StoreAssumption
      <4>6. AnchoredAt(a, r)'
        <5> HIDE DEF cost
        <5> QED
          BY <1>3, <2>1, <3>1, <3>2, <3>4, <4>3, <4>4, <4>5 DEF AnchoredAt, Allowance
      <4> QED
        BY <4>6
    <3> QED
      BY <3>5, <3>6
  <2> QED
    BY <2>2, <2>3
<1>11. (\A r \in Roots : \E a \in Procs : AnchoredAt(a, r))'
  BY <1>10
<1> QED
  BY <1>1, <1>6, <1>7, <1>11 DEF SpendInv
LEMMA EmitIncidentKeepsSpendInv ==
  ASSUME SpendInv, NEW p \in Procs, EmitIncident(p)
  PROVE  SpendInv'
<1> DEFINE f      == frame[p]
           packet == TriagePacket(f.code, f.req, f.tier, f.quoted)
<1>1. TypeOK /\ NoTransactionLeftOpen /\ TypeOK' /\ IsImage(db)
  BY EmitIncidentType DEF SpendInv, TypeOK
<1>2. Image(p) = db /\ f.req \in Requests
  BY <1>1, NothingLocked DEF EmitIncident, TypeOK, FrameOK
<1>3. ForeignKey(db, RootOf(f.req))
  BY <1>2, RequestAssumption DEF ForeignKey, SpendInv, RootOf
<1>4. Commit(p, WithIncident(db, packet)) /\ Goto(p, "last_hash") /\ UNCHANGED frame
  BY <1>1, <1>2, <1>3, NothingLocked DEF EmitIncident
<1>5. NoTransactionLeftOpen' /\ db' = WithIncident(db, packet)
  BY <1>1, <1>4, CommitKeepsClosed
<1>6. RegisteredRoots(db)' = RegisteredRoots(db) /\ db'.spent = db.spent
  <2>1. RegisteredRoots(db)' = RegisteredRoots(db')
    BY DEF RegisteredRoots
  <2> HIDE DEF packet
  <2> QED
    BY <1>1, <1>5, <2>1, IncidentFields
<1>7. \A q \in Procs, r \in Roots :
        Charging(q, r)' => Charging(q, r) /\ frame'[q].req = frame[q].req
  BY <1>1, <1>4, MovesOn
<1> QED
  BY <1>1, <1>5, <1>6, <1>7, KeepsSpendInv

LEMMA RecordKeepsSpendInv ==
  ASSUME SpendInv, NEW p \in Procs, Record(p)
  PROVE  SpendInv'
<1> DEFINE row == Row(Fields(frame[p].req, frame[p].code), frame[p].prev)
<1>1. TypeOK /\ NoTransactionLeftOpen /\ TypeOK' /\ IsImage(db) /\ Image(p) = db
  BY RecordType, NothingLocked DEF SpendInv, TypeOK
<1>2. Commit(p, WithRow(db, row)) /\ Leave(p)
  BY <1>1, NothingLocked DEF Record, Return, RecordRaises, Recorded
<1>3. NoTransactionLeftOpen' /\ db' = WithRow(db, row)
  BY <1>1, <1>2, CommitKeepsClosed
<1>4. RegisteredRoots(db)' = RegisteredRoots(db) /\ db'.spent = db.spent
  <2>1. RegisteredRoots(db)' = RegisteredRoots(db')
    BY DEF RegisteredRoots
  <2> HIDE DEF row
  <2> QED
    BY <1>1, <1>3, <2>1, RowFields
<1>5. \A q \in Procs, r \in Roots :
        Charging(q, r)' => Charging(q, r) /\ frame'[q].req = frame[q].req
  BY <1>1, <1>2, MovesOn DEF Leave, TypeOK
<1> QED
  BY <1>1, <1>3, <1>4, <1>5, KeepsSpendInv

(* A registration or a vouch.                                                *)
LEMMA AdministerKeepsSpendInv ==
  ASSUME SpendInv, NEW p \in Procs, NEW new, IsImage(new), Administer(p, new),
         RegisteredRoots(db) \subseteq RegisteredRoots(new), new.spent = db.spent
  PROVE  SpendInv'
<1>1. TypeOK /\ NoTransactionLeftOpen /\ TypeOK'
  BY AdministerType DEF SpendInv
<1>2. Commit(p, new) /\ UNCHANGED <<pc, frame>>
  BY <1>1, NothingLocked DEF Administer
<1>3. NoTransactionLeftOpen' /\ db' = new
  BY <1>1, <1>2, CommitKeepsClosed
<1>4. RegisteredRoots(db) \subseteq RegisteredRoots(db)' /\ db'.spent = db.spent
  BY <1>3 DEF RegisteredRoots
<1>5. \A q \in Procs, r \in Roots :
        Charging(q, r)' => Charging(q, r) /\ frame'[q].req = frame[q].req
  BY <1>2 DEF Charging
<1> QED
  BY <1>1, <1>3, <1>4, <1>5, KeepsSpendInv

(* The start of a call, and the end of one by a crash.                       *)
LEMMA CallKeepsSpendInv ==
  ASSUME SpendInv, NEW p \in Procs,
         Crash(p) \/ \E req \in Requests : Call(p, req)
  PROVE  SpendInv'
<1>1. TypeOK /\ NoTransactionLeftOpen /\ TypeOK'
  BY CallType, CrashType DEF SpendInv
<1>2. UNCHANGED db /\ NoTransactionLeftOpen'
  BY <1>1 DEF Crash, Close, Call, NoTransactionLeftOpen, TypeOK
<1>3. \E step : Goto(p, step) /\ step # "charge"
  BY DEF Crash, Call
<1>4. \A q \in Procs \ {p} : frame'[q] = frame[q]
  BY <1>1 DEF Crash, Call, TypeOK
<1>5. \A q \in Procs, r \in Roots :
        Charging(q, r)' => Charging(q, r) /\ frame'[q].req = frame[q].req
  BY <1>1, <1>3, <1>4, MovesOn
<1> QED
  BY <1>1, <1>2, <1>5, KeepsSpendInv DEF RegisteredRoots

LEMMA SpendStep ==
  ASSUME SpendInv, [Next]_vars
  PROVE  SpendInv'
<1>1. CASE UNCHANGED vars
  <2>1. TypeOK' /\ NoTransactionLeftOpen'
    BY <1>1, StepType DEF SpendInv, NoTransactionLeftOpen, vars
  <2> QED
    BY <1>1, <2>1, KeepsSpendInv DEF vars, RegisteredRoots, Charging
<1>2. ASSUME NEW p \in Procs, Authorizing(p) PROVE SpendInv'
  <2>1. ~ReadRaises(p)
    BY NothingLocked DEF ReadRaises, SpendInv
  <2> QED
    BY <1>2, <2>1, ReadingKeepsSpendInv, ReadSpentKeepsSpendInv, ChargeKeepsSpendInv,
       EmitIncidentKeepsSpendInv, RecordKeepsSpendInv DEF Authorizing, Proceeding, Record
<1>3. ASSUME NEW p \in Procs, Crash(p) \/ \E req \in Requests : Call(p, req) PROVE SpendInv'
  BY <1>3, CallKeepsSpendInv
<1>4. ASSUME NEW p \in Procs PROVE IsImage(db) /\ Image(p) = db
  BY NothingLocked DEF SpendInv, TypeOK
<1>5. ASSUME NEW p \in Procs, NEW ident \in Mints, RegisterPrincipal(p, ident) PROVE SpendInv'
  BY <1>4, <1>5, ImageWithPrincipal, PrincipalFields, AdministerKeepsSpendInv
     DEF RegisterPrincipal
<1>6. ASSUME NEW p \in Procs, NEW v \in Vouches, Vouch(p, v[1], v[2]) PROVE SpendInv'
  <2>1. v[1] \in Sources /\ v[2] \in TrustTier
    BY StoreAssumption
  <2> QED
    BY <1>4, <1>6, <2>1, ImageWithTier, TierFields, AdministerKeepsSpendInv DEF Vouch
<1> QED
  BY <1>1, <1>2, <1>3, <1>5, <1>6 DEF Next

LEMMA SpendInvBounds == SpendInv => OverspendBounded /\ NoTransactionLeftOpen
<1> SUFFICES ASSUME SpendInv, NEW r \in Roots
             PROVE  db.spent[r] <= Ceiling[r] + (Cardinality(Procs) - 1) * MaxCost
  BY DEF SpendInv, OverspendBounded
<1>1. PICK a \in Procs : AnchoredAt(a, r)
  BY DEF SpendInv
<1>2. OtherCharges(a, r) \in SUBSET (Procs \ {a})
  BY DEF OtherCharges
<1>3. Cardinality(OtherCharges(a, r)) * MaxCost \in Nat
  BY <1>2, OthersCount
<1>4. OwnCharge(a, r) \in Nat /\ db.spent[r] \in Nat /\ Ceiling[r] \in Nat /\ Allowance \in Nat
  BY OwnChargeType, ProcsCount DEF SpendInv
<1> QED
  BY <1>1, <1>3, <1>4 DEF AnchoredAt, Allowance

(* Whatever the number of processes and the order of their statements, and   *)
(* whichever of them crash, a root that is in the mint ledger is charged at  *)
(* most one call's cost past its ceiling for each process but one.           *)
THEOREM OverspendIsBounded ==
  ASSUME AllRegistered
  PROVE  Spec => []OverspendBounded
<1> QED
  BY SpendInit, SpendStep, SpendInvBounds, PTL DEF Spec

(* With every root in the mint ledger no statement raises between its INSERT *)
(* and its commit, and no connection is left inside a transaction.           *)
THEOREM NoOpenTransaction ==
  ASSUME AllRegistered
  PROVE  Spec => []NoTransactionLeftOpen
<1> QED
  BY SpendInit, SpendStep, SpendInvBounds, PTL DEF Spec
-----------------------------------------------------------------------------
(* The accounts.  A tool's name, all that its audit row keeps of it, tells   *)
(* its cost.                                                                 *)
PricedTools ==
  \A x, y \in Requests : x.tool.name = y.tool.name => x.tool.est_cost = y.tool.est_cost

RowCost(row, r) ==
  IF row.fields.code = "ALLOW" /\ row.fields.accountable_root = r THEN CostOf(row.fields.tool) ELSE 0

LEMMA AuditedIsFold ==
  ASSUME NEW r, NEW E, NEW image, image.audit \in Seq(E), \A row \in E : RowCost(row, r) \in Nat
  PROVE  LET g == [x \in Nat \X E |-> x[1] + RowCost(x[2], r)]
         IN  Folds(Nat, E, g, 0, image.audit) /\ AuditedCost(image, r) = Fold(g, 0, image.audit)
<1> DEFINE s == image.audit
           g == [x \in Nat \X E |-> x[1] + RowCost(x[2], r)]
           Costs(row) == row.fields.code = "ALLOW" /\ row.fields.accountable_root = r
<1>1. Folds(Nat, E, g, 0, s)
  BY DEF Folds
<1>2. PICK it : FoldTable(it, Nat, g, 0, s)
  <2> HIDE DEF g
  <2> QED
    BY <1>1, FoldTableExists
<1> DEFINE Rec(jt) == jt = [t \in SUBSET DOMAIN s |->
                              IF t = {} THEN 0
                              ELSE IF Costs(s[Max(t)])
                                   THEN jt[t \ {Max(t)}] + CostOf(s[Max(t)].fields.tool)
                                   ELSE jt[t \ {Max(t)}]]
<1>3. \A t \in SUBSET DOMAIN s : t # {} => Max(t) \in DOMAIN s /\ s[Max(t)] \in E
  BY MaxChooses
<1>4. Rec(it)
  <2>1. ASSUME NEW t \in SUBSET DOMAIN s, t # {}
        PROVE  it[t] = IF Costs(s[Max(t)])
                       THEN it[t \ {Max(t)}] + CostOf(s[Max(t)].fields.tool)
                       ELSE it[t \ {Max(t)}]
    <3>1. it[t] = g[<<it[t \ {Max(t)}], s[Max(t)]>>] /\ it[t \ {Max(t)}] \in Nat
      BY <1>2, <2>1 DEF FoldTable
    <3>2. it[t] = it[t \ {Max(t)}] + RowCost(s[Max(t)], r)
      BY <1>3, <2>1, <3>1
    <3> QED
      BY <3>1, <3>2 DEF RowCost
  <2> HIDE DEF g
  <2> QED
    BY <1>2, <2>1 DEF FoldTable
<1>5. PICK jt : Rec(jt) /\ AuditedCost(image, r) = jt[DOMAIN s]
  BY <1>4 DEF AuditedCost, FoldLeft, MapThenFoldSet
<1>6. GoesOn(jt, Nat, g, 0, s)
  <2>1. jt[{}] = 0
    BY <1>5
  <2>2. ASSUME NEW t \in SUBSET DOMAIN s, t # {}, Max(t) \in DOMAIN s, jt[t \ {Max(t)}] \in Nat
        PROVE  jt[t] = g[<<jt[t \ {Max(t)}], s[Max(t)]>>]
    <3>1. s[Max(t)] \in E
      BY <1>3, <2>2
    <3>2. g[<<jt[t \ {Max(t)}], s[Max(t)]>>] = jt[t \ {Max(t)}] + RowCost(s[Max(t)], r)
      BY <2>2, <3>1
    <3>3. jt[t] = IF Costs(s[Max(t)]) THEN jt[t \ {Max(t)}] + CostOf(s[Max(t)].fields.tool)
                  ELSE jt[t \ {Max(t)}]
      BY <1>5, <2>2
    <3> QED
      BY <2>2, <3>2, <3>3 DEF RowCost
  <2> HIDE DEF g, Rec
  <2> QED
    BY <2>1, <2>2 DEF GoesOn
<1>7. jt[DOMAIN s] = Fold(g, 0, s)
  <2> HIDE DEF g, Rec
  <2> QED
    BY <1>1, <1>6, FoldIs
<1> QED
  BY <1>1, <1>5, <1>7

LEMMA CostType == \A req \in Requests : CostOf(req.tool.name) \in Nat
BY RequestAssumption DEF CostOf

LEMMA RowCostType ==
  ASSUME NEW row \in Rows, NEW r
  PROVE  RowCost(row, r) \in Nat
<1>1. row.fields \in AllFields
  BY DEF Rows
<1>2. PICK req \in Requests, code \in Codes : row.fields = Fields(req, code)
  BY <1>1 DEF AllFields
<1>3. row.fields.tool = req.tool.name
  BY <1>2 DEF Fields
<1> QED
  BY <1>3, CostType DEF RowCost

LEMMA AuditedType ==
  ASSUME NEW d, IsImage(d), NEW r
  PROVE  AuditedCost(d, r) \in Nat
<1> DEFINE g == [x \in Nat \X Rows |-> x[1] + RowCost(x[2], r)]
<1>1. d.audit \in Seq(Rows)
  BY DEF IsImage
<1>2. Folds(Nat, Rows, g, 0, d.audit) /\ AuditedCost(d, r) = Fold(g, 0, d.audit)
  BY <1>1, RowCostType, AuditedIsFold
<1> HIDE DEF g
<1> QED
  BY <1>2, FoldType

LEMMA AuditedEmpty ==
  ASSUME NEW d, d.audit = <<>>, NEW r
  PROVE  AuditedCost(d, r) = 0
<1> DEFINE g == [x \in Nat \X Rows |-> x[1] + RowCost(x[2], r)]
<1>1. d.audit \in Seq(Rows)
  BY EmptySeq
<1>2. Folds(Nat, Rows, g, 0, d.audit) /\ AuditedCost(d, r) = Fold(g, 0, d.audit)
  BY <1>1, RowCostType, AuditedIsFold
<1> HIDE DEF g
<1> QED
  BY <1>2, FoldEmpty

LEMMA AuditedSame ==
  ASSUME NEW a, NEW b, b.audit = a.audit, NEW r
  PROVE  AuditedCost(b, r) = AuditedCost(a, r)
BY DEF AuditedCost

LEMMA AuditedGrows ==
  ASSUME NEW d, IsImage(d), NEW row \in Rows, NEW r
  PROVE  AuditedCost(WithRow(d, row), r) = AuditedCost(d, r) + RowCost(row, r)
<1> DEFINE g == [x \in Nat \X Rows |-> x[1] + RowCost(x[2], r)]
           b == WithRow(d, row)
<1>1. d.audit \in Seq(Rows) /\ b.audit = Append(d.audit, row) /\ Append(d.audit, row) \in Seq(Rows)
  BY DEF IsImage, WithRow
<1> HIDE DEF b
<1>2. /\ Folds(Nat, Rows, g, 0, d.audit) /\ AuditedCost(d, r) = Fold(g, 0, d.audit)
      /\ AuditedCost(b, r) = Fold(g, 0, Append(d.audit, row))
  <2>1. Folds(Nat, Rows, g, 0, d.audit) /\ AuditedCost(d, r) = Fold(g, 0, d.audit)
    BY <1>1, RowCostType, AuditedIsFold
  <2>2. AuditedCost(b, r) = Fold(g, 0, b.audit)
    BY <1>1, RowCostType, AuditedIsFold
  <2> QED
    BY <1>1, <2>1, <2>2
<1>3. Fold(g, 0, d.audit) \in Nat /\ Fold(g, 0, Append(d.audit, row)) = g[<<Fold(g, 0, d.audit), row>>]
  <2> HIDE DEF g
  <2> QED
    BY <1>2, FoldType, FoldAppend
<1> QED
  BY <1>2, <1>3 DEF b

(* The calls between their charge and their row. *)
UnauditedIn(frames, S) == MapThenSumSet(LAMBDA p : frames[p].req.tool.est_cost, S)
CostsOf(frames) == [p \in Procs |-> frames[p].req.tool.est_cost]

LEMMA UnauditedIsSum ==
  ASSUME NEW frames, NEW S \in SUBSET Procs, \A p \in S : frames[p].req \in Requests
  PROVE  Sums(CostsOf(frames), S) /\ UnauditedIn(frames, S) = SumOver(CostsOf(frames), S)
<1> DEFINE f == CostsOf(frames)
<1>1. Sums(f, S)
  BY StoreAssumption, FS_Subset, RequestAssumption DEF Sums, CostsOf
<1>2. PICK it : SumTable(it, f, S)
  BY <1>1, SumTableExists
<1> DEFINE Rec(jt) == jt = [s \in SUBSET S |->
                              IF s = {} THEN 0
                              ELSE frames[Picked(s)].req.tool.est_cost + jt[s \ {Picked(s)}]]
<1>3. \A s \in SUBSET S : s # {} => Picked(s) \in S /\ f[Picked(s)] = frames[Picked(s)].req.tool.est_cost
  BY DEF Picked, CostsOf
<1>4. Rec(it)
  BY <1>2, <1>3 DEF SumTable
<1>5. PICK jt : Rec(jt) /\ UnauditedIn(frames, S) = jt[S]
  BY <1>4 DEF UnauditedIn, MapThenSumSet, MapThenFoldSet, Picked
<1>6. jt[{}] = 0 /\ \A s \in SUBSET S : s # {} => jt[s] = f[Picked(s)] + jt[s \ {Picked(s)}]
  BY <1>3, <1>5
<1>7. jt[S] = SumOver(f, S)
  <2> HIDE DEF f, Rec
  <2> QED
    BY <1>1, <1>6, SumIs
<1> QED
  BY <1>1, <1>5, <1>7

LEMMA UnauditedType ==
  ASSUME NEW frames, NEW S \in SUBSET Procs, \A p \in S : frames[p].req \in Requests
  PROVE  UnauditedIn(frames, S) \in Nat
BY UnauditedIsSum, SumType

LEMMA UnauditedWithout ==
  ASSUME NEW frames, NEW S \in SUBSET Procs, \A p \in S : frames[p].req \in Requests, NEW p \in Procs
  PROVE  UnauditedIn(frames, S) = UnauditedIn(frames, S \ {p})
                                  + (IF p \in S THEN frames[p].req.tool.est_cost ELSE 0)
<1>1. UnauditedIn(frames, S \ {p}) \in Nat
  BY UnauditedType
<1>2. CASE p \in S
  <2>1. Sums(CostsOf(frames), S) /\ UnauditedIn(frames, S) = SumOver(CostsOf(frames), S)
        /\ UnauditedIn(frames, S \ {p}) = SumOver(CostsOf(frames), S \ {p})
    BY UnauditedIsSum
  <2>2. SumOver(CostsOf(frames), S) = CostsOf(frames)[p] + SumOver(CostsOf(frames), S \ {p})
    BY <1>2, <2>1, SumRemove
  <2>3. CostsOf(frames)[p] = frames[p].req.tool.est_cost /\ CostsOf(frames)[p] \in Nat
    BY <1>2, <2>1 DEF CostsOf, Sums
  <2> QED
    BY <1>1, <1>2, <2>1, <2>2, <2>3
<1>3. CASE p \notin S
  <2>1. S \ {p} = S
    BY <1>3
  <2> QED
    BY <1>1, <1>3, <2>1
<1> QED
  BY <1>2, <1>3

LEMMA UnauditedSame ==
  ASSUME NEW frames, NEW S \in SUBSET Procs, \A p \in S : frames[p].req \in Requests,
         NEW others, \A p \in S : others[p] = frames[p]
  PROVE  UnauditedIn(others, S) = UnauditedIn(frames, S)
<1>1. Sums(CostsOf(frames), S) /\ UnauditedIn(frames, S) = SumOver(CostsOf(frames), S)
      /\ UnauditedIn(others, S) = SumOver(CostsOf(others), S)
  BY UnauditedIsSum
<1>2. \A p \in S : CostsOf(others)[p] = CostsOf(frames)[p]
  BY DEF CostsOf
<1> QED
  BY <1>1, <1>2, SumSame

-----------------------------------------------------------------------------
(* A step of p changes its own part alone. *)
Waiting(r) == {q \in Procs : Allowed(q, r)}
Others(p, r) == UnauditedIn(frame, Waiting(r) \ {p})
Own(p, r) == IF Allowed(p, r) THEN frame[p].req.tool.est_cost ELSE 0

Alone(p) == \A q \in Procs \ {p} : pc'[q] = pc[q] /\ frame'[q] = frame[q]

LEMMA UnauditedSplit ==
  ASSUME TypeOK, NEW p \in Procs, NEW r
  PROVE  /\ Others(p, r) \in Nat /\ Own(p, r) \in Nat
         /\ UnauditedCost(r) = Others(p, r) + Own(p, r)
<1>1. Waiting(r) \subseteq Procs /\ \A q \in Waiting(r) : frame[q].req \in Requests
  BY DEF Waiting, Allowed, TypeOK, FrameOK
<1>2. UnauditedCost(r) = UnauditedIn(frame, Waiting(r))
  BY DEF UnauditedCost, UnauditedIn, Waiting
<1>3. Own(p, r) \in Nat /\ Own(p, r) = IF p \in Waiting(r) THEN frame[p].req.tool.est_cost ELSE 0
  BY <1>1, RequestAssumption DEF Own, Waiting
<1>4. UnauditedIn(frame, Waiting(r)) = Others(p, r) + Own(p, r)
  BY <1>1, <1>3, UnauditedWithout DEF Others
<1> QED
  BY <1>1, <1>2, <1>3, <1>4, UnauditedType DEF Others

LEMMA UnauditedNext ==
  ASSUME TypeOK, TypeOK', NEW p \in Procs, Alone(p), NEW r
  PROVE  /\ Own(p, r)' \in Nat
         /\ UnauditedCost(r)' = Others(p, r) + Own(p, r)'
<1>1. Waiting(r) \subseteq Procs /\ \A q \in Waiting(r) : frame[q].req \in Requests
  BY DEF Waiting, Allowed, TypeOK, FrameOK
<1>2. (Waiting(r) \subseteq Procs /\ \A q \in Waiting(r) : frame[q].req \in Requests)'
  BY DEF Waiting, Allowed, TypeOK, FrameOK
<1>3. UnauditedCost(r)' = UnauditedIn(frame', Waiting(r)')
  <2>1. UnauditedCost(r)' = UnauditedIn(frame, Waiting(r))'
    BY DEF UnauditedCost, UnauditedIn, Waiting
  <2> QED
    BY <2>1
<1>4. (Own(p, r) \in Nat /\ Own(p, r) = IF p \in Waiting(r) THEN frame[p].req.tool.est_cost ELSE 0)'
  BY <1>2, RequestAssumption DEF Own, Waiting
<1>5. UnauditedIn(frame', Waiting(r)') = UnauditedIn(frame', Waiting(r)' \ {p}) + Own(p, r)'
  BY <1>2, <1>4, UnauditedWithout
<1>6. Waiting(r)' \ {p} = Waiting(r) \ {p}
  BY DEF Waiting, Allowed, Alone
<1>7. UnauditedIn(frame', Waiting(r) \ {p}) = UnauditedIn(frame, Waiting(r) \ {p})
  <2>1. \A q \in Waiting(r) \ {p} : frame'[q] = frame[q]
    BY DEF Waiting, Alone
  <2> QED
    BY <1>1, <2>1, UnauditedSame
<1> QED
  BY <1>3, <1>4, <1>5, <1>6, <1>7 DEF Others

-----------------------------------------------------------------------------
(* What an allowed call owes its root is covered, step by step.              *)

(* What goes to the chronicle is refused. *)
Refused == \A p \in Procs : pc[p] = "emit" => frame[p].code # "ALLOW"

AccountsInv == TypeOK /\ Refused /\ AuditedAllowsAreCharged

Pays(image, r, unaudited) == AuditedCost(image, r) + unaudited <= image.spent[r]

LEMMA PaysLess ==
  ASSUME NEW image, IsImage(image), NEW r \in Roots, NEW m \in Nat, NEW n \in Nat, m <= n,
         Pays(image, r, n)
  PROVE  Pays(image, r, m)
<1>1. AuditedCost(image, r) \in Nat /\ image.spent[r] \in Nat
  BY AuditedType DEF IsImage
<1> QED
  BY <1>1 DEF Pays

(* A step that keeps the invariant: each content is an earlier one, and p    *)
(* owes no more, or it pays what p now owes.                                 *)
LEMMA KeepsAccounts ==
  ASSUME AccountsInv, TypeOK', Refused', NEW p \in Procs, Alone(p),
         \A image \in {db', tx'}, r \in Roots :
           \/ image \in {db, tx} /\ Own(p, r)' <= Own(p, r)
           \/ Pays(image, r, Others(p, r) + Own(p, r)')
  PROVE  AccountsInv'
<1>1. TypeOK /\ IsImage(db) /\ IsImage(tx)
  BY DEF AccountsInv, TypeOK
<1>2. ASSUME NEW image \in {db', tx'}, NEW r \in Roots
      PROVE  Pays(image, r, UnauditedCost(r)')
  <2>1. /\ Others(p, r) \in Nat /\ Own(p, r) \in Nat /\ Own(p, r)' \in Nat
        /\ UnauditedCost(r) = Others(p, r) + Own(p, r)
        /\ UnauditedCost(r)' = Others(p, r) + Own(p, r)'
    BY <1>1, UnauditedSplit, UnauditedNext
  <2>2. CASE image \in {db, tx} /\ Own(p, r)' <= Own(p, r)
    <3>1. Pays(image, r, UnauditedCost(r)) /\ IsImage(image)
      BY <1>1, <2>2 DEF AccountsInv, AuditedAllowsAreCharged, Pays
    <3>2. UnauditedCost(r)' <= UnauditedCost(r) /\ UnauditedCost(r) \in Nat /\ UnauditedCost(r)' \in Nat
      BY <2>1, <2>2
    <3> QED
      BY <3>1, <3>2, PaysLess
  <2>3. CASE Pays(image, r, Others(p, r) + Own(p, r)')
    BY <2>1, <2>3
  <2> QED
    BY <1>2, <2>2, <2>3
<1>3. AuditedAllowsAreCharged'
  <2>1. \A image \in {db', tx'}, r \in Roots :
          AuditedCost(image, r) + UnauditedCost(r)' <= image.spent[r]
    BY <1>2 DEF Pays
  <2> QED
    BY <2>1 DEF AuditedAllowsAreCharged
<1> QED
  BY <1>3 DEF AccountsInv

LEMMA Contents ==
  ASSUME AccountsInv, NEW p \in Procs, NEW r \in Roots
  PROVE  /\ Image(p) \in {db, tx} /\ IsImage(Image(p))
         /\ Pays(Image(p), r, Others(p, r) + Own(p, r))
<1>1. UnauditedCost(r) = Others(p, r) + Own(p, r)
  BY UnauditedSplit DEF AccountsInv
<1> QED
  BY <1>1, ImageType DEF AccountsInv, AuditedAllowsAreCharged, Pays, Image

LEMMA Written ==
  ASSUME NEW p \in Procs, NEW new, NEW ok, Commit(p, new) \/ Raises(p, new, ok)
  PROVE  db' \in {db, tx, new} /\ tx' \in {db, tx, new}
BY DEF Commit, Raises, WriteBusy, CommitBusy, ConstraintFails, Image

(* A call that ends owes nothing more.                                       *)
LEMMA Left ==
  ASSUME TypeOK, NEW p \in Procs, Leave(p)
  PROVE  Alone(p) /\ (Refused => Refused') /\ \A r : Own(p, r)' = 0
BY DEF Leave, Goto, Alone, Refused, Own, Allowed, TypeOK

(* A step that writes nothing but what rolls back, and after which p owes    *)
(* no more.                                                                  *)
LEMMA ReadingKeepsAccounts ==
  ASSUME AccountsInv, TypeOK', NEW p \in Procs, Alone(p), Refused',
         db' \in {db, tx}, tx' \in {db, tx}, \A r \in Roots : Own(p, r)' <= Own(p, r)
  PROVE  AccountsInv'
BY KeepsAccounts

LEMMA ControlKeepsAccounts ==
  ASSUME AccountsInv, TypeOK', NEW p \in Procs,
         \/ \E req \in Requests : Call(p, req)
         \/ ResolveSource(p) \/ Check(p) \/ ReadSpent(p) \/ ReadLastHash(p) \/ ReadRaises(p)
         \/ Crash(p)
  PROVE  AccountsInv'
<1>1. TypeOK /\ Refused
  BY DEF AccountsInv
<1>2. db' \in {db, tx} /\ tx' \in {db, tx}
  BY DEF Call, ResolveSource, Check, ReadSpent, ReadLastHash, ReadRaises, Crash, Read, ReadBusy, Close
<1>3. Alone(p)
  BY <1>1 DEF Call, ResolveSource, Check, ReadSpent, ReadLastHash, ReadRaises, Crash, Leave,
              Goto, Alone, TypeOK
<1>4. CASE ReadLastHash(p)
  <2>1. /\ pc[p] = "last_hash" /\ pc'[p] = "record"
        /\ frame'[p].req = frame[p].req /\ frame'[p].code = frame[p].code
    <3>1. /\ pc \in [Procs -> Steps \cup {"idle"}] /\ frame \in [Procs -> Frames]
          /\ pc[p] = "last_hash" /\ pc' = [pc EXCEPT ![p] = "record"]
      BY <1>1, <1>4 DEF ReadLastHash, Goto, TypeOK
    <3>2. PICK hash : frame' = [frame EXCEPT ![p].prev = hash]
      BY <1>4 DEF ReadLastHash
    <3> QED
      BY <3>1, <3>2 DEF Frames
  <2>2. \A r \in Roots : Own(p, r)' = Own(p, r) /\ Own(p, r) \in Nat
    BY <1>1, <2>1, UnauditedSplit DEF Own, Allowed
  <2>3. Refused'
    BY <1>1, <1>3, <2>1 DEF Refused, Alone
  <2> QED
    BY <1>2, <1>3, <2>2, <2>3, ReadingKeepsAccounts
<1>5. CASE ~ReadLastHash(p)
  <2>1. /\ pc'[p] \in {"idle", "resolve", "screen", "budget", "charge", "emit"}
        /\ pc'[p] = "emit" => frame'[p].code # "ALLOW"
    <3>1. /\ pc \in [Procs -> Steps \cup {"idle"}] /\ frame \in [Procs -> Frames]
      BY <1>1 DEF TypeOK
    <3>2. CASE Check(p)
      <4>1. PICK code : /\ frame' = [frame EXCEPT ![p].code = code]
                        /\ Goto(p, IF code = "ALLOW" THEN "budget" ELSE "emit")
        BY <3>2 DEF Check
      <4> QED
        BY <3>1, <4>1 DEF Goto, Frames
    <3>3. CASE ReadSpent(p)
      <4>1. \/ Goto(p, "charge")
            \/ Goto(p, "emit") /\ \E already : frame' = [frame EXCEPT ![p].code = "BUDGET",
                                                                     ![p].quoted = already]
        BY <3>3 DEF ReadSpent
      <4> QED
        BY <3>1, <4>1 DEF Goto, Frames
    <3>4. CASE ~Check(p) /\ ~ReadSpent(p)
      BY <1>5, <3>1, <3>4 DEF Call, ResolveSource, ReadRaises, Crash, Leave, Goto
    <3> QED
      BY <3>2, <3>3, <3>4
  <2>2. \A r \in Roots : Own(p, r)' = 0 /\ Own(p, r) \in Nat
    BY <1>1, <2>1, UnauditedSplit DEF Own, Allowed
  <2>3. Refused'
    BY <1>1, <1>3, <2>1 DEF Refused, Alone
  <2> QED
    BY <1>2, <1>3, <2>2, <2>3, ReadingKeepsAccounts
<1> QED
  BY <1>4, <1>5

LEMMA AdministerKeepsAccounts ==
  ASSUME AccountsInv, TypeOK', NEW p \in Procs, NEW new, Administer(p, new),
         new.spent = Image(p).spent, new.audit = Image(p).audit
  PROVE  AccountsInv'
<1>1. UNCHANGED <<pc, frame>> /\ (Commit(p, new) \/ Raises(p, new, TRUE))
  BY DEF Administer
<1>2. db' \in {db, tx, new} /\ tx' \in {db, tx, new}
  BY <1>1, Written
<1>3. Alone(p) /\ Refused' /\ \A r \in Roots : Own(p, r)' = Own(p, r) /\ Own(p, r) \in Nat
  <2>1. Alone(p) /\ Refused'
    BY <1>1 DEF Alone, AccountsInv, Refused
  <2>2. \A r \in Roots : Own(p, r)' = Own(p, r)
    BY <1>1 DEF Own, Allowed
  <2> QED
    BY <2>1, <2>2, UnauditedSplit DEF AccountsInv
<1>4. \A r \in Roots : Pays(new, r, Others(p, r) + Own(p, r)')
  BY <1>3, Contents, AuditedSame DEF Pays
<1> QED
  BY <1>2, <1>3, <1>4, KeepsAccounts

LEMMA ChargeKeepsAccounts ==
  ASSUME AccountsInv, TypeOK', NEW p \in Procs, Charge(p)
  PROVE  AccountsInv'
<1> DEFINE req     == frame[p].req
           root    == RootOf(req)
           cost    == req.tool.est_cost
           charged == Charged(Image(p), root, cost)
           ok      == ForeignKey(Image(p), root)
<1>1. TypeOK /\ Refused /\ pc[p] = "charge"
  BY DEF AccountsInv, Charge
<1>2. req \in Requests /\ frame[p].code = "ALLOW" /\ root \in Roots /\ cost \in Nat
  BY <1>1, RequestAssumption DEF TypeOK, FrameOK, RootOf
<1>3. \A r \in Roots : Own(p, r) = 0
  BY <1>1 DEF Own, Allowed
<1>4. IsImage(Image(p)) /\ charged.audit = Image(p).audit
      /\ charged.spent = [Image(p).spent EXCEPT ![root] = @ + cost]
  <2>1. IsImage(Image(p))
    BY <1>1, ImageType
  <2>2. charged.audit = Image(p).audit
    BY <2>1 DEF Charged, IsImage
  <2> QED
    BY <1>2, <2>1, <2>2, ChargedFields
<1> HIDE DEF cost, root, charged, ok, req
<1>5. ASSUME NEW r \in Roots
      PROVE  /\ Pays(charged, r, Others(p, r) + (IF root = r THEN cost ELSE 0))
             /\ Pays(charged, r, Others(p, r) + 0)
  <2>1. Pays(Image(p), r, Others(p, r) + 0) /\ Others(p, r) \in Nat
    BY <1>1, <1>3, Contents, UnauditedSplit
  <2>2. AuditedCost(charged, r) = AuditedCost(Image(p), r) /\ AuditedCost(Image(p), r) \in Nat
    BY <1>4, AuditedSame, AuditedType
  <2>3. Image(p).spent \in [Roots -> Nat]
    BY <1>4 DEF IsImage
  <2>4. charged.spent[r] = Image(p).spent[r] + (IF root = r THEN cost ELSE 0)
        /\ Image(p).spent[r] \in Nat
    BY <1>2, <1>4, <2>3
  <2> QED
    BY <1>2, <2>1, <2>2, <2>4 DEF Pays
<1>6. CASE ok /\ Commit(p, charged) /\ Goto(p, "last_hash") /\ UNCHANGED <<frame, used>>
  <2>1. db' = charged /\ tx' = charged
    BY <1>6 DEF Commit
  <2>2. Alone(p) /\ pc'[p] = "last_hash" /\ frame' = frame
    BY <1>1, <1>6 DEF Goto, Alone, TypeOK
  <2>3. Refused'
    BY <1>1, <2>2 DEF Refused, Alone
  <2>4. \A r \in Roots : Own(p, r)' = IF root = r THEN cost ELSE 0
    BY <1>2, <2>2 DEF Own, Allowed, root, cost, req
  <2> QED
    BY <1>5, <2>1, <2>2, <2>3, <2>4, KeepsAccounts
<1>7. CASE Raises(p, charged, ok) /\ Leave(p)
  <2>1. db' \in {db, tx, charged} /\ tx' \in {db, tx, charged}
    BY <1>7, Written
  <2>2. Alone(p) /\ Refused' /\ \A r : Own(p, r)' = 0
    BY <1>1, <1>7, Left
  <2> QED
    BY <1>3, <1>5, <2>1, <2>2, KeepsAccounts
<1> QED
  BY <1>6, <1>7 DEF Charge, charged, ok, root, cost, req

LEMMA EmitIncidentKeepsAccounts ==
  ASSUME AccountsInv, TypeOK', NEW p \in Procs, EmitIncident(p)
  PROVE  AccountsInv'
<1> DEFINE f      == frame[p]
           packet == TriagePacket(f.code, f.req, f.tier, f.quoted)
           added  == WithIncident(Image(p), packet)
           ok     == ForeignKey(Image(p), RootOf(f.req))
<1>1. TypeOK /\ Refused /\ pc[p] = "emit" /\ frame[p].code # "ALLOW"
  BY DEF AccountsInv, EmitIncident, Refused
<1>2. \A r \in Roots : Own(p, r) = 0
  BY <1>1 DEF Own, Allowed
<1>3. IsImage(Image(p)) /\ added.spent = Image(p).spent /\ added.audit = Image(p).audit
  <2>1. IsImage(Image(p))
    BY <1>1, ImageType
  <2> HIDE DEF packet
  <2> QED
    BY <2>1 DEF WithIncident, IsImage
<1> HIDE DEF packet, added, ok, f
<1>4. \A r \in Roots : Pays(added, r, Others(p, r) + 0)
  BY <1>2, <1>3, Contents, AuditedSame DEF Pays
<1>5. CASE ok /\ Commit(p, added) /\ Goto(p, "last_hash") /\ UNCHANGED <<frame, used>>
  <2>1. db' = added /\ tx' = added
    BY <1>5 DEF Commit
  <2>2. Alone(p) /\ pc'[p] = "last_hash" /\ frame' = frame
    BY <1>1, <1>5 DEF Goto, Alone, TypeOK
  <2>3. Refused'
    BY <1>1, <2>2 DEF Refused, Alone
  <2>4. \A r \in Roots : Own(p, r)' = 0
    BY <1>1, <2>2 DEF Own, Allowed
  <2> QED
    BY <1>4, <2>1, <2>2, <2>3, <2>4, KeepsAccounts
<1>6. CASE Raises(p, added, ok) /\ Leave(p)
  <2>1. db' \in {db, tx, added} /\ tx' \in {db, tx, added}
    BY <1>6, Written
  <2>2. Alone(p) /\ Refused' /\ \A r : Own(p, r)' = 0
    BY <1>1, <1>6, Left
  <2> QED
    BY <1>2, <1>4, <2>1, <2>2, KeepsAccounts
<1> QED
  BY <1>5, <1>6 DEF EmitIncident, added, ok, packet, f

(* The row of a call takes over what the call owed. *)
LEMMA RowPays ==
  ASSUME PricedTools, TypeOK, NEW p \in Procs, pc[p] = "record", NEW r
  PROVE  LET row == Row(Fields(frame[p].req, frame[p].code), frame[p].prev) IN
         row \in Rows /\ RowCost(row, r) = Own(p, r)
<1> DEFINE req    == frame[p].req
           fields == Fields(req, frame[p].code)
           row    == Row(fields, frame[p].prev)
<1>1. req \in Requests /\ frame[p].code \in Codes /\ frame[p].prev \in Hashes
  BY DEF TypeOK, FrameOK, Frames
<1>2. row \in Rows
  <2>1. fields \in AllFields
    BY <1>1 DEF AllFields
  <2> HIDE DEF fields
  <2> QED
    BY <1>1, <2>1, RowType
<1>3. row.fields = fields
  BY DEF Row
<1>4. fields.code = frame[p].code /\ fields.accountable_root = RootOf(req)
      /\ fields.tool = req.tool.name
  BY DEF Fields
<1>5. CostOf(req.tool.name) = req.tool.est_cost
  BY <1>1 DEF CostOf, PricedTools
<1> HIDE DEF row, fields
<1>6. RowCost(row, r) = Own(p, r)
  BY <1>3, <1>4, <1>5 DEF RowCost, Own, Allowed
<1> QED
  BY <1>2, <1>6 DEF row, fields

LEMMA RecordKeepsAccounts ==
  ASSUME PricedTools, AccountsInv, TypeOK', NEW p \in Procs, Record(p)
  PROVE  AccountsInv'
<1> DEFINE row      == Row(Fields(frame[p].req, frame[p].code), frame[p].prev)
           appended == WithRow(Image(p), row)
<1>1. TypeOK /\ Refused /\ pc[p] = "record" /\ Leave(p)
      /\ (Commit(p, appended) \/ Raises(p, appended, TRUE))
  BY DEF AccountsInv, Record, Return, RecordRaises, Recorded
<1>2. row \in Rows /\ \A r : RowCost(row, r) = Own(p, r)
  BY <1>1, RowPays
<1> HIDE DEF row
<1>3. IsImage(Image(p)) /\ appended.spent = Image(p).spent
  BY <1>1, ImageType, RowFields
<1>4. \A r : AuditedCost(appended, r) = AuditedCost(Image(p), r) + Own(p, r)
  BY <1>2, <1>3, AuditedGrows
<1> HIDE DEF appended
<1>5. db' \in {db, tx, appended} /\ tx' \in {db, tx, appended}
  BY <1>1, Written
<1>6. Alone(p) /\ Refused' /\ \A r : Own(p, r)' = 0
  BY <1>1, Left
<1>7. ASSUME NEW r \in Roots
      PROVE  Pays(appended, r, Others(p, r) + 0) /\ 0 <= Own(p, r)
  <2>1. Others(p, r) \in Nat /\ Own(p, r) \in Nat /\ AuditedCost(Image(p), r) \in Nat
    BY <1>1, <1>3, UnauditedSplit, AuditedType
  <2>2. Pays(Image(p), r, Others(p, r) + Own(p, r))
    BY Contents
  <2> QED
    BY <1>3, <1>4, <2>1, <2>2 DEF Pays
<1> QED
  BY <1>5, <1>6, <1>7, KeepsAccounts

LEMMA AccountsInit == Init => AccountsInv
<1> SUFFICES ASSUME Init PROVE AccountsInv
  OBVIOUS
<1>1. TypeOK
  BY InitType
<1>2. db = tx /\ db.audit = <<>> /\ \A p \in Procs : pc[p] = "idle"
  BY DEF Init
<1>3. PICK p : p \in Procs
  BY StoreAssumption
<1>4. ASSUME NEW r \in Roots
      PROVE  AuditedCost(db, r) = 0 /\ UnauditedCost(r) = 0 /\ db.spent[r] = 0
  <2>1. AuditedCost(db, r) = 0
    BY <1>2, AuditedEmpty
  <2>2. Waiting(r) \ {p} = {} /\ Own(p, r) = 0
    BY <1>2, <1>3 DEF Waiting, Allowed, Own
  <2>3. UnauditedIn(frame, {}) = 0
    BY UnauditedIsSum, SumEmpty
  <2>4. UnauditedCost(r) = 0
    BY <1>1, <1>3, <2>2, <2>3, UnauditedSplit DEF Others
  <2> QED
    BY <2>1, <2>4 DEF Init
<1>5. AuditedAllowsAreCharged
  BY <1>2, <1>4 DEF AuditedAllowsAreCharged
<1> QED
  BY <1>1, <1>2, <1>5 DEF AccountsInv, Refused

LEMMA AccountsStep ==
  ASSUME PricedTools
  PROVE  AccountsInv /\ [Next]_vars => AccountsInv'
<1> SUFFICES ASSUME AccountsInv, [Next]_vars PROVE AccountsInv'
  OBVIOUS
<1>1. TypeOK'
  BY StepType DEF AccountsInv
<1>2. CASE UNCHANGED vars
  <2>1. UNCHANGED <<db, tx, pc, frame>>
    BY <1>2 DEF vars
  <2>2. PICK p : p \in Procs
    BY StoreAssumption
  <2>3. Alone(p) /\ Refused'
    BY <2>1 DEF Alone, AccountsInv, Refused
  <2>4. \A r \in Roots : Own(p, r)' = Own(p, r)
    BY <2>1 DEF Own, Allowed
  <2>5. \A r \in Roots : Own(p, r)' <= Own(p, r)
    BY <2>2, <2>4, UnauditedSplit DEF AccountsInv
  <2> QED
    BY <1>1, <2>1, <2>2, <2>3, <2>5, ReadingKeepsAccounts
<1>3. ASSUME NEW p \in Procs, NEW ident \in Mints, RegisterPrincipal(p, ident) PROVE AccountsInv'
  <2>1. IsImage(Image(p))
    BY ImageType DEF AccountsInv
  <2>2. LET new == WithPrincipal(Image(p), ident) IN
        new.spent = Image(p).spent /\ new.audit = Image(p).audit
    BY <2>1 DEF WithPrincipal, IsImage
  <2> QED
    BY <1>1, <1>3, <2>2, AdministerKeepsAccounts DEF RegisterPrincipal
<1>4. ASSUME NEW p \in Procs, NEW v \in Vouches, Vouch(p, v[1], v[2]) PROVE AccountsInv'
  <2>1. IsImage(Image(p))
    BY ImageType DEF AccountsInv
  <2>2. LET new == WithTier(Image(p), v[1], v[2]) IN
        new.spent = Image(p).spent /\ new.audit = Image(p).audit
    BY <2>1 DEF WithTier, IsImage
  <2> QED
    BY <1>1, <1>4, <2>2, AdministerKeepsAccounts DEF Vouch
<1> QED
  BY <1>1, <1>2, <1>3, <1>4, ControlKeepsAccounts, ChargeKeepsAccounts, EmitIncidentKeepsAccounts,
     RecordKeepsAccounts DEF Next, Authorizing, Proceeding, Record

(* No allowed call is in the audit log for free, for any number of           *)
(* processes, crashes and refused or locked statements.                      *)
THEOREM NothingForFree ==
  ASSUME PricedTools
  PROVE  Spec => []AuditedAllowsAreCharged
<1>1. AccountsInv => AuditedAllowsAreCharged
  BY DEF AccountsInv
<1> QED
  BY <1>1, AccountsInit, AccountsStep, PTL DEF Spec

-----------------------------------------------------------------------------
(* The other direction, when no statement is refused and no process dies.    *)
ExactInv == SpendInv /\ AccountsInv /\ EveryChargeIsAudited

(* A step keeps the balance when what it adds to the audit and to what p     *)
(* owes is what it charges.                                                  *)
LEMMA KeepsBalance ==
  ASSUME ExactInv, TypeOK', NEW p \in Procs, Alone(p),
         \A r \in Roots : AuditedCost(db', r) + Own(p, r)' + db.spent[r]
                            = AuditedCost(db, r) + Own(p, r) + db'.spent[r]
  PROVE  EveryChargeIsAudited'
<1>1. TypeOK /\ IsImage(db)
  BY DEF ExactInv, AccountsInv, TypeOK
<1>2. IsImage(db')
  <2>1. IsImage(db)'
    BY DEF TypeOK
  <2> QED
    BY <2>1
<1>3. ASSUME NEW r \in Roots
      PROVE  AuditedCost(db', r) + UnauditedCost(r)' = db'.spent[r]
  <2>1. AuditedCost(db, r) + UnauditedCost(r) = db.spent[r]
    BY DEF ExactInv, EveryChargeIsAudited
  <2>2. /\ Others(p, r) \in Nat /\ Own(p, r) \in Nat /\ Own(p, r)' \in Nat
        /\ UnauditedCost(r) = Others(p, r) + Own(p, r)
        /\ UnauditedCost(r)' = Others(p, r) + Own(p, r)'
    BY <1>1, UnauditedSplit, UnauditedNext
  <2>3. AuditedCost(db, r) \in Nat /\ AuditedCost(db', r) \in Nat
        /\ db.spent[r] \in Nat /\ db'.spent[r] \in Nat
    BY <1>1, <1>2, AuditedType DEF IsImage
  <2>4. AuditedCost(db', r) + Own(p, r)' + db.spent[r] = AuditedCost(db, r) + Own(p, r) + db'.spent[r]
    OBVIOUS
  <2> QED
    BY <2>1, <2>2, <2>3, <2>4
<1> QED
  BY <1>3 DEF EveryChargeIsAudited

LEMMA SameBalance ==
  ASSUME ExactInv, TypeOK', NEW p \in Procs, Alone(p),
         db'.spent = db.spent, db'.audit = db.audit, \A r \in Roots : Own(p, r)' = Own(p, r)
  PROVE  EveryChargeIsAudited'
<1>1. \A r : AuditedCost(db', r) = AuditedCost(db, r)
  BY AuditedSame
<1> QED
  BY <1>1, KeepsBalance

LEMMA ControlBalances ==
  ASSUME ExactInv, TypeOK', NEW p \in Procs,
         \/ \E req \in Requests : Call(p, req)
         \/ ResolveSource(p) \/ Check(p) \/ ReadSpent(p) \/ ReadLastHash(p)
  PROVE  EveryChargeIsAudited'
<1>1. pc \in [Procs -> Steps \cup {"idle"}] /\ frame \in [Procs -> Frames]
  BY DEF ExactInv, AccountsInv, TypeOK
<1>2. UNCHANGED db
  BY DEF Call, ResolveSource, Check, ReadSpent, ReadLastHash, Read
<1>3. Alone(p)
  BY <1>1 DEF Call, ResolveSource, Check, ReadSpent, ReadLastHash, Goto, Alone
<1>4. CASE ReadLastHash(p)
  <2>1. pc[p] = "last_hash" /\ pc' = [pc EXCEPT ![p] = "record"]
    BY <1>4 DEF ReadLastHash, Goto
  <2>2. PICK hash : frame' = [frame EXCEPT ![p].prev = hash]
    BY <1>4 DEF ReadLastHash
  <2>3. pc'[p] = "record" /\ frame'[p].req = frame[p].req /\ frame'[p].code = frame[p].code
    BY <1>1, <2>1, <2>2 DEF Frames
  <2>4. \A r \in Roots : Own(p, r)' = Own(p, r)
    BY <2>1, <2>3 DEF Own, Allowed
  <2> QED
    BY <1>2, <1>3, <2>4, SameBalance
<1>5. CASE ~ReadLastHash(p)
  <2>1. /\ pc[p] \in {"idle", "resolve", "screen", "budget"}
        /\ pc'[p] \in {"resolve", "screen", "budget", "charge", "emit"}
    BY <1>1, <1>5 DEF Call, ResolveSource, Check, ReadSpent, Goto
  <2>2. \A r \in Roots : Own(p, r)' = 0 /\ Own(p, r) = 0
    BY <2>1 DEF Own, Allowed
  <2> QED
    BY <1>2, <1>3, <2>2, SameBalance
<1> QED
  BY <1>4, <1>5

LEMMA AdministerBalances ==
  ASSUME ExactInv, TypeOK', NEW p \in Procs, NEW new, Administer(p, new),
         new.spent = Image(p).spent, new.audit = Image(p).audit
  PROVE  EveryChargeIsAudited'
<1>1. TypeOK /\ NoTransactionLeftOpen
  BY DEF ExactInv, SpendInv
<1>2. Image(p) = db /\ Commit(p, new) /\ UNCHANGED <<pc, frame>>
  BY <1>1, NothingLocked DEF Administer
<1>3. db'.spent = db.spent /\ db'.audit = db.audit
  BY <1>2 DEF Commit
<1>4. \A r \in Roots : Own(p, r)' = Own(p, r)
  BY <1>2 DEF Own, Allowed
<1>5. Alone(p)
  BY <1>2 DEF Alone
<1> QED
  BY <1>3, <1>4, <1>5, SameBalance

LEMMA ChargeBalances ==
  ASSUME ExactInv, TypeOK', NEW p \in Procs, Charge(p)
  PROVE  EveryChargeIsAudited'
<1> DEFINE req  == frame[p].req
           root == RootOf(req)
           cost == req.tool.est_cost
<1>1. TypeOK /\ NoTransactionLeftOpen /\ pc[p] = "charge" /\ IsImage(db)
  BY DEF ExactInv, SpendInv, TypeOK, Charge
<1>2. req \in Requests /\ frame[p].code = "ALLOW" /\ root \in Roots /\ cost \in Nat
  BY <1>1, RequestAssumption DEF TypeOK, FrameOK, RootOf
<1>3. Image(p) = db /\ ForeignKey(db, root)
  BY <1>1, <1>2, NothingLocked DEF ForeignKey, ExactInv, SpendInv
<1>4. Commit(p, Charged(db, root, cost)) /\ Goto(p, "last_hash") /\ UNCHANGED frame
  BY <1>1, <1>3, NothingLocked DEF Charge
<1>5. db'.spent = [db.spent EXCEPT ![root] = @ + cost] /\ db'.audit = db.audit
  <2>1. db' = Charged(db, root, cost)
    BY <1>4 DEF Commit
  <2>2. Charged(db, root, cost).audit = db.audit
    BY <1>1 DEF Charged, IsImage
  <2> QED
    BY <1>1, <1>2, <2>1, <2>2, ChargedFields
<1>6. Alone(p) /\ pc'[p] = "last_hash" /\ frame' = frame
  BY <1>1, <1>4 DEF Goto, Alone, TypeOK
<1>7. \A r \in Roots : Own(p, r) = 0 /\ Own(p, r)' = IF root = r THEN cost ELSE 0
  BY <1>1, <1>2, <1>6 DEF Own, Allowed
<1> HIDE DEF root, cost, req
<1>8. ASSUME NEW r \in Roots
      PROVE  AuditedCost(db', r) + Own(p, r)' + db.spent[r]
               = AuditedCost(db, r) + Own(p, r) + db'.spent[r]
  <2>1. AuditedCost(db', r) = AuditedCost(db, r) /\ AuditedCost(db, r) \in Nat
    BY <1>1, <1>5, AuditedSame, AuditedType
  <2>2. db.spent \in [Roots -> Nat]
    BY <1>1 DEF IsImage
  <2>3. db'.spent[r] = db.spent[r] + (IF root = r THEN cost ELSE 0) /\ db.spent[r] \in Nat
    BY <1>2, <1>5, <2>2
  <2> QED
    BY <1>2, <1>7, <2>1, <2>3
<1> QED
  BY <1>6, <1>8, KeepsBalance

LEMMA EmitIncidentBalances ==
  ASSUME ExactInv, TypeOK', NEW p \in Procs, EmitIncident(p)
  PROVE  EveryChargeIsAudited'
<1> DEFINE f      == frame[p]
           packet == TriagePacket(f.code, f.req, f.tier, f.quoted)
<1>1. TypeOK /\ NoTransactionLeftOpen /\ pc[p] = "emit" /\ IsImage(db) /\ f.req \in Requests
      /\ f.code # "ALLOW"
  BY DEF ExactInv, SpendInv, AccountsInv, Refused, TypeOK, FrameOK, EmitIncident
<1>2. Image(p) = db /\ ForeignKey(db, RootOf(f.req))
  BY <1>1, NothingLocked, RequestAssumption DEF ForeignKey, ExactInv, SpendInv, RootOf
<1>3. Commit(p, WithIncident(db, packet)) /\ Goto(p, "last_hash") /\ UNCHANGED frame
  BY <1>1, <1>2, NothingLocked DEF EmitIncident
<1>4. db'.spent = db.spent /\ db'.audit = db.audit
  <2> HIDE DEF packet
  <2> QED
    BY <1>1, <1>3 DEF Commit, WithIncident, IsImage
<1>5. Alone(p) /\ pc'[p] = "last_hash" /\ frame' = frame
  BY <1>1, <1>3 DEF Goto, Alone, TypeOK
<1>6. \A r \in Roots : Own(p, r) = 0 /\ Own(p, r)' = 0
  BY <1>1, <1>5 DEF Own, Allowed
<1> QED
  BY <1>4, <1>5, <1>6, SameBalance

LEMMA RecordBalances ==
  ASSUME PricedTools, ExactInv, TypeOK', NEW p \in Procs, Record(p)
  PROVE  EveryChargeIsAudited'
<1> DEFINE row == Row(Fields(frame[p].req, frame[p].code), frame[p].prev)
<1>1. TypeOK /\ NoTransactionLeftOpen /\ pc[p] = "record" /\ IsImage(db)
  BY DEF ExactInv, SpendInv, TypeOK, Record, Return, RecordRaises, Recorded
<1>2. Image(p) = db /\ Commit(p, WithRow(db, row)) /\ Leave(p)
  BY <1>1, NothingLocked DEF Record, Return, RecordRaises, Recorded
<1>3. row \in Rows /\ \A r : RowCost(row, r) = Own(p, r)
  BY <1>1, RowPays
<1> HIDE DEF row
<1>4. db' = WithRow(db, row) /\ db'.spent = db.spent
  BY <1>1, <1>2, RowFields DEF Commit
<1>5. Alone(p) /\ \A r : Own(p, r)' = 0
  BY <1>1, <1>2, Left
<1>6. ASSUME NEW r \in Roots
      PROVE  /\ AuditedCost(db', r) = AuditedCost(db, r) + Own(p, r)
             /\ AuditedCost(db, r) \in Nat /\ Own(p, r) \in Nat /\ db.spent[r] \in Nat
  <2>1. AuditedCost(db', r) = AuditedCost(db, r) + RowCost(row, r)
    BY <1>1, <1>3, <1>4, AuditedGrows
  <2>2. AuditedCost(db, r) \in Nat /\ Own(p, r) \in Nat
    BY <1>1, AuditedType, UnauditedSplit
  <2> QED
    BY <1>1, <1>3, <2>1, <2>2 DEF IsImage
<1>7. \A r \in Roots : AuditedCost(db', r) + Own(p, r)' + db.spent[r]
                          = AuditedCost(db, r) + Own(p, r) + db'.spent[r]
  BY <1>4, <1>5, <1>6
<1> QED
  BY <1>5, <1>7, KeepsBalance

LEMMA BalanceStep ==
  ASSUME PricedTools, MaxCrashes = 0, ExactInv, [Next]_vars
  PROVE  EveryChargeIsAudited'
<1>1. TypeOK' /\ TypeOK
  BY StepType DEF ExactInv, AccountsInv
<1>2. CASE UNCHANGED vars
  <2>1. UNCHANGED <<db, pc, frame>>
    BY <1>2 DEF vars
  <2>2. PICK p : p \in Procs
    BY StoreAssumption
  <2>3. Alone(p)
    BY <2>1 DEF Alone
  <2>4. \A r \in Roots : Own(p, r)' = Own(p, r)
    BY <2>1 DEF Own, Allowed
  <2> QED
    BY <1>1, <2>1, <2>2, <2>3, <2>4, SameBalance
<1>3. ASSUME NEW p \in Procs PROVE ~Crash(p) /\ ~ReadRaises(p) /\ IsImage(Image(p))
  <2>1. ~Crash(p)
    BY <1>1 DEF Crash, TypeOK
  <2> QED
    BY <1>1, <2>1, NothingLocked, ImageType DEF ReadRaises, ExactInv, SpendInv
<1>4. ASSUME NEW p \in Procs, NEW ident \in Mints, RegisterPrincipal(p, ident)
      PROVE  EveryChargeIsAudited'
  <2>1. LET new == WithPrincipal(Image(p), ident) IN
        new.spent = Image(p).spent /\ new.audit = Image(p).audit
    BY <1>3 DEF WithPrincipal, IsImage
  <2> QED
    BY <1>1, <1>4, <2>1, AdministerBalances DEF RegisterPrincipal
<1>5. ASSUME NEW p \in Procs, NEW v \in Vouches, Vouch(p, v[1], v[2])
      PROVE  EveryChargeIsAudited'
  <2>1. LET new == WithTier(Image(p), v[1], v[2]) IN
        new.spent = Image(p).spent /\ new.audit = Image(p).audit
    BY <1>3 DEF WithTier, IsImage
  <2> QED
    BY <1>1, <1>5, <2>1, AdministerBalances DEF Vouch
<1> QED
  BY <1>1, <1>2, <1>3, <1>4, <1>5, ControlBalances, ChargeBalances, EmitIncidentBalances,
     RecordBalances DEF Next, Authorizing, Proceeding, Record

(* With every root in the mint ledger and no crash, every charge of every    *)
(* process ends up in an audit row, and nothing else does.                   *)
THEOREM ChargesAreAudited ==
  ASSUME PricedTools, AllRegistered, MaxCrashes = 0
  PROVE  Spec => []EveryChargeIsAudited
<1>1. Init => ExactInv
  <2> SUFFICES ASSUME Init PROVE EveryChargeIsAudited
    BY SpendInit, AccountsInit DEF ExactInv
  <2>1. AccountsInv
    BY AccountsInit
  <2>2. ASSUME NEW r \in Roots PROVE AuditedCost(db, r) + UnauditedCost(r) = db.spent[r]
    <3>1. PICK p : p \in Procs
      BY StoreAssumption
    <3>2. AuditedCost(db, r) + UnauditedCost(r) <= db.spent[r] /\ db.spent[r] = 0
      BY <2>1 DEF AccountsInv, AuditedAllowsAreCharged, Init
    <3>3. AuditedCost(db, r) \in Nat /\ UnauditedCost(r) \in Nat
      BY <2>1, <3>1, AuditedType, UnauditedSplit DEF AccountsInv, TypeOK
    <3> QED
      BY <3>2, <3>3
  <2> QED
    BY <2>2 DEF EveryChargeIsAudited
<1>2. ExactInv /\ [Next]_vars => ExactInv'
  BY SpendStep, AccountsStep, BalanceStep DEF ExactInv
<1>3. ExactInv => EveryChargeIsAudited
  BY DEF ExactInv
<1> QED
  BY <1>1, <1>2, <1>3, PTL DEF Spec

-----------------------------------------------------------------------------
(* The decision.  The store's instance of AgentIAM spells it out again; it   *)
(* is the same decision.                                                     *)

LEMMA SameDecision ==
  ASSUME NEW req, NEW claims, NEW actual, NEW ledger
  PROVE  InMemory!Decide(req, claims, actual, ledger) = Decide(req, claims, actual, ledger)
<1>1. InMemory!Screen(req, claims, actual) = Screen(req, claims, actual)
  BY DEF InMemory!Screen, Screen, InMemory!RoleCovers, RoleCovers,
         InMemory!PurposeGranted, PurposeGranted, InMemory!PurposeCovers, PurposeCovers,
         InMemory!MeetsFloor, MeetsFloor
<1> QED
  BY <1>1 DEF InMemory!Decide, Decide, InMemory!WithinBudget, WithinBudget

LEMMA SameTier ==
  ASSUME NEW manifest, NEW tierOf
  PROVE  InMemory!MinTier(manifest, tierOf) = MinTier(manifest, tierOf)
<1>1. InMemory!SourcesOf(manifest) = SourcesOf(manifest)
  BY DEF InMemory!SourcesOf, SourcesOf
<1>2. ASSUME NEW S PROVE InMemory!WeakestLink(S) = WeakestLink(S)
  BY DEF InMemory!WeakestLink, WeakestLink, InMemory!UNATTESTED, UNATTESTED, InMemory!Min, Min
<1> QED
  BY <1>1, <1>2 DEF InMemory!MinTier, MinTier

LEMMA SameClaims == InMemory!Claims = Claims
BY DEF InMemory!Claims, Claims, InMemory!Verify, Verify, InMemory!FoldLeft, FoldLeft,
       InMemory!MapThenFoldSet, MapThenFoldSet, InMemory!Max, Max,
       InMemory!Narrow, Narrow, InMemory!Least, Least, InMemory!Hmac, Hmac,
       InMemory!RootClaims, RootClaims, InMemory!PowValid, PowValid,
       InMemory!Refuse, Refuse, InMemory!KnownCaveats, KnownCaveats

-----------------------------------------------------------------------------
(* The prerequisite: tiers lifted to a floor make a lineage meet it.         *)

LEMMA LeastTier ==
  ASSUME NEW X, X \subseteq TrustTier, X # {}
  PROVE  Min(X) \in X
<1>1. PICK n \in X : \A m \in X : n <= m
  <2>1. X \subseteq Nat
    BY DEF TrustTier
  <2> QED
    BY <2>1, LeastElement
<1> QED
  BY <1>1 DEF Min

LEMMA GreaterTier ==
  ASSUME NEW a \in TrustTier, NEW b \in TrustTier
  PROVE  Max({a, b}) \in TrustTier /\ Max({a, b}) >= b
<1>1. \E x \in {a, b} : \A y \in {a, b} : y <= x
  BY DEF TrustTier
<1> QED
  BY <1>1 DEF Max, TrustTier

LEMMA ElementOf ==
  ASSUME NEW R, NEW m \in Seq(R)
  PROVE  /\ \A i \in DOMAIN m : m[i] \in R
         /\ m # <<>> => 1 \in DOMAIN m
OBVIOUS

LEMMA SourcesCited ==
  ASSUME NEW req \in Requests, req.manifest # <<>>
  PROVE  SourcesOf(req.manifest) \subseteq Sources /\ SourcesOf(req.manifest) # {}
<1> DEFINE R == [source_id : Sources, tier : TrustTier]
<1>1. req.manifest \in Seq(R)
  BY RequestAssumption
<1>2. 1 \in DOMAIN req.manifest /\ \A i \in DOMAIN req.manifest : req.manifest[i] \in R
  <2> HIDE DEF R
  <2> QED
    BY <1>1, ElementOf
<1> QED
  BY <1>2 DEF SourcesOf

LEMMA VouchedMeetsFloor ==
  ASSUME NEW req \in Requests, req.manifest # <<>>, NEW tierOf \in [Sources -> TrustTier],
         \A s \in SourcesOf(req.manifest) : tierOf[s] >= req.tool.risk_floor
  PROVE  MeetsFloor(req, MinTier(req.manifest, tierOf))
<1> DEFINE X == {tierOf[s] : s \in SourcesOf(req.manifest)}
<1>1. X \subseteq TrustTier /\ X # {}
  BY SourcesCited
<1>2. Min(X) \in X
  <2> HIDE DEF X
  <2> QED
    BY <1>1, LeastTier
<1>3. MinTier(req.manifest, tierOf) = Min(X)
  BY <1>1 DEF MinTier, WeakestLink
<1> QED
  BY <1>2, <1>3 DEF MeetsFloor

LEMMA FloorMetIsNotPending ==
  ASSUME NEW req, NEW claims, NEW actual, NEW ledger, MeetsFloor(req, actual)
  PROVE  InMemory!AccessState(Decide(req, claims, actual, ledger)) # "PENDING"
<1>1. ASSUME NEW code, code # "PROVENANCE" PROVE InMemory!AccessState(code) # "PENDING"
  BY <1>1 DEF InMemory!AccessState
<1>2. Decide(req, claims, actual, ledger) # "PROVENANCE"
  BY DEF Decide, Screen
<1> QED
  BY <1>1, <1>2

LEMMA PrerequisiteFollows == TypeOK => PrerequisiteSuffices
<1> SUFFICES ASSUME TypeOK, NEW req \in Requests, req.manifest # <<>>
             PROVE  InMemory!VouchAnswers(req)
  BY DEF PrerequisiteSuffices, InMemory!PrerequisiteSuffices
<1> DEFINE cited  == SourcesOf(req.manifest)
           lifted == [s \in Sources |->
                        IF s \in cited THEN Max({db.tier[s], req.tool.risk_floor}) ELSE db.tier[s]]
           actual == MinTier(req.manifest, lifted)
<1>1. cited \subseteq Sources /\ db.tier \in [Sources -> TrustTier] /\ req.tool.risk_floor \in TrustTier
  BY SourcesCited, TokenAssumption DEF TypeOK, IsImage
<1>2. lifted \in [Sources -> TrustTier] /\ \A s \in cited : lifted[s] >= req.tool.risk_floor
  BY <1>1, GreaterTier
<1>3. MeetsFloor(req, actual)
  <2> HIDE DEF lifted
  <2> QED
    BY <1>2, VouchedMeetsFloor
<1>4. InMemory!AccessState(Decide(req, Claims[req], actual, db.spent)) # "PENDING"
  <2> HIDE DEF actual
  <2> QED
    BY <1>3, FloorMetIsNotPending
<1>5. InMemory!SourcesOf(req.manifest) = cited
  BY DEF InMemory!SourcesOf, SourcesOf
<1>6. [s \in Sources |->
         IF s \in InMemory!SourcesOf(req.manifest)
         THEN InMemory!Max({db.tier[s], req.tool.risk_floor}) ELSE db.tier[s]] = lifted
  BY <1>5 DEF InMemory!Max, Max
<1>7. InMemory!Decide(req, InMemory!Claims[req], InMemory!MinTier(req.manifest, lifted), db.spent)
        = Decide(req, Claims[req], actual, db.spent)
  <2> HIDE DEF lifted
  <2> QED
    BY SameClaims, SameTier, SameDecision
<1> HIDE DEF lifted, actual, cited
<1> QED
  BY <1>4, <1>6, <1>7 DEF InMemory!VouchAnswers

(* Vouching exactly the sources that a PENDING call cites, to exactly the    *)
(* floor it names, answers it in every state that can be reached.            *)
THEOREM PrerequisiteIsEnough == Spec => []PrerequisiteSuffices
<1>1. TypeOK => PrerequisiteSuffices
  BY PrerequisiteFollows
<1> QED
  BY <1>1, TypeCorrect, PTL

-----------------------------------------------------------------------------
(* The token.  Its three folds, with functions on pairs in the place of      *)
(* their operators.                                                          *)

NarrowAll(base, seq) == FoldLeft(Narrow, base, seq)
HmacAll(base, seq)   == FoldLeft(Hmac, base, seq)
ChainAll(base, seq)  == FoldLeft(Chain, base, seq)

NarrowKeeps(A, E) == \A a \in A, e \in E : Narrow(a, e) \in A
HmacKeeps(A, E)   == \A a \in A, e \in E : Hmac(a, e) \in A
ChainKeeps(A, E)  == \A a \in A, e \in E : Chain(a, e) \in A

NarrowFun(A, E) == [x \in A \X E |-> Narrow(x[1], x[2])]
HmacFun(A, E)   == [x \in A \X E |-> Hmac(x[1], x[2])]
ChainFun(A, E)  == [x \in A \X E |-> Chain(x[1], x[2])]

LEMMA NarrowIsFold ==
  ASSUME NEW A, NEW E, NEW base \in A, NEW seq \in Seq(E), NarrowKeeps(A, E)
  PROVE  /\ Folds(A, E, NarrowFun(A, E), base, seq)
         /\ NarrowAll(base, seq) = Fold(NarrowFun(A, E), base, seq)
<1> DEFINE g == NarrowFun(A, E)
<1>1. Folds(A, E, g, base, seq)
  BY DEF Folds, NarrowFun, NarrowKeeps
<1>2. PICK it : FoldTable(it, A, g, base, seq)
  <2> HIDE DEF g
  <2> QED
    BY <1>1, FoldTableExists
<1>3. \A a \in A, e \in E : g[<<a, e>>] = Narrow(a, e)
  BY DEF NarrowFun
<1>4. \A t \in SUBSET DOMAIN seq : t # {} => Max(t) \in DOMAIN seq /\ seq[Max(t)] \in E
  BY MaxChooses
<1> DEFINE Rec(jt) == jt = [t \in SUBSET DOMAIN seq |->
                              IF t = {} THEN base ELSE Narrow(jt[t \ {Max(t)}], seq[Max(t)])]
<1> HIDE DEF g
<1>5. Rec(it)
  <2>1. \A t \in SUBSET DOMAIN seq : t \ {Max(t)} \in SUBSET DOMAIN seq /\ it[t \ {Max(t)}] \in A
    BY <1>2 DEF FoldTable
  <2> QED
    BY <1>2, <1>3, <1>4, <2>1 DEF FoldTable
<1>6. PICK jt : Rec(jt) /\ NarrowAll(base, seq) = jt[DOMAIN seq]
  BY <1>5 DEF FoldLeft, MapThenFoldSet, NarrowAll
<1>7. GoesOn(jt, A, g, base, seq)
  BY <1>3, <1>4, <1>6 DEF GoesOn
<1>8. jt[DOMAIN seq] = Fold(g, base, seq)
  <2> HIDE DEF Rec
  <2> QED
    BY <1>1, <1>7, FoldIs
<1> QED
  BY <1>1, <1>6, <1>8 DEF g

LEMMA NarrowFold ==
  ASSUME NEW A, NEW E, NEW base \in A, NEW seq \in Seq(E), NEW c \in E, NarrowKeeps(A, E)
  PROVE  /\ NarrowAll(base, seq) \in A
         /\ NarrowAll(base, Append(seq, c)) = Narrow(NarrowAll(base, seq), c)
<1> DEFINE g == NarrowFun(A, E)
           longer == Append(seq, c)
<1>1. longer \in Seq(E)
  OBVIOUS
<1>2. \A a \in A, e \in E : g[<<a, e>>] = Narrow(a, e)
  BY DEF NarrowFun
<1>3. /\ Folds(A, E, g, base, seq) /\ NarrowAll(base, seq) = Fold(g, base, seq)
      /\ NarrowAll(base, longer) = Fold(g, base, longer)
  <2> HIDE DEF longer
  <2> QED
    BY <1>1, NarrowIsFold
<1> HIDE DEF g
<1>4. Fold(g, base, seq) \in A /\ Fold(g, base, longer) = g[<<Fold(g, base, seq), c>>]
  BY <1>3, FoldType, FoldAppend
<1> QED
  BY <1>2, <1>3, <1>4

LEMMA HmacIsFold ==
  ASSUME NEW A, NEW E, NEW base \in A, NEW seq \in Seq(E), HmacKeeps(A, E)
  PROVE  /\ Folds(A, E, HmacFun(A, E), base, seq)
         /\ HmacAll(base, seq) = Fold(HmacFun(A, E), base, seq)
<1> DEFINE g == HmacFun(A, E)
<1>1. Folds(A, E, g, base, seq)
  BY DEF Folds, HmacFun, HmacKeeps
<1>2. PICK it : FoldTable(it, A, g, base, seq)
  <2> HIDE DEF g
  <2> QED
    BY <1>1, FoldTableExists
<1>3. \A a \in A, e \in E : g[<<a, e>>] = Hmac(a, e)
  BY DEF HmacFun
<1>4. \A t \in SUBSET DOMAIN seq : t # {} => Max(t) \in DOMAIN seq /\ seq[Max(t)] \in E
  BY MaxChooses
<1> DEFINE Rec(jt) == jt = [t \in SUBSET DOMAIN seq |->
                              IF t = {} THEN base ELSE Hmac(jt[t \ {Max(t)}], seq[Max(t)])]
<1> HIDE DEF g
<1>5. Rec(it)
  <2>1. \A t \in SUBSET DOMAIN seq : t \ {Max(t)} \in SUBSET DOMAIN seq /\ it[t \ {Max(t)}] \in A
    BY <1>2 DEF FoldTable
  <2> QED
    BY <1>2, <1>3, <1>4, <2>1 DEF FoldTable
<1>6. PICK jt : Rec(jt) /\ HmacAll(base, seq) = jt[DOMAIN seq]
  BY <1>5 DEF FoldLeft, MapThenFoldSet, HmacAll
<1>7. GoesOn(jt, A, g, base, seq)
  BY <1>3, <1>4, <1>6 DEF GoesOn
<1>8. jt[DOMAIN seq] = Fold(g, base, seq)
  <2> HIDE DEF Rec
  <2> QED
    BY <1>1, <1>7, FoldIs
<1> QED
  BY <1>1, <1>6, <1>8 DEF g

LEMMA HmacFold ==
  ASSUME NEW A, NEW E, NEW base \in A, NEW seq \in Seq(E), NEW c \in E, HmacKeeps(A, E)
  PROVE  /\ HmacAll(base, seq) \in A
         /\ HmacAll(base, Append(seq, c)) = Hmac(HmacAll(base, seq), c)
<1> DEFINE g == HmacFun(A, E)
           longer == Append(seq, c)
<1>1. longer \in Seq(E)
  OBVIOUS
<1>2. \A a \in A, e \in E : g[<<a, e>>] = Hmac(a, e)
  BY DEF HmacFun
<1>3. /\ Folds(A, E, g, base, seq) /\ HmacAll(base, seq) = Fold(g, base, seq)
      /\ HmacAll(base, longer) = Fold(g, base, longer)
  <2> HIDE DEF longer
  <2> QED
    BY <1>1, HmacIsFold
<1> HIDE DEF g
<1>4. Fold(g, base, seq) \in A /\ Fold(g, base, longer) = g[<<Fold(g, base, seq), c>>]
  BY <1>3, FoldType, FoldAppend
<1> QED
  BY <1>2, <1>3, <1>4

LEMMA ChainIsFold ==
  ASSUME NEW A, NEW E, NEW base \in A, NEW seq \in Seq(E), ChainKeeps(A, E)
  PROVE  /\ Folds(A, E, ChainFun(A, E), base, seq)
         /\ ChainAll(base, seq) = Fold(ChainFun(A, E), base, seq)
<1> DEFINE g == ChainFun(A, E)
<1>1. Folds(A, E, g, base, seq)
  BY DEF Folds, ChainFun, ChainKeeps
<1>2. PICK it : FoldTable(it, A, g, base, seq)
  <2> HIDE DEF g
  <2> QED
    BY <1>1, FoldTableExists
<1>3. \A a \in A, e \in E : g[<<a, e>>] = Chain(a, e)
  BY DEF ChainFun
<1>4. \A t \in SUBSET DOMAIN seq : t # {} => Max(t) \in DOMAIN seq /\ seq[Max(t)] \in E
  BY MaxChooses
<1> DEFINE Rec(jt) == jt = [t \in SUBSET DOMAIN seq |->
                              IF t = {} THEN base ELSE Chain(jt[t \ {Max(t)}], seq[Max(t)])]
<1> HIDE DEF g
<1>5. Rec(it)
  <2>1. \A t \in SUBSET DOMAIN seq : t \ {Max(t)} \in SUBSET DOMAIN seq /\ it[t \ {Max(t)}] \in A
    BY <1>2 DEF FoldTable
  <2> QED
    BY <1>2, <1>3, <1>4, <2>1 DEF FoldTable
<1>6. PICK jt : Rec(jt) /\ ChainAll(base, seq) = jt[DOMAIN seq]
  BY <1>5 DEF FoldLeft, MapThenFoldSet, ChainAll
<1>7. GoesOn(jt, A, g, base, seq)
  BY <1>3, <1>4, <1>6 DEF GoesOn
<1>8. jt[DOMAIN seq] = Fold(g, base, seq)
  <2> HIDE DEF Rec
  <2> QED
    BY <1>1, <1>7, FoldIs
<1> QED
  BY <1>1, <1>6, <1>8 DEF g

LEMMA ChainFold ==
  ASSUME NEW A, NEW E, NEW base \in A, NEW seq \in Seq(E), ChainKeeps(A, E)
  PROVE  ChainAll(base, seq) \in A
<1>1. /\ Folds(A, E, ChainFun(A, E), base, seq)
      /\ ChainAll(base, seq) = Fold(ChainFun(A, E), base, seq)
  BY ChainIsFold
<1> QED
  BY <1>1, FoldType

-----------------------------------------------------------------------------
(* What the verifier accepts, and what it then claims.                       *)

Acceptable(c) == c.t \in KnownCaveats /\ TypedCaveat(c)

ClaimRecords(R, N, K, H) ==
  [ok : {TRUE}, accountable_root : R, actor : N, caps : SUBSET K, exp : Nat, budget : Nat,
   depth : Nat, holder : H]

ClaimSet(ident, E) ==
  ClaimRecords({ident.root}, {ident.root} \cup {c.id : c \in E}, ident.caps,
               {None} \cup {c.key : c \in E})

(* How far claims reach. *)
NoWider(b, a) == b.caps \subseteq a.caps /\ b.exp <= a.exp /\ b.budget <= a.budget

LEMMA ClaimFields ==
  ASSUME NEW R, NEW N, NEW K, NEW H, NEW a \in ClaimRecords(R, N, K, H)
  PROVE  /\ a.ok /\ a.accountable_root \in R /\ a.caps \in SUBSET K
         /\ a.exp \in Nat /\ a.budget \in Nat /\ a.depth \in Nat
BY DEF ClaimRecords

LEMMA WithCaps ==
  ASSUME NEW R, NEW N, NEW K, NEW H, NEW a \in ClaimRecords(R, N, K, H), NEW x \in SUBSET K, x \subseteq a.caps
  PROVE  [a EXCEPT !.caps = x] \in ClaimRecords(R, N, K, H) /\ NoWider([a EXCEPT !.caps = x], a)
<1>1. [a EXCEPT !.caps = x] \in ClaimRecords(R, N, K, H)
  BY DEF ClaimRecords
<1>2. a.exp \in Nat /\ a.budget \in Nat
  BY ClaimFields
<1>3. [a EXCEPT !.caps = x].caps = x
  BY DEF ClaimRecords
<1>4. [a EXCEPT !.caps = x].exp = a.exp
  BY DEF ClaimRecords
<1>5. [a EXCEPT !.caps = x].budget = a.budget
  BY DEF ClaimRecords
<1> QED
  BY <1>1, <1>2, <1>3, <1>4, <1>5 DEF NoWider

LEMMA WithExp ==
  ASSUME NEW R, NEW N, NEW K, NEW H, NEW a \in ClaimRecords(R, N, K, H), NEW x \in Nat, x <= a.exp
  PROVE  [a EXCEPT !.exp = x] \in ClaimRecords(R, N, K, H) /\ NoWider([a EXCEPT !.exp = x], a)
<1>1. [a EXCEPT !.exp = x] \in ClaimRecords(R, N, K, H)
  BY DEF ClaimRecords
<1>2. a.exp \in Nat /\ a.budget \in Nat
  BY ClaimFields
<1>3. [a EXCEPT !.exp = x].caps = a.caps
  BY DEF ClaimRecords
<1>4. [a EXCEPT !.exp = x].exp = x
  BY DEF ClaimRecords
<1>5. [a EXCEPT !.exp = x].budget = a.budget
  BY DEF ClaimRecords
<1> QED
  BY <1>1, <1>2, <1>3, <1>4, <1>5 DEF NoWider

LEMMA WithBudget ==
  ASSUME NEW R, NEW N, NEW K, NEW H, NEW a \in ClaimRecords(R, N, K, H), NEW x \in Nat, x <= a.budget
  PROVE  [a EXCEPT !.budget = x] \in ClaimRecords(R, N, K, H) /\ NoWider([a EXCEPT !.budget = x], a)
<1>1. [a EXCEPT !.budget = x] \in ClaimRecords(R, N, K, H)
  BY DEF ClaimRecords
<1>2. a.exp \in Nat /\ a.budget \in Nat
  BY ClaimFields
<1>3. [a EXCEPT !.budget = x].caps = a.caps
  BY DEF ClaimRecords
<1>4. [a EXCEPT !.budget = x].exp = a.exp
  BY DEF ClaimRecords
<1>5. [a EXCEPT !.budget = x].budget = x
  BY DEF ClaimRecords
<1> QED
  BY <1>1, <1>2, <1>3, <1>4, <1>5 DEF NoWider

LEMMA WithHolder ==
  ASSUME NEW R, NEW N, NEW K, NEW H, NEW a \in ClaimRecords(R, N, K, H), NEW x \in H
  PROVE  [a EXCEPT !.holder = x] \in ClaimRecords(R, N, K, H) /\ NoWider([a EXCEPT !.holder = x], a)
<1>1. [a EXCEPT !.holder = x] \in ClaimRecords(R, N, K, H)
  BY DEF ClaimRecords
<1>2. a.exp \in Nat /\ a.budget \in Nat
  BY ClaimFields
<1>3. [a EXCEPT !.holder = x].caps = a.caps
  BY DEF ClaimRecords
<1>4. [a EXCEPT !.holder = x].exp = a.exp
  BY DEF ClaimRecords
<1>5. [a EXCEPT !.holder = x].budget = a.budget
  BY DEF ClaimRecords
<1> QED
  BY <1>1, <1>2, <1>3, <1>4, <1>5 DEF NoWider

LEMMA WithActor ==
  ASSUME NEW R, NEW N, NEW K, NEW H, NEW a \in ClaimRecords(R, N, K, H), NEW x \in N, NEW y \in Nat
  PROVE  \A b : b = [a EXCEPT !.actor = x, !.depth = y]
           => b \in ClaimRecords(R, N, K, H) /\ NoWider(b, a)
<1>1. [a EXCEPT !.actor = x, !.depth = y] \in ClaimRecords(R, N, K, H)
  BY DEF ClaimRecords
<1>2. a.exp \in Nat /\ a.budget \in Nat
  BY ClaimFields
<1>3. [a EXCEPT !.actor = x, !.depth = y].caps = a.caps
  BY DEF ClaimRecords
<1>4. [a EXCEPT !.actor = x, !.depth = y].exp = a.exp
  BY DEF ClaimRecords
<1>5. [a EXCEPT !.actor = x, !.depth = y].budget = a.budget
  BY DEF ClaimRecords
<1> QED
  BY <1>1, <1>2, <1>3, <1>4, <1>5 DEF NoWider

LEMMA NarrowType ==
  ASSUME NEW ident, NEW E, NEW a \in ClaimSet(ident, E), NEW c \in E, Acceptable(c)
  PROVE  Narrow(a, c) \in ClaimSet(ident, E) /\ NoWider(Narrow(a, c), a)
<1> DEFINE R == {ident.root}
           N == {ident.root} \cup {x.id : x \in E}
           K == ident.caps
           H == {None} \cup {x.key : x \in E}
<1>1. c.id \in N /\ c.key \in H
  OBVIOUS
<1> HIDE DEF R, N, K, H
<1>2. a \in ClaimRecords(R, N, K, H)
  BY DEF ClaimSet, R, N, K, H
<1>3. a.caps \in SUBSET K /\ a.exp \in Nat /\ a.budget \in Nat /\ a.depth \in Nat
  BY <1>2, ClaimFields
<1>4. Narrow(a, c) \in ClaimRecords(R, N, K, H) /\ NoWider(Narrow(a, c), a)
  <2>1. CASE c.t = "cap"
    <3> DEFINE x == a.caps \cap c.mask
    <3>1. Narrow(a, c) = [a EXCEPT !.caps = x]
      BY <2>1 DEF Narrow
    <3>2. x \in SUBSET K /\ x \subseteq a.caps
      BY <1>3
    <3> HIDE DEF x
    <3> QED
      BY <1>2, <3>1, <3>2, WithCaps
  <2>2. CASE c.t = "exp"
    <3>1. Narrow(a, c) = [a EXCEPT !.exp = Least(a.exp, c.exp)]
      BY <2>2 DEF Narrow
    <3>2. Least(a.exp, c.exp) \in Nat /\ Least(a.exp, c.exp) <= a.exp
      BY <1>3, <2>2 DEF Least, Acceptable, TypedCaveat
    <3> QED
      BY <1>2, <3>1, <3>2, WithExp
  <2>3. CASE c.t = "budget"
    <3>1. Narrow(a, c) = [a EXCEPT !.budget = Least(a.budget, c.v)]
      BY <2>3 DEF Narrow
    <3>2. Least(a.budget, c.v) \in Nat /\ Least(a.budget, c.v) <= a.budget
      BY <1>3, <2>3 DEF Least, Acceptable, TypedCaveat
    <3> QED
      BY <1>2, <3>1, <3>2, WithBudget
  <2>4. CASE c.t = "actor"
    <3> DEFINE x == c.id
               y == a.depth + 1
    <3>1. Narrow(a, c) = [a EXCEPT !.actor = x, !.depth = y]
      BY <2>4 DEF Narrow
    <3>2. x \in N /\ y \in Nat
      BY <1>1, <1>3
    <3> HIDE DEF x, y
    <3> QED
      BY <1>2, <3>1, <3>2, WithActor
  <2>5. CASE c.t = "holder"
    <3>1. Narrow(a, c) = [a EXCEPT !.holder = c.key]
      BY <2>5 DEF Narrow
    <3> QED
      BY <1>1, <1>2, <3>1, WithHolder
  <2> QED
    BY <2>1, <2>2, <2>3, <2>4, <2>5 DEF Acceptable, KnownCaveats
<1> QED
  BY <1>4 DEF ClaimSet, R, N, K, H

ClaimsOf(t) == NarrowAll(RootClaims(t.identifier), t.caveats)

Passes(t, secret, now) ==
  /\ PowValid(t.identifier.root, t.identifier.nonce, t.identifier.difficulty)
  /\ \A i \in DOMAIN t.caveats : t.caveats[i].t \in KnownCaveats
  /\ HmacAll(Hmac(secret, t.identifier), t.caveats) = t.sig
  /\ ~(now >= ClaimsOf(t).exp)

LEMMA Verified ==
  ASSUME NEW t, NEW secret, NEW now
  PROVE  /\ Passes(t, secret, now) => Verify(t, secret, now) = ClaimsOf(t)
         /\ ~Passes(t, secret, now) => ~Verify(t, secret, now).ok
<1> DEFINE ident == t.identifier
           Short == IF ~PowValid(ident.root, ident.nonce, ident.difficulty) THEN Refuse("unminted")
                    ELSE IF \E i \in DOMAIN t.caveats : t.caveats[i].t \notin KnownCaveats
                         THEN Refuse("unknown caveat")
                    ELSE IF HmacAll(Hmac(secret, ident), t.caveats) # t.sig
                         THEN Refuse("signature mismatch")
                    ELSE IF now >= ClaimsOf(t).exp THEN Refuse("expired")
                    ELSE ClaimsOf(t)
<1>1. Verify(t, secret, now) = Short
  BY Zenon DEF Verify, ClaimsOf, NarrowAll, HmacAll
<1>2. \A why : ~Refuse(why).ok
  BY DEF Refuse
<1>3. Passes(t, secret, now) => Short = ClaimsOf(t)
  BY DEF Passes
<1>4. ~Passes(t, secret, now) => ~Short.ok
  BY <1>2 DEF Passes
<1> HIDE DEF Short
<1> QED
  BY <1>1, <1>3, <1>4

LEMMA ClaimsType ==
  ASSUME NEW t, TypedToken(t), NEW E, t.caveats \in Seq(E), NEW c \in E, \A e \in E : Acceptable(e)
  PROVE  /\ ClaimsOf(t) \in ClaimSet(t.identifier, E)
         /\ NarrowAll(RootClaims(t.identifier), Append(t.caveats, c)) = Narrow(ClaimsOf(t), c)
<1> DEFINE A == ClaimSet(t.identifier, E)
<1>1. RootClaims(t.identifier) \in A
  <2> DEFINE N == {t.identifier.root} \cup {x.id : x \in E}
             H == {None} \cup {x.key : x \in E}
  <2>1. t.identifier.root \in N /\ None \in H /\ t.identifier.exp \in Nat /\ t.identifier.budget \in Nat
    BY DEF TypedToken
  <2> HIDE DEF N, H
  <2>2. RootClaims(t.identifier) \in ClaimRecords({t.identifier.root}, N, t.identifier.caps, H)
    BY <2>1 DEF RootClaims, ClaimRecords
  <2> QED
    BY <2>2 DEF ClaimSet, N, H
<1>2. NarrowKeeps(A, E)
  BY NarrowType DEF NarrowKeeps
<1>3. /\ ClaimsOf(t) \in A
      /\ NarrowAll(RootClaims(t.identifier), Append(t.caveats, c)) = Narrow(ClaimsOf(t), c)
  <2> DEFINE base == RootClaims(t.identifier)
             seq  == t.caveats
  <2> HIDE DEF A, base, seq
  <2>1. base \in A /\ seq \in Seq(E)
    BY <1>1 DEF base, seq
  <2>2. NarrowAll(base, seq) \in A
    BY <1>2, <2>1, NarrowFold
  <2>3. NarrowAll(base, Append(seq, c)) = Narrow(NarrowAll(base, seq), c)
    BY <1>2, <2>1, NarrowFold
  <2> QED
    BY <2>2, <2>3 DEF ClaimsOf, base, seq
<1> QED
  BY <1>3

-----------------------------------------------------------------------------
(* A hop: what is verified with a caveat more was verified without it.       *)

ElementsOf(s) == {s[i] : i \in DOMAIN s}

LEMMA SignedSeq ==
  ASSUME NEW s, Signed(s), NEW S, ElementsOf(s) \subseteq S
  PROVE  s \in Seq(S)
<1>1. \A i \in 1..Len(s) : s[i] \in S
  BY DEF Signed, ElementsOf
<1> QED
  BY <1>1 DEF Signed

LEMMA AppendAlike ==
  ASSUME NEW S, NEW a \in Seq(S), NEW b \in Seq(S), NEW c, Append(a, c) = Append(b, c)
  PROVE  a = b
<1>1. Len(Append(a, c)) = Len(a) + 1 /\ Len(Append(b, c)) = Len(b) + 1 /\ Len(a) = Len(b)
  OBVIOUS
<1>2. \A i \in 1..Len(a) : a[i] = Append(a, c)[i] /\ b[i] = Append(b, c)[i]
  BY <1>1
<1> QED
  BY <1>1, <1>2

LEMMA HmacType ==
  ASSUME NEW S
  PROVE  HmacKeeps(Seq(S), S)
BY DEF HmacKeeps, Hmac

(* What the shorter token needs so that the longer one says less. *)
Reaches(u, t, secret, now) ==
  Verify(u, secret, now).ok =>
    /\ Verify(t, secret, now).ok
    /\ Verify(u, secret, now).accountable_root = Verify(t, secret, now).accountable_root
    /\ Verify(u, secret, now).caps \subseteq Verify(t, secret, now).caps
    /\ Verify(u, secret, now).budget \in Nat /\ Verify(t, secret, now).budget \in Nat
    /\ Verify(u, secret, now).budget <= Verify(t, secret, now).budget

LEMMA OneHop ==
  ASSUME NEW t, TypedToken(t), NEW c, Acceptable(c), NEW secret, Signed(secret), NEW now \in Nat
  PROVE  Reaches(Chain(t, c), t, secret, now)
<1> DEFINE u == Chain(t, c)
           ident == t.identifier
           E == ElementsOf(t.caveats) \cup {c}
           X == ElementsOf(secret) \cup ElementsOf(t.sig) \cup E \cup {ident}
           first == Hmac(secret, ident)
           folded == HmacAll(first, t.caveats)
<1> SUFFICES ASSUME Verify(u, secret, now).ok PROVE Reaches(u, t, secret, now)
  BY DEF Reaches
<1>1. u.identifier = ident /\ u.caveats = Append(t.caveats, c) /\ u.sig = Append(t.sig, c)
  <2>1. t = [identifier |-> ident, caveats |-> t.caveats, sig |-> t.sig]
    BY DEF TypedToken
  <2>2. u = [t EXCEPT !.sig = Append(t.sig, c), !.caveats = Append(t.caveats, c)]
    BY DEF Chain, Hmac
  <2> QED
    BY <2>1, <2>2
<1>2. t.caveats \in Seq(E) /\ t.sig \in Seq(X) /\ secret \in Seq(X) /\ c \in E /\ E \subseteq X
  <2>1. Signed(t.caveats) /\ Signed(t.sig) /\ Signed(secret)
    BY DEF TypedToken
  <2>2. ElementsOf(t.caveats) \subseteq E /\ ElementsOf(t.sig) \subseteq X
        /\ ElementsOf(secret) \subseteq X
    OBVIOUS
  <2> HIDE DEF E, X
  <2>3. t.caveats \in Seq(E) /\ t.sig \in Seq(X) /\ secret \in Seq(X)
    BY <2>1, <2>2, SignedSeq
  <2> QED
    BY <2>3 DEF E, X
<1>3. Passes(u, secret, now) /\ Verify(u, secret, now) = ClaimsOf(u)
  BY Verified
<1>4. \A e \in E : Acceptable(e)
  <2>1. \A i \in DOMAIN u.caveats : u.caveats[i].t \in KnownCaveats
    BY <1>3 DEF Passes
  <2>2. \A i \in DOMAIN t.caveats : i \in DOMAIN u.caveats /\ u.caveats[i] = t.caveats[i]
    BY <1>1, <1>2
  <2>3. \A i \in DOMAIN t.caveats : Acceptable(t.caveats[i])
    BY <2>1, <2>2 DEF Acceptable, TypedToken
  <2> QED
    BY <2>3 DEF ElementsOf
<1> HIDE DEF u, E, X
<1>5. folded = t.sig
  <2>1. first \in Seq(X) /\ t.caveats \in Seq(X) /\ c \in X
    <3>1. ident \in X
      BY DEF X
    <3> QED
      BY <1>2, <3>1 DEF Hmac
  <2> HIDE DEF first
  <2>2. folded \in Seq(X) /\ HmacAll(first, Append(t.caveats, c)) = Hmac(folded, c)
    <3> DEFINE S == Seq(X)
    <3>1. HmacKeeps(S, X) /\ first \in S
      BY <2>1, HmacType
    <3>2. folded \in S /\ HmacAll(first, Append(t.caveats, c)) = Hmac(folded, c)
      <4> HIDE DEF S
      <4> QED
        BY <2>1, <3>1, HmacFold
    <3> QED
      BY <3>2
  <2>3. HmacAll(first, Append(t.caveats, c)) = Append(t.sig, c)
    BY <1>1, <1>3 DEF Passes, first
  <2>4. Append(folded, c) = Append(t.sig, c)
    BY <2>2, <2>3 DEF Hmac
  <2> HIDE DEF folded
  <2> QED
    BY <1>2, <2>2, <2>4, AppendAlike
<1>6. /\ ClaimsOf(t) \in ClaimSet(ident, E)
      /\ ClaimsOf(u) = Narrow(ClaimsOf(t), c)
  <2>1. /\ ClaimsOf(t) \in ClaimSet(ident, E)
        /\ NarrowAll(RootClaims(ident), Append(t.caveats, c)) = Narrow(ClaimsOf(t), c)
    BY <1>2, <1>4, ClaimsType
  <2> QED
    BY <1>1, <2>1 DEF ClaimsOf
<1>7. ClaimsOf(u) \in ClaimSet(ident, E) /\ NoWider(ClaimsOf(u), ClaimsOf(t))
  BY <1>2, <1>4, <1>6, NarrowType
<1>8. /\ ClaimsOf(t).ok /\ ClaimsOf(t).accountable_root = ident.root
      /\ ClaimsOf(t).exp \in Nat /\ ClaimsOf(t).budget \in Nat
      /\ ClaimsOf(u).accountable_root = ident.root
      /\ ClaimsOf(u).exp \in Nat /\ ClaimsOf(u).budget \in Nat
  BY <1>6, <1>7, ClaimFields DEF ClaimSet
<1>9. Passes(t, secret, now)
  <2>1. PowValid(ident.root, ident.nonce, ident.difficulty)
    BY <1>1, <1>3 DEF Passes
  <2>2. \A i \in DOMAIN t.caveats : t.caveats[i].t \in KnownCaveats
    BY <1>2, <1>4 DEF Acceptable
  <2>3. ~(now >= ClaimsOf(t).exp)
    <3>1. ~(now >= ClaimsOf(u).exp) /\ ClaimsOf(u).exp <= ClaimsOf(t).exp
      BY <1>3, <1>7 DEF Passes, NoWider
    <3> QED
      BY <1>8, <3>1
  <2> QED
    BY <1>5, <2>1, <2>2, <2>3 DEF Passes
<1>10. Verify(t, secret, now) = ClaimsOf(t)
  BY <1>9, Verified
<1> QED
  BY <1>3, <1>7, <1>8, <1>10 DEF Reaches, NoWider
LEMMA ReachesOnward ==
  ASSUME NEW t, NEW u, NEW v, NEW secret, NEW now,
         Reaches(v, u, secret, now), Reaches(u, t, secret, now)
  PROVE  Reaches(v, t, secret, now)
BY DEF Reaches

LEMMA ReachesItself ==
  ASSUME NEW t, TypedToken(t), NEW secret, NEW now
  PROVE  Reaches(t, t, secret, now)
<1> SUFFICES ASSUME Verify(t, secret, now).ok PROVE Verify(t, secret, now).budget \in Nat
  BY DEF Reaches
<1> DEFINE c == [t |-> "cap", mask |-> {}]
           E == ElementsOf(t.caveats) \cup {c}
<1>1. Passes(t, secret, now) /\ Verify(t, secret, now) = ClaimsOf(t)
  BY Verified
<1>2. Acceptable(c)
  BY DEF Acceptable, KnownCaveats, TypedCaveat
<1>3. \A e \in E : Acceptable(e)
  <2>1. \A i \in DOMAIN t.caveats : Acceptable(t.caveats[i])
    BY <1>1 DEF Passes, Acceptable, TypedToken
  <2> HIDE DEF c
  <2> QED
    BY <1>2, <2>1 DEF ElementsOf
<1>4. t.caveats \in Seq(E) /\ c \in E
  <2>1. ElementsOf(t.caveats) \subseteq E /\ c \in E
    OBVIOUS
  <2> HIDE DEF E, c
  <2> QED
    BY <2>1, SignedSeq DEF TypedToken
<1> HIDE DEF c, E
<1>5. ClaimsOf(t) \in ClaimSet(t.identifier, E)
  BY <1>3, <1>4, ClaimsType
<1>6. ClaimsOf(t).budget \in Nat
  BY <1>5, ClaimFields DEF ClaimSet
<1> QED
  BY <1>1, <1>6 DEF Reaches

LEMMA ChainTyped ==
  ASSUME NEW ident, NEW S, NEW X, NEW t \in [identifier : {ident}, caveats : Seq(S), sig : Seq(X)],
         TypedToken(t), NEW c, c \in S, c \in X, TypedCaveat(c)
  PROVE  /\ Chain(t, c) \in [identifier : {ident}, caveats : Seq(S), sig : Seq(X)]
         /\ TypedToken(Chain(t, c))
<1> DEFINE u == Chain(t, c)
           cs == Append(t.caveats, c)
           sg == Append(t.sig, c)
<1>1. t.caveats \in Seq(S) /\ t.sig \in Seq(X) /\ t.identifier = ident
  OBVIOUS
<1>2. /\ cs \in Seq(S) /\ sg \in Seq(X)
  BY <1>1
<1>3. \A i \in DOMAIN cs : TypedCaveat(cs[i])
  <2>1. \A i \in DOMAIN cs : (i \in DOMAIN t.caveats /\ cs[i] = t.caveats[i]) \/ cs[i] = c
    BY <1>1
  <2> HIDE DEF cs
  <2> QED
    BY <2>1 DEF TypedToken
<1>4. Signed(cs) /\ Signed(sg)
  <2>1. \A R, s : s \in Seq(R) => Signed(s)
    BY DEF Signed
  <2> HIDE DEF cs, sg
  <2> QED
    BY <1>2, <2>1
<1> HIDE DEF cs, sg
<1>5. u = [t EXCEPT !.sig = sg, !.caveats = cs]
  BY DEF Chain, Hmac, sg, cs
<1>6. u = [identifier |-> ident, caveats |-> cs, sig |-> sg]
  BY <1>5
<1> HIDE DEF u
<1>7. u.identifier = ident /\ u.caveats = cs /\ u.sig = sg
  BY <1>6
<1> QED
  BY <1>1, <1>2, <1>3, <1>4, <1>6, <1>7 DEF TypedToken, u

LEMMA CaveatsType ==
  ASSUME NEW kw \in Narrowings
  PROVE  Caveats(kw) \in Seq({c \in ElementsOf(Caveats(kw)) : Acceptable(c)})
<1> DEFINE cap    == [t |-> "cap", mask |-> kw.caps]
           exp    == [t |-> "exp", exp |-> kw.exp]
           budget == [t |-> "budget", v |-> kw.budget]
           actor  == [t |-> "actor", id |-> kw.actor]
           holder == [t |-> "holder", key |-> kw.holder]
           E == {c \in {cap, exp, budget, actor, holder} : Acceptable(c)}
           Given(arg, c) == IF arg \in DOMAIN kw THEN <<c>> ELSE <<>>
<1>1. Acceptable(cap) /\ Acceptable(actor) /\ Acceptable(holder)
  BY DEF Acceptable, KnownCaveats, TypedCaveat
<1>2. "exp" \in DOMAIN kw => Acceptable(exp)
  BY TokenAssumption DEF Acceptable, KnownCaveats, TypedCaveat
<1>3. "budget" \in DOMAIN kw => Acceptable(budget)
  BY TokenAssumption DEF Acceptable, KnownCaveats, TypedCaveat
<1>4. /\ Given("caps", cap) \in Seq(E) /\ Given("exp", exp) \in Seq(E)
      /\ Given("budget", budget) \in Seq(E) /\ Given("actor", actor) \in Seq(E)
      /\ Given("holder", holder) \in Seq(E)
  <2>1. /\ cap \in E /\ actor \in E /\ holder \in E
        /\ "exp" \in DOMAIN kw => exp \in E
        /\ "budget" \in DOMAIN kw => budget \in E
    BY <1>1, <1>2, <1>3
  <2> HIDE DEF E, cap, exp, budget, actor, holder
  <2> QED
    BY <2>1
<1>5. Caveats(kw) = Given("caps", cap) \o Given("exp", exp) \o Given("budget", budget)
                    \o Given("actor", actor) \o Given("holder", holder)
  BY DEF Caveats
<1> HIDE DEF E, Given
<1>6. Caveats(kw) \in Seq(E)
  BY <1>4, <1>5
<1>7. \A c \in E : Acceptable(c)
  BY DEF E
<1> QED
  BY <1>6, <1>7 DEF ElementsOf

LEMMA Attenuated ==
  ASSUME NEW t, TypedToken(t), NEW kw \in Narrowings, NEW secret, Signed(secret), NEW now \in Nat
  PROVE  TypedToken(Attenuate(t, kw)) /\ Reaches(Attenuate(t, kw), t, secret, now)
<1> DEFINE E == {c \in ElementsOf(Caveats(kw)) : Acceptable(c)}
           S == ElementsOf(t.caveats) \cup E
           X == ElementsOf(t.sig) \cup E
           Tokens == [identifier : {t.identifier}, caveats : Seq(S), sig : Seq(X)]
           A == {u \in Tokens : TypedToken(u) /\ Reaches(u, t, secret, now)}
<1>1. Caveats(kw) \in Seq(E) /\ \A c \in E : Acceptable(c) /\ c \in S /\ c \in X
  BY CaveatsType
<1>2. t \in A
  <2>1. ElementsOf(t.caveats) \subseteq S /\ ElementsOf(t.sig) \subseteq X
    OBVIOUS
  <2>2. t.caveats \in Seq(S) /\ t.sig \in Seq(X)
    <3> HIDE DEF S, X
    <3> QED
      BY <2>1, SignedSeq DEF TypedToken
  <2> HIDE DEF S, X
  <2>3. t \in Tokens
    BY <2>2 DEF TypedToken
  <2> QED
    BY <2>3, ReachesItself
<1>3. ASSUME NEW u \in A, NEW c \in E PROVE Chain(u, c) \in A
  <2> HIDE DEF S, X, E
  <2>1. u \in Tokens /\ TypedToken(u) /\ Reaches(u, t, secret, now)
    OBVIOUS
  <2>2. Acceptable(c) /\ TypedCaveat(c) /\ c \in S /\ c \in X
    BY <1>1 DEF Acceptable
  <2>3. Reaches(Chain(u, c), u, secret, now)
    BY <2>1, <2>2, OneHop
  <2>4. Chain(u, c) \in Tokens /\ TypedToken(Chain(u, c))
    BY <2>1, <2>2, ChainTyped
  <2> QED
    BY <2>1, <2>3, <2>4, ReachesOnward
<1>4. ChainAll(t, Caveats(kw)) \in A
  <2> HIDE DEF A, E
  <2> QED
    BY <1>1, <1>2, <1>3, ChainFold DEF ChainKeeps
<1>5. Attenuate(t, kw) = ChainAll(t, Caveats(kw))
  BY DEF Attenuate, ChainAll
<1> QED
  BY <1>4, <1>5

LEMMA LessIsAllowed ==
  ASSUME NEW req \in Requests, NEW u, Reaches(u, req.token, RootSecret, req.now), NEW actual,
         NEW ledger \in [Roots -> Nat],
         Decide(req, Verify(u, RootSecret, req.now), actual, ledger) = "ALLOW"
  PROVE  Decide(req, Claims[req], actual, ledger) = "ALLOW"
<1> DEFINE had  == Claims[req]
           less == Verify(u, RootSecret, req.now)
<1>1. had = Verify(req.token, RootSecret, req.now)
  BY DEF Claims
<1> HIDE DEF had, less
<1>2. less.ok
  BY DEF Decide, Screen, less
<1>3. /\ had.ok /\ less.accountable_root = had.accountable_root /\ less.caps \subseteq had.caps
      /\ less.budget \in Nat /\ had.budget \in Nat /\ less.budget <= had.budget
  BY <1>1, <1>2 DEF Reaches, less
<1>4. had.accountable_root \in Roots /\ req.tool.est_cost \in Nat
  BY <1>3, RequestAssumption DEF had
<1>5. /\ RoleCovers(req, less) /\ PurposeGranted(req, less) /\ PurposeCovers(req)
      /\ MeetsFloor(req, actual) /\ WithinBudget(req, less, ledger[less.accountable_root])
  BY DEF Decide, Screen, less
<1>6. RoleCovers(req, had) /\ PurposeGranted(req, had)
  BY <1>3, <1>5 DEF RoleCovers, PurposeGranted
<1>7. WithinBudget(req, had, ledger[had.accountable_root])
  <2>1. ledger[had.accountable_root] \in Nat
    BY <1>4
  <2> QED
    BY <1>3, <1>4, <1>5, <2>1 DEF WithinBudget
<1>8. Decide(req, had, actual, ledger) = "ALLOW"
  BY <1>3, <1>5, <1>6, <1>7 DEF Decide, Screen
<1> QED
  BY <1>8 DEF had

LEMMA AttenuationFollows == TypeOK => AttenuationNeverUnlocks
<1> SUFFICES ASSUME TypeOK, NEW req \in Requests, NEW one \in Narrowings, NEW two \in Narrowings,
                    NEW actual,
                    Decide(req, Verify(Attenuate(Attenuate(req.token, one), two), RootSecret, req.now),
                           actual, db.spent) = "ALLOW"
             PROVE  Decide(req, Claims[req], actual, db.spent) = "ALLOW"
  BY DEF AttenuationNeverUnlocks, Delegations
<1> DEFINE hop == Attenuate(req.token, one)
           leaf == Attenuate(hop, two)
<1>1. TypedToken(req.token) /\ Signed(RootSecret) /\ req.now \in Nat
  BY TokenAssumption
<1>2. TypedToken(hop) /\ Reaches(hop, req.token, RootSecret, req.now)
  BY <1>1, Attenuated
<1> HIDE DEF hop
<1>3. Reaches(leaf, hop, RootSecret, req.now)
  BY <1>1, <1>2, Attenuated
<1>4. Reaches(leaf, req.token, RootSecret, req.now)
  <2> HIDE DEF leaf
  <2> QED
    BY <1>2, <1>3, ReachesOnward
<1>5. db.spent \in [Roots -> Nat]
  BY DEF TypeOK, IsImage
<1> QED
  BY <1>4, <1>5, LessIsAllowed DEF hop

(* No caveat that a holder can add, in two hops, opens a call that the token *)
(* it was added to did not.                                                  *)
THEOREM AttenuationOnlyNarrows == Spec => []AttenuationNeverUnlocks
<1>1. TypeOK => AttenuationNeverUnlocks
  BY AttenuationFollows
<1> QED
  BY <1>1, TypeCorrect, PTL
=============================================================================
