---------------------------- MODULE StoreLogProofs -----------------------------
(****************************************************************************)
(* Theorems about the two logs of Store, the decision audit and the triage  *)
(* chronicle, for any number of processes that share the file: the audit is *)
(* a tree of hashes, every refusal in it has its incident, and every call   *)
(* it shows as allowed acted on sources that still meet the tool's floor,   *)
(* although their tiers were read several statements before the row.        *)
(* The second half is about one process that has the file to itself: it     *)
(* stays within every ceiling and each token's budget, its audit is a       *)
(* chain, and statement by statement it implements the in-memory decision   *)
(* point of AgentIAM.                                                       *)
(****************************************************************************)
EXTENDS StoreProofs

-----------------------------------------------------------------------------
(* What a content of the file owes the properties. *)

(* b is a with rows and incidents added. *)
Grows(a, b) ==
  /\ a.incidents \subseteq b.incidents
  /\ Len(a.audit) <= Len(b.audit)
  /\ \A i \in 1..Len(a.audit) : b.audit[i] = a.audit[i]

Committed(image, hash) ==
  hash = <<>> \/ \E j \in 1..Len(image.audit) : image.audit[j].row_hash = hash

Chronicled(image, fields) ==
  \E inc \in image.incidents :
    /\ inc.code = fields.code /\ inc.tool = fields.tool /\ inc.now = fields.ts
    /\ inc.accountable_root = fields.accountable_root /\ inc.actor = fields.actor

IsTree(image) ==
  \A i \in DOMAIN image.audit :
    LET row == image.audit[i] IN
    /\ row.row_hash = Append(row.prev_hash, row.fields)
    /\ row.prev_hash = <<>> \/ \E j \in 1..(i - 1) : image.audit[j].row_hash = row.prev_hash

IsChronicle(image) ==
  \A i \in DOMAIN image.audit :
    image.audit[i].fields.code # "ALLOW" => Chronicled(image, image.audit[i].fields)

Sound(image) == IsTree(image) /\ IsChronicle(image)

(* What p has read or written in this call is in the content it sees.  A     *)
(* process inside a transaction may have read its own uncommitted rows.      *)
Ready(p) ==
  /\ pc[p] = "record" => Committed(Image(p), frame[p].prev)
  /\ pc[p] \in {"last_hash", "record"} /\ frame[p].code # "ALLOW" =>
       Chronicled(Image(p), Fields(frame[p].req, frame[p].code))

OneWriter == \A p, q \in Procs : Writer(p) /\ Writer(q) => p = q

(* The two properties are not inductive: the row that a call is about to     *)
(* write must already be covered, whatever the other processes commit or     *)
(* roll back in between.                                                     *)
LogInv ==
  /\ TypeOK /\ OneWriter /\ Grows(db, tx)
  /\ Sound(db) /\ Sound(tx)
  /\ \A p \in Procs : Ready(p)

-----------------------------------------------------------------------------
(* Contents *)

LEMMA AuditLength ==
  ASSUME NEW d, IsImage(d)
  PROVE  /\ d.audit \in Seq(Rows) /\ Len(d.audit) \in Nat
         /\ DOMAIN d.audit = 1..Len(d.audit)
BY DEF IsImage

LEMMA GrowsReflexive ==
  ASSUME NEW a, IsImage(a)
  PROVE  Grows(a, a)
BY AuditLength DEF Grows

LEMMA GrowsTransitive ==
  ASSUME NEW a, IsImage(a), NEW b, IsImage(b), NEW c, IsImage(c), Grows(a, b), Grows(b, c)
  PROVE  Grows(a, c)
<1>1. Len(a.audit) \in Nat /\ Len(b.audit) \in Nat /\ Len(c.audit) \in Nat
  BY AuditLength
<1> QED
  BY <1>1 DEF Grows

(* A content that has grown covers what the smaller one covered.             *)
LEMMA CoverGrows ==
  ASSUME NEW a, IsImage(a), NEW b, IsImage(b), Grows(a, b)
  PROVE  /\ \A hash : Committed(a, hash) => Committed(b, hash)
         /\ \A fields : Chronicled(a, fields) => Chronicled(b, fields)
<1>1. Len(a.audit) \in Nat /\ Len(b.audit) \in Nat
  BY AuditLength
<1>2. ASSUME NEW hash, Committed(a, hash) PROVE Committed(b, hash)
  BY <1>1, <1>2 DEF Committed, Grows
<1>3. ASSUME NEW fields, Chronicled(a, fields) PROVE Chronicled(b, fields)
  BY <1>3 DEF Chronicled, Grows
<1> QED
  BY <1>2, <1>3

(* A write to a table other than the audit adds no row.                      *)
LEMMA SameAudit ==
  ASSUME NEW a, IsImage(a), NEW b, IsImage(b), Sound(a),
         b.audit = a.audit, a.incidents \subseteq b.incidents
  PROVE  Grows(a, b) /\ Sound(b)
<1>1. Grows(a, b)
  BY AuditLength DEF Grows
<1>2. IsTree(b)
  BY DEF Sound, IsTree
<1>3. ASSUME NEW i \in DOMAIN b.audit, b.audit[i].fields.code # "ALLOW"
      PROVE  Chronicled(b, b.audit[i].fields)
  <2>1. Chronicled(a, a.audit[i].fields)
    BY <1>3 DEF Sound, IsChronicle
  <2> QED
    BY <1>1, <2>1, CoverGrows
<1> QED
  BY <1>1, <1>2, <1>3 DEF Sound, IsChronicle

(* A row whose hash is read and whose incident is written keeps both logs.   *)
LEMMA RowAdded ==
  ASSUME NEW a, IsImage(a), Sound(a), NEW fields \in AllFields, NEW prev \in Hashes,
         Committed(a, prev), fields.code # "ALLOW" => Chronicled(a, fields)
  PROVE  LET b == WithRow(a, Row(fields, prev)) IN
         IsImage(b) /\ Grows(a, b) /\ Sound(b)
<1> DEFINE row == Row(fields, prev)
           b   == WithRow(a, row)
           n   == Len(a.audit)
<1>1. row \in Rows
  BY RowType
<1>2. IsImage(b)
  <2> HIDE DEF row
  <2> QED
    BY <1>1, ImageWithRow
<1>3. b.audit = Append(a.audit, row) /\ b.incidents = a.incidents
  <2> HIDE DEF row
  <2> QED
    BY DEF WithRow, IsImage
<1>4. a.audit \in Seq(Rows) /\ n \in Nat /\ DOMAIN a.audit = 1..n
  BY AuditLength
<1>5. Len(b.audit) = n + 1 /\ DOMAIN b.audit = 1..(n + 1)
  <2> HIDE DEF row, b
  <2> QED
    BY <1>1, <1>3, <1>4
<1>6. b.audit[n + 1] = row /\ \A i \in 1..n : b.audit[i] = a.audit[i]
  <2> HIDE DEF row, b
  <2> QED
    BY <1>1, <1>3, <1>4
<1>7. Grows(a, b)
  BY <1>3, <1>4, <1>5, <1>6 DEF Grows
<1>8. row.fields = fields /\ row.prev_hash = prev /\ row.row_hash = Append(prev, fields)
  BY DEF Row, RowHash
<1> HIDE DEF row, b, n
<1>9. ASSUME NEW i \in DOMAIN b.audit
      PROVE  /\ b.audit[i].row_hash = Append(b.audit[i].prev_hash, b.audit[i].fields)
             /\ \/ b.audit[i].prev_hash = <<>>
                \/ \E j \in 1..(i - 1) : b.audit[j].row_hash = b.audit[i].prev_hash
  <2>1. CASE i \in 1..n
    <3>1. \A j \in 1..i : b.audit[j] = a.audit[j]
      BY <1>4, <1>6, <2>1
    <3>2. b.audit[i] = a.audit[i] /\ i \in DOMAIN a.audit /\ i \in Nat
      BY <1>4, <1>6, <2>1
    <3>3. \A j \in 1..(i - 1) : b.audit[j] = a.audit[j]
      BY <3>1, <3>2
    <3> QED
      BY <3>2, <3>3 DEF Sound, IsTree
  <2>2. CASE i = n + 1
    <3>1. prev = <<>> \/ \E j \in 1..n : b.audit[j].row_hash = prev
      BY <1>6 DEF Committed, n
    <3>2. i - 1 = n
      BY <1>4, <2>2
    <3> QED
      BY <1>6, <1>8, <2>2, <3>1, <3>2
  <2> QED
    BY <1>4, <1>5, <2>1, <2>2
<1>10. ASSUME NEW i \in DOMAIN b.audit, b.audit[i].fields.code # "ALLOW"
       PROVE  Chronicled(b, b.audit[i].fields)
  <2>1. CASE i \in 1..n
    <3>1. Chronicled(a, a.audit[i].fields)
      BY <1>4, <1>6, <1>10, <2>1 DEF Sound, IsChronicle
    <3> QED
      BY <1>2, <1>6, <1>7, <2>1, <3>1, CoverGrows
  <2>2. CASE i = n + 1
    BY <1>2, <1>6, <1>7, <1>8, <1>10, <2>2, CoverGrows
  <2> QED
    BY <1>4, <1>5, <2>1, <2>2
<1> QED
  BY <1>2, <1>7, <1>9, <1>10 DEF Sound, IsTree, IsChronicle, b, row

(* The incident of a refusal chronicles the row that its call will write.    *)
LEMMA PacketChronicles ==
  ASSUME NEW d, IsImage(d), NEW code, NEW req, NEW actual, NEW quoted
  PROVE  LET added == WithIncident(d, TriagePacket(code, req, actual, quoted)) IN
         /\ added.audit = d.audit /\ d.incidents \subseteq added.incidents
         /\ Chronicled(added, Fields(req, code))
<1> DEFINE packet == TriagePacket(code, req, actual, quoted)
<1>1. /\ packet.code = code /\ packet.tool = req.tool.name /\ packet.now = req.now
      /\ packet.accountable_root = RootOf(req) /\ packet.actor = ActorOf(req)
  BY DEF TriagePacket
<1>2. LET f == Fields(req, code) IN
        /\ f.code = code /\ f.tool = req.tool.name /\ f.ts = req.now
        /\ f.accountable_root = RootOf(req) /\ f.actor = ActorOf(req)
  BY DEF Fields
<1> HIDE DEF packet
<1>3. /\ WithIncident(d, packet).audit = d.audit
      /\ WithIncident(d, packet).incidents = d.incidents \cup {packet}
  BY DEF WithIncident, IsImage
<1> QED
  BY <1>1, <1>2, <1>3 DEF Chronicled, packet

LEMMA NewestIsCommitted ==
  ASSUME NEW d, IsImage(d)
  PROVE  Committed(d, NewestHash(d))
<1>1. CASE d.audit = <<>>
  BY <1>1 DEF Committed, NewestHash
<1>2. CASE d.audit # <<>>
  <2>1. Len(d.audit) \in 1..Len(d.audit)
    BY <1>2, AuditLength, EmptySeq
  <2> QED
    BY <1>2, <2>1 DEF Committed, NewestHash, Last
<1> QED
  BY <1>1, <1>2

-----------------------------------------------------------------------------
(* The connections *)

LEMMA LogImage ==
  ASSUME LogInv, NEW p \in Procs
  PROVE  /\ IsImage(Image(p)) /\ IsImage(db) /\ IsImage(tx)
         /\ Sound(Image(p)) /\ Grows(db, Image(p))
BY ImageType, GrowsReflexive DEF LogInv, TypeOK, Image

(* A step that writes nothing and leaves the writer where it is.             *)
LEMMA QuietStep ==
  ASSUME LogInv, TypeOK', UNCHANGED <<db, tx>>,
         \A q \in Procs : Writer(q)' = Writer(q),
         \A q \in Procs : Ready(q) => Ready(q)'
  PROVE  LogInv'
BY DEF LogInv, OneWriter, Grows, Sound, IsTree, IsChronicle, Chronicled

(* The other processes' part of Ready, when p alone moves and what each      *)
(* other one sees has only grown.                                            *)
LEMMA OtherReady ==
  ASSUME LogInv, TypeOK', NEW q \in Procs, Grows(Image(q), Image(q)'),
         pc'[q] = pc[q], frame'[q] = frame[q]
  PROVE  Ready(q)'
<1>1. IsImage(Image(q)) /\ IsImage(Image(q)')
  BY ImageType DEF LogInv, TypeOK, Image, IsImage
<1>2. Ready(q)
  BY DEF LogInv
<1>3. /\ \A hash : Committed(Image(q), hash) => Committed(Image(q)', hash)
      /\ \A fields : Chronicled(Image(q), fields) => Chronicled(Image(q)', fields)
  BY <1>1, CoverGrows
<1>4. Fields(frame[q].req, frame[q].code)' = Fields(frame[q].req, frame[q].code)
  OBVIOUS
<1>5. (pc[q] = "record" => Committed(Image(q), frame[q].prev))'
  BY <1>2, <1>3 DEF Ready, Committed
<1>6. (pc[q] \in {"last_hash", "record"} /\ frame[q].code # "ALLOW" =>
         Chronicled(Image(q), Fields(frame[q].req, frame[q].code)))'
  BY <1>2, <1>3, <1>4 DEF Ready, Chronicled
<1> QED
  BY <1>5, <1>6 DEF Ready

(* A write that grows the content its process sees, whether it is committed, *)
(* stays in the transaction or is refused.                                   *)
LEMMA WriteStep ==
  ASSUME LogInv, TypeOK', NEW p \in Procs, NEW new, IsImage(new), NEW ok,
         Grows(Image(p), new), Sound(new),
         Commit(p, new) \/ Raises(p, new, ok),
         \A q \in Procs \ {p} : pc'[q] = pc[q] /\ frame'[q] = frame[q],
         Ready(p)'
  PROVE  LogInv'
<1>1. TypeOK /\ OneWriter /\ Grows(db, tx) /\ Sound(db) /\ Sound(tx)
      /\ conn \in [Procs -> Modes]
  BY DEF LogInv, TypeOK
<1>2. IsImage(db) /\ IsImage(tx) /\ IsImage(Image(p)) /\ Sound(Image(p)) /\ Grows(db, Image(p))
  BY LogImage
<1>3. Grows(db, new)
  BY <1>2, GrowsTransitive
<1>4. CASE WriteBusy(p)
  <2>1. UNCHANGED <<db, tx>> /\ \A q \in Procs : Writer(q)' = Writer(q)
    BY <1>1, <1>4 DEF WriteBusy, Writer
  <2>2. ASSUME NEW q \in Procs, q # p PROVE Ready(q)'
    <3>1. Image(q)' = Image(q)
      BY <2>1 DEF Image
    <3> QED
      BY <2>2, <3>1, ImageType, GrowsReflexive, OtherReady, <1>1
  <2> QED
    BY <2>1, <2>2, QuietStep
<1>5. ASSUME CanWrite(p), tx' = new \/ tx' = Image(p), db' = db \/ (db' = new /\ tx' = new),
             \A q \in Procs \ {p} : conn'[q] = conn[q]
      PROVE  LogInv'
  <2>1. ASSUME NEW q \in Procs, q # p PROVE ~Writer(q) /\ ~Writer(q)'
    BY <1>5, <2>1 DEF CanWrite, NoneElse, Writer
  <2>2. OneWriter'
    BY <2>1 DEF OneWriter
  <2>3. Sound(db') /\ Sound(tx')
    BY <1>1, <1>2, <1>5
  <2>4. Grows(db', tx') /\ Grows(db, db')
    BY <1>2, <1>3, <1>5, GrowsReflexive
  <2>5. ASSUME NEW q \in Procs, q # p PROVE Ready(q)'
    <3>1. Image(q) = db /\ Image(q)' = db'
      BY <2>1, <2>5 DEF Image
    <3> QED
      BY <1>5, <2>4, <2>5, <3>1, OtherReady
  <2>6. Sound(db)' /\ Sound(tx)' /\ Grows(db, tx)'
    BY <2>3, <2>4 DEF Sound, IsTree, IsChronicle, Chronicled, Grows
  <2> QED
    BY <2>2, <2>5, <2>6 DEF LogInv
<1>6. CASE Commit(p, new)
  BY <1>1, <1>5, <1>6 DEF Commit
<1>7. CASE CommitBusy(p, new)
  BY <1>1, <1>5, <1>7 DEF CommitBusy
<1>8. CASE ConstraintFails(p)
  <2>1. CanWrite(p) /\ tx' = Image(p) /\ db' = db
    BY <1>8 DEF ConstraintFails
  <2>2. \A q \in Procs \ {p} : conn'[q] = conn[q]
    BY <1>1, <1>8 DEF ConstraintFails
  <2> QED
    BY <1>5, <2>1, <2>2
<1> QED
  BY <1>4, <1>6, <1>7, <1>8 DEF Raises

(* The end of a process rolls its own transaction back and no other's.       *)
LEMMA CloseStep ==
  ASSUME LogInv, TypeOK', NEW p \in Procs, Close(p),
         \A q \in Procs \ {p} : pc'[q] = pc[q] /\ frame'[q] = frame[q],
         Ready(p)'
  PROVE  LogInv'
<1>1. TypeOK /\ OneWriter /\ Grows(db, tx) /\ Sound(db) /\ Sound(tx)
      /\ conn \in [Procs -> Modes] /\ IsImage(db) /\ IsImage(tx)
  BY DEF LogInv, TypeOK
<1>2. db' = db /\ (tx' = tx \/ tx' = db)
  BY DEF Close
<1>3. ASSUME NEW q \in Procs, q # p PROVE Writer(q)' = Writer(q)
  BY <1>1, <1>3 DEF Close, Writer
<1>4. ~Writer(p)'
  BY <1>1 DEF Close, Writer
<1>5. OneWriter'
  BY <1>1, <1>3, <1>4 DEF OneWriter
<1>6. ASSUME NEW q \in Procs, q # p PROVE Ready(q)'
  <2>1. Image(q)' = Image(q)
    BY <1>1, <1>2, <1>3, <1>6 DEF Close, Image, OneWriter
  <2> QED
    BY <1>1, <1>6, <2>1, ImageType, GrowsReflexive, OtherReady
<1>7. Sound(db') /\ Sound(tx') /\ Grows(db', tx')
  BY <1>1, <1>2, GrowsReflexive
<1>8. Sound(db)' /\ Sound(tx)' /\ Grows(db, tx)'
  BY <1>7 DEF Sound, IsTree, IsChronicle, Chronicled, Grows
<1> QED
  BY <1>5, <1>6, <1>8 DEF LogInv

(* A read does not move a writer, and sees what was there.                   *)
LEMMA ReadStep ==
  ASSUME LogInv, TypeOK', NEW p \in Procs, Read(p),
         \A q \in Procs \ {p} : pc'[q] = pc[q] /\ frame'[q] = frame[q],
         Ready(p)'
  PROVE  LogInv'
<1>1. TypeOK /\ conn \in [Procs -> Modes]
  BY DEF LogInv, TypeOK
<1>2. UNCHANGED <<db, tx>> /\ \A q \in Procs : Writer(q)' = Writer(q)
  BY <1>1 DEF Read, Writer
<1>3. ASSUME NEW q \in Procs, q # p PROVE Ready(q)'
  <2>1. Image(q)' = Image(q)
    BY <1>2 DEF Image
  <2> QED
    BY <1>1, <1>3, <2>1, ImageType, GrowsReflexive, OtherReady
<1> QED
  BY <1>2, <1>3, QuietStep

-----------------------------------------------------------------------------
(* Each step keeps the invariant *)

LEMMA LogInit == Init => LogInv
<1> SUFFICES ASSUME Init PROVE LogInv
  OBVIOUS
<1>1. TypeOK /\ IsImage(db) /\ tx = db /\ db.audit = <<>>
  BY InitType DEF Init, TypeOK
<1>2. Sound(db) /\ Sound(tx)
  BY <1>1 DEF Sound, IsTree, IsChronicle
<1>3. OneWriter /\ Grows(db, tx)
  BY <1>1, GrowsReflexive DEF Init, OneWriter, Writer
<1>4. \A p \in Procs : Ready(p)
  BY DEF Init, Ready
<1> QED
  BY <1>1, <1>2, <1>3, <1>4 DEF LogInv

(* A step that takes its process to the beginning of a call, or to a check,  *)
(* owes nothing.                                                             *)
LEMMA NothingOwed ==
  ASSUME TypeOK, NEW p \in Procs, NEW step, Goto(p, step),
         step \notin {"last_hash", "record"}
  PROVE  Ready(p)'
BY DEF TypeOK, Goto, Ready

LEMMA ReadingKeepsLog ==
  ASSUME LogInv, NEW p \in Procs, ResolveSource(p) \/ ReadSpent(p)
  PROVE  LogInv'
<1>1. TypeOK /\ TypeOK' /\ Read(p)
  BY ResolveSourceType, ReadSpentType DEF LogInv, ResolveSource, ReadSpent
<1>2. \E step : Goto(p, step) /\ step \notin {"last_hash", "record"}
  <2>1. ResolveSource(p) => Goto(p, "screen") \/ Goto(p, "resolve")
    BY DEF ResolveSource
  <2>2. ReadSpent(p) => Goto(p, "charge") \/ Goto(p, "emit")
    BY DEF ReadSpent
  <2> QED
    BY <2>1, <2>2
<1>3. \A q \in Procs \ {p} : pc'[q] = pc[q] /\ frame'[q] = frame[q]
  BY <1>1, <1>2 DEF ResolveSource, ReadSpent, TypeOK, Goto
<1> QED
  BY <1>1, <1>2, <1>3, NothingOwed, ReadStep

LEMMA ReadLastHashKeepsLog ==
  ASSUME LogInv, NEW p \in Procs, ReadLastHash(p)
  PROVE  LogInv'
<1>1. TypeOK /\ TypeOK' /\ Read(p) /\ conn \in [Procs -> Modes]
  BY ReadLastHashType DEF LogInv, ReadLastHash, TypeOK
<1>2. \A q \in Procs \ {p} : pc'[q] = pc[q] /\ frame'[q] = frame[q]
  BY <1>1 DEF ReadLastHash, TypeOK, Goto
<1>3. /\ pc[p] = "last_hash"
      /\ frame'[p] = [frame[p] EXCEPT !.prev = NewestHash(Image(p))]
      /\ frame[p] \in Frames
  BY <1>1 DEF ReadLastHash, TypeOK
<1>4. /\ frame'[p].prev = NewestHash(Image(p))
      /\ frame'[p].req = frame[p].req /\ frame'[p].code = frame[p].code
  BY <1>3 DEF Frames
<1>5. Image(p)' = Image(p)
  BY <1>1 DEF Read, Image, Writer
<1>6. Committed(Image(p), NewestHash(Image(p)))
  BY LogImage, NewestIsCommitted
<1>7. (pc[p] = "record" => Committed(Image(p), frame[p].prev))'
  BY <1>4, <1>5, <1>6 DEF Committed
<1>8. frame[p].code # "ALLOW" => Chronicled(Image(p), Fields(frame[p].req, frame[p].code))
  BY <1>3 DEF LogInv, Ready
<1>9. Fields(frame[p].req, frame[p].code)' = Fields(frame[p].req, frame[p].code)
  BY <1>4
<1>10. (frame[p].code # "ALLOW" =>
          Chronicled(Image(p), Fields(frame[p].req, frame[p].code)))'
  BY <1>4, <1>5, <1>8, <1>9 DEF Chronicled
<1>11. Ready(p)'
  BY <1>7, <1>10 DEF Ready
<1> QED
  BY <1>1, <1>2, <1>11, ReadStep

LEMMA ChargeKeepsLog ==
  ASSUME LogInv, NEW p \in Procs, Charge(p)
  PROVE  LogInv'
<1> DEFINE new == Charged(Image(p), RootOf(frame[p].req), frame[p].req.tool.est_cost)
           ok  == ForeignKey(Image(p), RootOf(frame[p].req))
<1>1. TypeOK /\ TypeOK' /\ pc[p] = "charge" /\ frame[p].code = "ALLOW"
  BY ChargeType DEF LogInv, Charge, TypeOK, FrameOK
<1>2. IsImage(new)
  BY <1>1, PassedHasRoot, ImageType, ImageCharged
<1>3. new.audit = Image(p).audit /\ new.incidents = Image(p).incidents
  BY LogImage DEF Charged, IsImage
<1>4. Grows(Image(p), new) /\ Sound(new)
  <2> HIDE DEF new
  <2> QED
    BY <1>2, <1>3, LogImage, SameAudit
<1>5. \/ Commit(p, new) /\ Goto(p, "last_hash") /\ UNCHANGED frame
      \/ Raises(p, new, ok) /\ Leave(p)
  BY DEF Charge
<1> HIDE DEF new, ok
<1>6. \A q \in Procs \ {p} : pc'[q] = pc[q] /\ frame'[q] = frame[q]
  BY <1>1, <1>5 DEF Leave, TypeOK, Goto
<1>7. Ready(p)'
  BY <1>1, <1>5, NothingOwed DEF Ready, Leave, Goto, TypeOK
<1> QED
  BY <1>1, <1>2, <1>4, <1>5, <1>6, <1>7, WriteStep

LEMMA EmitIncidentKeepsLog ==
  ASSUME LogInv, NEW p \in Procs, EmitIncident(p)
  PROVE  LogInv'
<1> DEFINE f   == frame[p]
           new == WithIncident(Image(p), TriagePacket(f.code, f.req, f.tier, f.quoted))
           ok  == ForeignKey(Image(p), RootOf(f.req))
<1>1. TypeOK /\ TypeOK' /\ conn \in [Procs -> Modes] /\ pc \in [Procs -> Steps \cup {"idle"}]
      /\ frame \in [Procs -> Frames]
  BY EmitIncidentType DEF LogInv, TypeOK
<1>2. IsImage(new)
  BY <1>1, ImageType, ImageWithIncident
<1>3. /\ new.audit = Image(p).audit /\ Image(p).incidents \subseteq new.incidents
      /\ Chronicled(new, Fields(f.req, f.code))
  BY LogImage, PacketChronicles
<1>4. Grows(Image(p), new) /\ Sound(new)
  <2> HIDE DEF new
  <2> QED
    BY <1>2, <1>3, LogImage, SameAudit
<1>5. \/ Commit(p, new) /\ Goto(p, "last_hash") /\ UNCHANGED frame
      \/ Raises(p, new, ok) /\ Leave(p)
  BY DEF EmitIncident
<1> HIDE DEF new, ok
<1>6. \A q \in Procs \ {p} : pc'[q] = pc[q] /\ frame'[q] = frame[q]
  BY <1>1, <1>5 DEF Leave, Goto
<1>7. Ready(p)'
  <2>1. CASE Leave(p)
    BY <1>1, <2>1, NothingOwed DEF Leave
  <2>2. CASE Commit(p, new) /\ Goto(p, "last_hash") /\ UNCHANGED frame
    <3>1. Image(p)' = new /\ pc'[p] = "last_hash" /\ frame'[p] = frame[p]
      BY <1>1, <2>2 DEF Commit, Image, Writer, Goto
    <3>2. Fields(frame[p].req, frame[p].code)' = Fields(frame[p].req, frame[p].code)
      BY <3>1
    <3>3. Chronicled(Image(p), Fields(frame[p].req, frame[p].code))'
      BY <1>3, <3>1, <3>2 DEF Chronicled
    <3> QED
      BY <3>1, <3>3 DEF Ready
  <2> QED
    BY <1>5, <2>1, <2>2
<1> QED
  BY <1>1, <1>2, <1>4, <1>5, <1>6, <1>7, WriteStep

LEMMA RecordKeepsLog ==
  ASSUME LogInv, NEW p \in Procs, Record(p)
  PROVE  LogInv'
<1> DEFINE fields == Fields(frame[p].req, frame[p].code)
           prev   == frame[p].prev
           new    == WithRow(Image(p), Row(fields, prev))
<1>1. TypeOK /\ TypeOK' /\ pc[p] = "record" /\ Leave(p)
      /\ (Commit(p, new) \/ Raises(p, new, TRUE))
  BY RecordType DEF LogInv, Record, Return, RecordRaises, Recorded
<1>2. prev \in Hashes /\ frame[p].req \in Requests /\ frame[p].code \in Codes
  BY <1>1 DEF TypeOK, FrameOK, Frames
<1>3. fields \in AllFields /\ fields.code = frame[p].code
  BY <1>2 DEF AllFields, Fields
<1>4. Committed(Image(p), prev) /\ (frame[p].code # "ALLOW" => Chronicled(Image(p), fields))
  BY <1>1 DEF LogInv, Ready
<1>5. IsImage(new) /\ Grows(Image(p), new) /\ Sound(new)
  <2> HIDE DEF fields, prev
  <2> QED
    BY <1>2, <1>3, <1>4, LogImage, RowAdded
<1> HIDE DEF new
<1>6. \A q \in Procs \ {p} : pc'[q] = pc[q] /\ frame'[q] = frame[q]
  BY <1>1 DEF Leave, TypeOK, Goto
<1> QED
  BY <1>1, <1>5, <1>6, NothingOwed, WriteStep DEF Leave

(* A registration or a vouch. *)
LEMMA AdministerKeepsLog ==
  ASSUME LogInv, NEW p \in Procs, NEW new, IsImage(new), Administer(p, new),
         new.audit = Image(p).audit, new.incidents = Image(p).incidents
  PROVE  LogInv'
<1>1. TypeOK /\ TypeOK' /\ pc[p] = "idle" /\ UNCHANGED <<pc, frame>>
      /\ (Commit(p, new) \/ Raises(p, new, TRUE))
  BY AdministerType DEF LogInv, Administer
<1>2. Grows(Image(p), new) /\ Sound(new)
  BY LogImage, SameAudit
<1>3. Ready(p)'
  BY <1>1 DEF Ready
<1> QED
  BY <1>1, <1>2, <1>3, WriteStep

(* The steps without a statement, and the statement that times out.          *)
LEMMA ControlKeepsLog ==
  ASSUME LogInv, NEW p \in Procs,
         Check(p) \/ ReadRaises(p) \/ \E req \in Requests : Call(p, req)
  PROVE  LogInv'
<1>1. TypeOK /\ TypeOK' /\ UNCHANGED <<db, tx, conn>>
  BY CheckType, ReadRaisesType, CallType DEF LogInv, Check, ReadRaises, ReadBusy, Call
<1>2. \E step : Goto(p, step) /\ step \notin {"last_hash", "record"}
  BY DEF Check, ReadRaises, Leave, Call
<1>3. Ready(p)'
  BY <1>1, <1>2, NothingOwed
<1>4. ASSUME NEW q \in Procs, q # p PROVE Ready(q)'
  <2>1. pc'[q] = pc[q] /\ frame'[q] = frame[q]
    BY <1>1, <1>2, <1>4 DEF Check, ReadRaises, Leave, Call, TypeOK, Goto
  <2>2. Image(q)' = Image(q)
    BY <1>1 DEF Image, Writer
  <2> QED
    BY <1>1, <1>4, <2>1, <2>2, ImageType, GrowsReflexive, OtherReady
<1>5. \A q \in Procs : Writer(q)' = Writer(q)
  BY <1>1 DEF Writer
<1> QED
  BY <1>1, <1>3, <1>4, <1>5, QuietStep

LEMMA CrashKeepsLog ==
  ASSUME LogInv, NEW p \in Procs, Crash(p)
  PROVE  LogInv'
<1>1. TypeOK /\ TypeOK' /\ Close(p) /\ Goto(p, "idle")
  BY CrashType DEF LogInv, Crash
<1>2. \A q \in Procs \ {p} : pc'[q] = pc[q] /\ frame'[q] = frame[q]
  BY <1>1 DEF Crash, TypeOK, Goto
<1> QED
  BY <1>1, <1>2, NothingOwed, CloseStep

LEMMA LogStep == LogInv /\ [Next]_vars => LogInv'
<1> SUFFICES ASSUME LogInv, [Next]_vars PROVE LogInv'
  OBVIOUS
<1>1. CASE UNCHANGED vars
  <2>1. TypeOK' /\ \A q \in Procs : Ready(q) => Ready(q)'
    BY <1>1, StepType DEF LogInv, vars, Ready, Image, Writer, Committed, Chronicled
  <2> QED
    BY <1>1, <2>1, QuietStep DEF vars, Writer
<1>2. ASSUME NEW p \in Procs, Authorizing(p) PROVE LogInv'
  BY <1>2, ReadingKeepsLog, ReadLastHashKeepsLog, ChargeKeepsLog, EmitIncidentKeepsLog,
     RecordKeepsLog, ControlKeepsLog DEF Authorizing, Proceeding, Record
<1>3. ASSUME NEW p \in Procs, NEW ident \in Mints, RegisterPrincipal(p, ident) PROVE LogInv'
  <2> DEFINE new == WithPrincipal(Image(p), ident)
  <2>1. IsImage(new) /\ new.audit = Image(p).audit /\ new.incidents = Image(p).incidents
    BY LogImage, ImageWithPrincipal DEF WithPrincipal, IsImage
  <2> QED
    BY <1>3, <2>1, AdministerKeepsLog DEF RegisterPrincipal
<1>4. ASSUME NEW p \in Procs, NEW v \in Vouches, Vouch(p, v[1], v[2]) PROVE LogInv'
  <2> DEFINE new == WithTier(Image(p), v[1], v[2])
  <2>1. v[1] \in Sources /\ v[2] \in TrustTier
    BY StoreAssumption
  <2>2. IsImage(new) /\ new.audit = Image(p).audit /\ new.incidents = Image(p).incidents
    BY <2>1, LogImage, ImageWithTier DEF WithTier, IsImage
  <2> QED
    BY <1>4, <2>2, AdministerKeepsLog DEF Vouch
<1> QED
  BY <1>1, <1>2, <1>3, <1>4, ControlKeepsLog, CrashKeepsLog DEF Next

LEMMA LogInvSays == LogInv => AuditIsATree /\ RefusalsAreChronicled
<1> SUFFICES ASSUME LogInv PROVE AuditIsATree /\ RefusalsAreChronicled
  OBVIOUS
<1>1. AuditIsATree
  BY DEF LogInv, Sound, IsTree, AuditIsATree
<1>2. RefusalsAreChronicled
  BY DEF LogInv, Sound, IsChronicle, Chronicled, RefusalsAreChronicled
<1> QED
  BY <1>1, <1>2

(* Each audit row commits to an earlier row, or to the beginning: with any   *)
(* number of processes, crashes and failed commits the log may fork, but no  *)
(* row hangs on one that was never committed.                                *)
THEOREM AuditIsTree == Spec => []AuditIsATree
<1> QED
  BY LogInit, LogStep, LogInvSays, PTL DEF Spec

(* No refusal reaches the audit log without its incident, although the two   *)
(* are written by two commits and either may fail or be cut by a crash.      *)
THEOREM RefusalsHaveIncidents == Spec => []RefusalsAreChronicled
<1> QED
  BY LogInit, LogStep, LogInvSays, PTL DEF Spec

-----------------------------------------------------------------------------
(* The provenance promise *)

(* Sources are only ever lifted: all vouches of a source give it one tier.   *)
OnlyLifts == \A v, w \in Vouches : v[1] = w[1] => v[2] = w[2]

(* A tool's name, all that its audit row keeps of it, tells its floor.       *)
NamedTools ==
  /\ \A req \in Requests : req.tool.risk_floor \in TrustTier
  /\ \A x, y \in Requests : x.tool.name = y.tool.name => x.tool.risk_floor = y.tool.risk_floor

-----------------------------------------------------------------------------
(* No tier of b is lower than that of a. *)
Rises(a, b) == \A s \in Sources : a.tier[s] <= b.tier[s]

Lifted(image) ==
  \A s \in Sources : image.tier[s] = UNATTESTED \/ <<s, image.tier[s]>> \in Vouches

Covers(image, fields) ==
  fields.code = "ALLOW" =>
    \A s \in fields.request_hash.sources : image.tier[s] >= FloorOf(fields.tool)

Vouched(image) ==
  /\ Lifted(image)
  /\ \A i \in DOMAIN image.audit : Covers(image, image.audit[i].fields)

(* What a call at a statement has established of the content it sees: its    *)
(* tier is that of no source it has read, and past check 4 it has read them  *)
(* all and the tier meets the floor.                                         *)
Kept(step, f, image) ==
  step # "idle" =>
    /\ \A s \in SourcesOf(f.req.manifest) :
         s \in SourcesOf(f.left) \/ f.tier <= image.tier[s]
    /\ step # "resolve" => f.left = <<>>
    /\ step = "emit" => f.code # "ALLOW"
    /\ \/ step \in {"budget", "charge"}
       \/ step \in {"last_hash", "record"} /\ f.code = "ALLOW"
       => MeetsFloor(f.req, f.tier)

(* The property speaks of rows that exist; the invariant adds the rows to    *)
(* come, and that what a call has read can only rise under it.               *)
VouchInv ==
  /\ Vouched(db) /\ Vouched(tx) /\ Rises(db, tx)
  /\ \A p \in Procs : Kept(pc[p], frame[p], Image(p))

(* What a step of p does to the contents. *)
StillVouched(p) ==
  /\ Vouched(db') /\ Vouched(tx') /\ Rises(db', tx')
  /\ \A q \in Procs \ {p} : Rises(Image(q), Image(q)')

-----------------------------------------------------------------------------
(* Contents *)

LEMMA ManifestSources ==
  ASSUME NEW req \in Requests
  PROVE  SourcesOf(req.manifest) \subseteq Sources
<1>1. req.manifest \in Seq([source_id : Sources, tier : TrustTier])
  BY RequestAssumption
<1>2. ASSUME NEW S, NEW m \in Seq(S), NEW i \in DOMAIN m PROVE m[i] \in S
  OBVIOUS
<1>3. \A i \in DOMAIN req.manifest : req.manifest[i] \in [source_id : Sources, tier : TrustTier]
  BY <1>1, <1>2
<1> QED
  BY <1>3 DEF SourcesOf

LEMMA RowSources ==
  ASSUME NEW d, IsImage(d), NEW i \in DOMAIN d.audit
  PROVE  d.audit[i].fields.request_hash.sources \subseteq Sources
<1>1. d.audit[i] \in Rows
  BY AuditLength
<1>2. PICK req \in Requests, code \in Codes : d.audit[i].fields = Fields(req, code)
  BY <1>1 DEF Rows, AllFields
<1>3. Fields(req, code).request_hash.sources = SourcesOf(req.manifest)
  BY DEF Fields
<1> QED
  BY <1>2, <1>3, ManifestSources

LEMMA TierRange ==
  ASSUME NEW d, IsImage(d), NEW s \in Sources
  PROVE  d.tier[s] \in TrustTier
BY DEF IsImage

LEMMA FloorIsTheTools ==
  ASSUME NamedTools, NEW req \in Requests
  PROVE  FloorOf(req.tool.name) = req.tool.risk_floor
BY DEF NamedTools, FloorOf

LEMMA RisesReflexive ==
  ASSUME NEW a, IsImage(a)
  PROVE  Rises(a, a)
<1>1. \A n \in TrustTier : n <= n
  BY DEF TrustTier
<1> QED
  BY <1>1, TierRange DEF Rises

LEMMA RisesTransitive ==
  ASSUME NEW a, IsImage(a), NEW b, IsImage(b), NEW c, IsImage(c), Rises(a, b), Rises(b, c)
  PROVE  Rises(a, c)
<1>1. \A k, m, n \in TrustTier : k <= m /\ m <= n => k <= n
  BY DEF TrustTier
<1> QED
  BY <1>1, TierRange DEF Rises

(* What a call has established outlives a rise of the tiers.                 *)
LEMMA KeptRises ==
  ASSUME NEW a, IsImage(a), NEW b, IsImage(b), Rises(a, b),
         NEW step, NEW f \in Frames, step # "idle" => f.req \in Requests,
         Kept(step, f, a)
  PROVE  Kept(step, f, b)
<1> SUFFICES ASSUME step # "idle", NEW s \in SourcesOf(f.req.manifest), f.tier <= a.tier[s]
             PROVE  f.tier <= b.tier[s]
  BY DEF Kept
<1>1. s \in Sources
  BY ManifestSources
<1>2. f.tier \in TrustTier /\ a.tier[s] \in TrustTier /\ b.tier[s] \in TrustTier
  BY <1>1, TierRange DEF Frames
<1>3. a.tier[s] <= b.tier[s]
  BY <1>1 DEF Rises
<1> QED
  BY <1>2, <1>3 DEF TrustTier

(* A write that changes neither a tier nor the audit.                        *)
LEMMA SameVouched ==
  ASSUME NEW a, IsImage(a), NEW b, b.tier = a.tier, b.audit = a.audit, Vouched(a)
  PROVE  Rises(a, b) /\ Vouched(b)
<1>1. Rises(a, b)
  BY RisesReflexive DEF Rises
<1> QED
  BY <1>1 DEF Vouched, Lifted, Covers

(* A vouch lifts, for the tier it gives is the only one the source can have. *)
LEMMA VouchLifts ==
  ASSUME OnlyLifts, NamedTools, NEW a, IsImage(a), Vouched(a), NEW v \in Vouches
  PROVE  LET b == WithTier(a, v[1], v[2]) IN
         Rises(a, b) /\ Vouched(b)
<1> DEFINE b == WithTier(a, v[1], v[2])
<1>1. v[1] \in Sources /\ v[2] \in TrustTier /\ v = <<v[1], v[2]>>
  BY StoreAssumption
<1>2. /\ b.audit = a.audit
      /\ \A s \in Sources : b.tier[s] = IF s = v[1] THEN v[2] ELSE a.tier[s]
  BY <1>1 DEF WithTier, IsImage
<1>3. IsImage(b)
  BY <1>1, ImageWithTier
<1> HIDE DEF b
<1>4. a.tier[v[1]] = UNATTESTED \/ a.tier[v[1]] = v[2]
  <2>1. CASE <<v[1], a.tier[v[1]]>> \in Vouches
    BY <1>1, <2>1 DEF OnlyLifts
  <2> QED
    BY <1>1, <2>1 DEF Vouched, Lifted
<1>5. Rises(a, b)
  <2>1. UNATTESTED <= v[2] /\ v[2] <= v[2]
    BY <1>1 DEF TrustTier, UNATTESTED
  <2>2. ASSUME NEW s \in Sources PROVE a.tier[s] <= b.tier[s]
    <3>1. CASE s = v[1]
      BY <1>2, <1>4, <2>1, <3>1
    <3>2. CASE s # v[1]
      BY <1>2, <3>2, RisesReflexive DEF Rises
    <3> QED
      BY <3>1, <3>2
  <2> QED
    BY <2>2 DEF Rises
<1>6. Lifted(b)
  BY <1>1, <1>2 DEF Vouched, Lifted
<1>7. ASSUME NEW i \in DOMAIN b.audit PROVE Covers(b, b.audit[i].fields)
  <2> DEFINE fields == a.audit[i].fields
  <2>1. i \in DOMAIN a.audit /\ b.audit[i].fields = fields /\ Covers(a, fields)
    BY <1>2, <1>7 DEF Vouched
  <2> SUFFICES ASSUME fields.code = "ALLOW", NEW s \in fields.request_hash.sources
               PROVE  b.tier[s] >= FloorOf(fields.tool)
    BY <2>1 DEF Covers
  <2>2. s \in Sources
    BY <2>1, RowSources
  <2>3. FloorOf(fields.tool) \in TrustTier
    <3>1. fields \in AllFields
      <4>1. a.audit[i] \in Rows
        BY <2>1, AuditLength
      <4> QED
        BY <4>1 DEF Rows
    <3>2. PICK req \in Requests, code \in Codes : fields = Fields(req, code)
      BY <3>1 DEF AllFields
    <3>3. fields.tool = req.tool.name
      BY <3>2 DEF Fields
    <3> QED
      BY <3>3, FloorIsTheTools DEF NamedTools
  <2>4. a.tier[s] >= FloorOf(fields.tool)
    BY <2>1 DEF Covers
  <2>5. a.tier[s] <= b.tier[s] /\ a.tier[s] \in TrustTier /\ b.tier[s] \in TrustTier
    BY <1>3, <1>5, <2>2, TierRange DEF Rises
  <2> QED
    BY <2>3, <2>4, <2>5 DEF TrustTier
<1> QED
  BY <1>5, <1>6, <1>7 DEF Vouched, b

(* The row of a call that has kept its word. *)
LEMMA RowVouched ==
  ASSUME NamedTools, NEW a, IsImage(a), Vouched(a), NEW f \in Frames,
         f.req \in Requests, f.code \in Codes, Kept("record", f, a)
  PROVE  LET b == WithRow(a, Row(Fields(f.req, f.code), f.prev)) IN
         Rises(a, b) /\ Vouched(b)
<1> DEFINE fields == Fields(f.req, f.code)
           row    == Row(fields, f.prev)
           b      == WithRow(a, row)
           n      == Len(a.audit)
<1>1. row.fields = fields
  BY DEF Row
<1>2. row \in Rows
  <2>1. fields \in AllFields
    BY DEF AllFields
  <2>2. f.prev \in Hashes
    BY DEF Frames
  <2> QED
    BY <2>1, <2>2, RowType
<1>3. /\ fields.code = f.code /\ fields.tool = f.req.tool.name
      /\ fields.request_hash.sources = SourcesOf(f.req.manifest)
  BY DEF Fields
<1> HIDE DEF fields, row
<1>4. b.audit = Append(a.audit, row) /\ b.tier = a.tier
  BY DEF WithRow, IsImage
<1>5. a.audit \in Seq(Rows) /\ n \in Nat /\ DOMAIN a.audit = 1..n
  BY AuditLength
<1> HIDE DEF b
<1>6. /\ DOMAIN b.audit = 1..(n + 1)
      /\ b.audit[n + 1] = row /\ \A i \in 1..n : b.audit[i] = a.audit[i]
  BY <1>2, <1>4, <1>5
<1>7. Rises(a, b)
  BY <1>4, RisesReflexive DEF Rises
<1>8. Covers(b, fields)
  <2> SUFFICES ASSUME f.code = "ALLOW", NEW s \in SourcesOf(f.req.manifest)
               PROVE  b.tier[s] >= FloorOf(f.req.tool.name)
    BY <1>3 DEF Covers
  <2>1. f.left = <<>> /\ (s \in SourcesOf(f.left) \/ f.tier <= a.tier[s])
    BY DEF Kept
  <2>2. SourcesOf(<<>>) = {}
    BY DEF SourcesOf
  <2>3. f.tier <= a.tier[s]
    BY <2>1, <2>2
  <2>4. f.tier >= f.req.tool.risk_floor
    BY DEF Kept, MeetsFloor
  <2>5. f.tier \in TrustTier /\ f.req.tool.risk_floor \in TrustTier /\ a.tier[s] \in TrustTier
    BY ManifestSources, TierRange DEF Frames, NamedTools
  <2>6. a.tier[s] >= f.req.tool.risk_floor
    BY <2>3, <2>4, <2>5 DEF TrustTier
  <2> QED
    BY <1>4, <2>6, FloorIsTheTools
<1>9. ASSUME NEW i \in DOMAIN b.audit PROVE Covers(b, b.audit[i].fields)
  <2>1. CASE i \in 1..n
    BY <1>4, <1>5, <1>6, <2>1 DEF Vouched, Covers
  <2>2. CASE i = n + 1
    BY <1>1, <1>6, <1>8, <2>2
  <2> QED
    BY <1>5, <1>6, <2>1, <2>2
<1> QED
  BY <1>4, <1>7, <1>9 DEF Vouched, Lifted, b, row, fields

-----------------------------------------------------------------------------
(* What the steps of Sqlite do to the contents *)

LEMMA VouchImage ==
  ASSUME LogInv, VouchInv, NEW p \in Procs
  PROVE  /\ IsImage(Image(p)) /\ IsImage(db) /\ IsImage(tx)
         /\ Vouched(Image(p)) /\ Rises(db, Image(p))
BY LogImage, RisesReflexive DEF VouchInv, Image

LEMMA SameContents ==
  ASSUME LogInv, VouchInv, NEW p \in Procs, UNCHANGED <<db, tx>>,
         \A q \in Procs : Writer(q)' = Writer(q)
  PROVE  StillVouched(p) /\ Image(p)' = Image(p)
<1>1. \A q \in Procs : Image(q)' = Image(q)
  BY DEF Image
<1> QED
  BY <1>1, LogImage, RisesReflexive DEF VouchInv, StillVouched

LEMMA ReadContents ==
  ASSUME LogInv, VouchInv, NEW p \in Procs, Read(p)
  PROVE  StillVouched(p) /\ Image(p)' = Image(p)
<1>1. \A q \in Procs : Writer(q)' = Writer(q)
  BY DEF LogInv, TypeOK, Read, Writer
<1> QED
  BY <1>1, SameContents DEF Read

(* A write, whether it is committed, stays in the transaction or is refused. *)
LEMMA WriteContents ==
  ASSUME LogInv, VouchInv, NEW p \in Procs, NEW new, IsImage(new), NEW ok,
         Rises(Image(p), new), Vouched(new),
         Commit(p, new) \/ Raises(p, new, ok)
  PROVE  StillVouched(p)
<1>1. /\ conn \in [Procs -> Modes] /\ Vouched(db) /\ Vouched(tx) /\ Rises(db, tx)
  BY DEF LogInv, TypeOK, VouchInv
<1>2. /\ IsImage(db) /\ IsImage(tx) /\ IsImage(Image(p))
      /\ Vouched(Image(p)) /\ Rises(db, Image(p))
  BY VouchImage
<1>3. Rises(db, new)
  BY <1>2, RisesTransitive
<1>4. CASE WriteBusy(p)
  <2>1. UNCHANGED <<db, tx>> /\ \A q \in Procs : Writer(q)' = Writer(q)
    BY <1>1, <1>4 DEF WriteBusy, Writer
  <2> QED
    BY <2>1, SameContents
<1>5. ASSUME CanWrite(p), tx' = new \/ tx' = Image(p), db' = db \/ (db' = new /\ tx' = new),
             \A q \in Procs \ {p} : conn'[q] = conn[q]
      PROVE  StillVouched(p)
  <2>1. ASSUME NEW q \in Procs \ {p} PROVE Image(q) = db /\ Image(q)' = db'
    BY <1>5, <2>1 DEF CanWrite, NoneElse, Writer, Image
  <2>2. Vouched(db') /\ Vouched(tx')
    BY <1>1, <1>2, <1>5
  <2>3. Rises(db', tx') /\ Rises(db, db')
    BY <1>2, <1>3, <1>5, RisesReflexive
  <2> QED
    BY <2>1, <2>2, <2>3 DEF StillVouched
<1>6. CASE Commit(p, new)
  BY <1>1, <1>5, <1>6 DEF Commit
<1>7. CASE CommitBusy(p, new)
  BY <1>1, <1>5, <1>7 DEF CommitBusy
<1>8. CASE ConstraintFails(p)
  <2>1. CanWrite(p) /\ tx' = Image(p) /\ db' = db
    BY <1>8 DEF ConstraintFails
  <2>2. \A q \in Procs \ {p} : conn'[q] = conn[q]
    BY <1>1, <1>8 DEF ConstraintFails
  <2> QED
    BY <1>5, <2>1, <2>2
<1> QED
  BY <1>4, <1>6, <1>7, <1>8 DEF Raises

(* A rollback takes back what no other process has seen.                     *)
LEMMA CloseContents ==
  ASSUME LogInv, VouchInv, NEW p \in Procs, Close(p)
  PROVE  StillVouched(p)
<1>1. /\ conn \in [Procs -> Modes] /\ OneWriter /\ IsImage(db) /\ IsImage(tx)
      /\ Vouched(db) /\ Vouched(tx) /\ Rises(db, tx)
  BY DEF LogInv, TypeOK, VouchInv
<1>2. db' = db /\ (tx' = tx \/ tx' = db)
  BY DEF Close
<1>3. ASSUME NEW q \in Procs \ {p} PROVE Image(q)' = Image(q)
  <2>1. Writer(q)' = Writer(q)
    BY <1>1 DEF Close, Writer
  <2> QED
    BY <1>1, <2>1 DEF Close, Image, OneWriter
<1>4. Rises(db, db)
  BY <1>1, RisesReflexive
<1>5. \A q \in Procs : Rises(Image(q), Image(q))
  BY LogImage, RisesReflexive
<1> QED
  BY <1>1, <1>2, <1>3, <1>4, <1>5 DEF StillVouched

-----------------------------------------------------------------------------
(* Each step keeps the invariant *)

(* p moves to a statement with what it then needs; the others keep theirs.   *)
LEMMA MovesVouched ==
  ASSUME LogInv, TypeOK', VouchInv, NEW p \in Procs, StillVouched(p),
         NEW step, NEW f, Goto(p, step), frame' = [frame EXCEPT ![p] = f],
         Kept(step, f, Image(p)')
  PROVE  VouchInv'
<1>1. TypeOK /\ pc \in [Procs -> Steps \cup {"idle"}] /\ frame \in [Procs -> Frames]
  BY DEF LogInv, TypeOK
<1>2. ASSUME NEW q \in Procs, q # p PROVE Kept(pc'[q], frame'[q], Image(q)')
  <2>1. pc'[q] = pc[q] /\ frame'[q] = frame[q]
    BY <1>1, <1>2 DEF Goto
  <2>2. IsImage(Image(q)) /\ IsImage(Image(q)')
    BY <1>1, ImageType DEF TypeOK, Image, IsImage
  <2>3. Rises(Image(q), Image(q)') /\ Kept(pc[q], frame[q], Image(q))
    BY <1>2 DEF StillVouched, VouchInv
  <2>4. frame[q] \in Frames /\ (pc[q] # "idle" => frame[q].req \in Requests)
    BY <1>1 DEF TypeOK, FrameOK
  <2> QED
    BY <2>1, <2>2, <2>3, <2>4, KeptRises
<1>3. Kept(pc'[p], frame'[p], Image(p)')
  BY <1>1 DEF Goto
<1>4. \A q \in Procs : Kept(pc[q], frame[q], Image(q))'
  BY <1>2, <1>3 DEF Kept
<1>5. Vouched(db)' /\ Vouched(tx)' /\ Rises(db, tx)'
  BY DEF StillVouched, Vouched, Lifted, Covers, Rises
<1> QED
  BY <1>4, <1>5 DEF VouchInv

LEMMA LeaveVouched ==
  ASSUME LogInv, TypeOK', VouchInv, NEW p \in Procs, StillVouched(p), Leave(p)
  PROVE  VouchInv'
<1>1. Goto(p, "idle") /\ frame' = [frame EXCEPT ![p] = EmptyFrame]
  BY DEF Leave
<1>2. Kept("idle", EmptyFrame, Image(p)')
  BY DEF Kept
<1> QED
  BY <1>1, <1>2, MovesVouched

LEMMA VouchInit == Init => VouchInv
<1> SUFFICES ASSUME Init PROVE VouchInv
  OBVIOUS
<1>1. TypeOK /\ IsImage(db) /\ tx = db /\ db.audit = <<>>
      /\ \A s \in Sources : db.tier[s] = UNATTESTED
  BY InitType DEF Init, TypeOK
<1>2. Vouched(db)
  BY <1>1 DEF Vouched, Lifted
<1>3. Rises(db, tx)
  BY <1>1, RisesReflexive
<1>4. \A p \in Procs : Kept(pc[p], frame[p], Image(p))
  BY DEF Init, Kept
<1> QED
  BY <1>1, <1>2, <1>3, <1>4 DEF VouchInv

LEMMA CallKeepsVouched ==
  ASSUME LogInv, TypeOK', VouchInv, NEW p \in Procs, NEW req \in Requests, Call(p, req)
  PROVE  VouchInv'
<1> DEFINE step == IF req.manifest = <<>> THEN "screen" ELSE "resolve"
           f    == FirstFrame(req)
<1>1. UNCHANGED <<db, tx, conn>> /\ Goto(p, step) /\ frame' = [frame EXCEPT ![p] = f]
  BY DEF Call
<1>2. StillVouched(p)
  BY <1>1, SameContents DEF Writer
<1>3. f.req = req /\ f.left = req.manifest
  BY DEF FirstFrame
<1> HIDE DEF f
<1>4. Kept(step, f, Image(p)')
  BY <1>3 DEF Kept
<1> HIDE DEF step
<1> QED
  BY <1>1, <1>2, <1>4, MovesVouched

(* The tier of the next source: the call's tier falls to it, or was no       *)
(* higher.                                                                   *)
LEMMA ResolveKeepsVouched ==
  ASSUME LogInv, TypeOK', VouchInv, NEW p \in Procs, ResolveSource(p)
  PROVE  VouchInv'
<1> DEFINE left  == frame[p].left
           found == Image(p).tier[Head(left).source_id]
           rest  == Tail(left)
           f     == [frame[p] EXCEPT !.tier = WeakestSoFar(@, found), !.left = rest]
           step  == IF rest = <<>> THEN "screen" ELSE "resolve"
<1>1. TypeOK /\ frame[p] \in Frames /\ left # <<>> /\ frame[p].req \in Requests
  BY DEF LogInv, TypeOK, ResolveSource, FrameOK
<1>2. Goto(p, step) /\ frame' = [frame EXCEPT ![p] = f] /\ Read(p)
  BY <1>1 DEF ResolveSource, TypeOK
<1>3. StillVouched(p) /\ Image(p)' = Image(p)
  BY <1>2, ReadContents
<1>4. left \in Seq([source_id : Sources, tier : TrustTier]) /\ frame[p].tier \in TrustTier
  BY <1>1 DEF Frames
<1>5. Head(left) = left[1] /\ Head(left).source_id \in Sources
      /\ \A i \in DOMAIN left : i = 1 \/ (i - 1 \in DOMAIN rest /\ rest[i - 1] = left[i])
  <2>1. ASSUME NEW S, NEW l \in Seq(S), l # <<>>
        PROVE  /\ Head(l) = l[1] /\ Head(l) \in S
               /\ \A i \in DOMAIN l : i = 1 \/ (i - 1 \in DOMAIN Tail(l) /\ Tail(l)[i - 1] = l[i])
    BY <2>1
  <2>2. Head(left) \in [source_id : Sources, tier : TrustTier]
    BY <1>1, <1>4, <2>1
  <2> QED
    BY <1>1, <1>4, <2>1, <2>2
<1>6. found \in TrustTier
  BY <1>5, LogImage, TierRange
<1>7. f.req = frame[p].req /\ f.left = rest /\ f.tier = Least(frame[p].tier, found)
  BY <1>1 DEF Frames, WeakestSoFar
<1>8. \A s \in SourcesOf(left) : s = Head(left).source_id \/ s \in SourcesOf(rest)
  BY <1>5 DEF SourcesOf
<1> HIDE DEF left, found, rest, f
<1>9. Least(frame[p].tier, found) <= found /\ Least(frame[p].tier, found) <= frame[p].tier
      /\ Least(frame[p].tier, found) \in TrustTier
  BY <1>4, <1>6 DEF Least, TrustTier
<1>10. ASSUME NEW s \in SourcesOf(f.req.manifest), s \notin SourcesOf(rest)
       PROVE  f.tier <= Image(p).tier[s]
  <2>1. CASE s = Head(left).source_id
    BY <1>7, <1>9, <2>1 DEF found
  <2>2. CASE s # Head(left).source_id
    <3>1. s \notin SourcesOf(left)
      BY <1>8, <1>10, <2>2
    <3>2. pc[p] # "idle" /\ Kept(pc[p], frame[p], Image(p))
      BY DEF VouchInv, ResolveSource
    <3>3. frame[p].tier <= Image(p).tier[s]
      BY <1>7, <1>10, <3>1, <3>2 DEF Kept, left
    <3>4. s \in Sources
      BY <1>1, <1>7, <1>10, ManifestSources
    <3>5. Image(p).tier[s] \in TrustTier
      BY <3>4, LogImage, TierRange
    <3> QED
      BY <1>4, <1>7, <1>9, <3>3, <3>5 DEF TrustTier
  <2> QED
    BY <2>1, <2>2
<1>11. Kept(step, f, Image(p))
  BY <1>7, <1>10 DEF Kept
<1> HIDE DEF step
<1> QED
  BY <1>2, <1>3, <1>11, MovesVouched

LEMMA ScreenedMeetsFloor ==
  ASSUME NEW req, NEW claims, NEW actual, Screen(req, claims, actual) = "ALLOW"
  PROVE  MeetsFloor(req, actual)
BY DEF Screen

LEMMA CheckKeepsVouched ==
  ASSUME LogInv, TypeOK', VouchInv, NEW p \in Procs, Check(p)
  PROVE  VouchInv'
<1> DEFINE code == Screen(frame[p].req, Claims[frame[p].req], frame[p].tier)
           f    == [frame[p] EXCEPT !.code = code]
           step == IF code = "ALLOW" THEN "budget" ELSE "emit"
<1>1. pc[p] = "screen" /\ frame[p] \in Frames /\ Kept(pc[p], frame[p], Image(p))
  BY DEF LogInv, TypeOK, Check, VouchInv
<1>2. UNCHANGED <<db, tx, conn>> /\ Goto(p, step) /\ frame' = [frame EXCEPT ![p] = f]
  BY DEF Check, LogInv, TypeOK
<1>3. StillVouched(p) /\ Image(p)' = Image(p)
  BY <1>2, SameContents DEF Writer
<1>4. f.req = frame[p].req /\ f.left = frame[p].left /\ f.tier = frame[p].tier /\ f.code = code
  <2> HIDE DEF code
  <2> QED
    BY <1>1 DEF Frames
<1>5. code = "ALLOW" => MeetsFloor(f.req, f.tier)
  <2> HIDE DEF f
  <2> QED
    BY <1>4, ScreenedMeetsFloor
<1> HIDE DEF code, f
<1>6. Kept(step, f, Image(p))
  BY <1>1, <1>4, <1>5 DEF Kept
<1> HIDE DEF step
<1> QED
  BY <1>2, <1>3, <1>6, MovesVouched

LEMMA ReadSpentKeepsVouched ==
  ASSUME LogInv, TypeOK', VouchInv, NEW p \in Procs, ReadSpent(p)
  PROVE  VouchInv'
<1> DEFINE already == Image(p).spent[RootOf(frame[p].req)]
<1>1. /\ pc[p] = "budget" /\ frame[p] \in Frames /\ frame \in [Procs -> Frames]
      /\ Kept(pc[p], frame[p], Image(p)) /\ Read(p)
  BY DEF LogInv, TypeOK, ReadSpent, VouchInv
<1>2. StillVouched(p) /\ Image(p)' = Image(p)
  BY <1>1, ReadContents
<1>3. CASE Goto(p, "charge") /\ UNCHANGED frame
  <2>1. frame' = [frame EXCEPT ![p] = frame[p]]
    BY <1>1, <1>3
  <2>2. Kept("charge", frame[p], Image(p))
    BY <1>1 DEF Kept
  <2> QED
    BY <1>2, <1>3, <2>1, <2>2, MovesVouched
<1>4. CASE /\ frame' = [frame EXCEPT ![p].code = "BUDGET", ![p].quoted = already]
           /\ Goto(p, "emit")
  <2> DEFINE f == [frame[p] EXCEPT !.code = "BUDGET", !.quoted = already]
  <2>1. frame' = [frame EXCEPT ![p] = f]
    BY <1>1, <1>4
  <2>2. /\ f.req = frame[p].req /\ f.left = frame[p].left
        /\ f.tier = frame[p].tier /\ f.code = "BUDGET"
    <3> HIDE DEF already
    <3> QED
      BY <1>1 DEF Frames
  <2> HIDE DEF f
  <2>3. Kept("emit", f, Image(p))
    BY <1>1, <2>2 DEF Kept
  <2> QED
    BY <1>2, <1>4, <2>1, <2>3, MovesVouched
<1> QED
  BY <1>3, <1>4 DEF ReadSpent

(* The charge, or the incident of a refusal.                                 *)
LEMMA CommitKeepsVouched ==
  ASSUME LogInv, TypeOK', VouchInv, NEW p \in Procs, NEW new, IsImage(new), NEW ok,
         new.tier = Image(p).tier, new.audit = Image(p).audit,
         pc[p] \in {"charge", "emit"},
         \/ Commit(p, new) /\ Goto(p, "last_hash") /\ UNCHANGED frame
         \/ Raises(p, new, ok) /\ Leave(p)
  PROVE  VouchInv'
<1>1. Rises(Image(p), new) /\ Vouched(new)
  BY VouchImage, SameVouched
<1>2. StillVouched(p)
  BY <1>1, WriteContents
<1>3. CASE Commit(p, new) /\ Goto(p, "last_hash") /\ UNCHANGED frame
  <2>1. conn \in [Procs -> Modes] /\ frame \in [Procs -> Frames]
    BY DEF LogInv, TypeOK
  <2>2. Image(p)' = new /\ frame' = [frame EXCEPT ![p] = frame[p]]
    BY <1>3, <2>1 DEF Commit, Image, Writer
  <2>3. Kept(pc[p], frame[p], Image(p))
    BY DEF VouchInv
  <2>4. Kept("last_hash", frame[p], new)
    BY <2>3 DEF Kept
  <2> QED
    BY <1>2, <1>3, <2>2, <2>4, MovesVouched
<1> QED
  BY <1>2, <1>3, LeaveVouched

LEMMA ChargeKeepsVouched ==
  ASSUME LogInv, TypeOK', VouchInv, NEW p \in Procs, Charge(p)
  PROVE  VouchInv'
<1> DEFINE new == Charged(Image(p), RootOf(frame[p].req), frame[p].req.tool.est_cost)
           ok  == ForeignKey(Image(p), RootOf(frame[p].req))
<1>1. TypeOK /\ pc[p] = "charge"
  BY DEF LogInv, Charge
<1>2. IsImage(new)
  BY <1>1, PassedHasRoot, ImageType, ImageCharged
<1>3. new.tier = Image(p).tier /\ new.audit = Image(p).audit
  BY LogImage DEF Charged, IsImage
<1>4. \/ Commit(p, new) /\ Goto(p, "last_hash") /\ UNCHANGED frame
      \/ Raises(p, new, ok) /\ Leave(p)
  BY DEF Charge
<1> HIDE DEF new, ok
<1> QED
  BY <1>1, <1>2, <1>3, <1>4, CommitKeepsVouched

LEMMA EmitIncidentKeepsVouched ==
  ASSUME LogInv, TypeOK', VouchInv, NEW p \in Procs, EmitIncident(p)
  PROVE  VouchInv'
<1> DEFINE f   == frame[p]
           new == WithIncident(Image(p), TriagePacket(f.code, f.req, f.tier, f.quoted))
           ok  == ForeignKey(Image(p), RootOf(f.req))
<1>1. pc[p] = "emit"
  BY DEF EmitIncident
<1>2. IsImage(new)
  BY LogImage, ImageWithIncident
<1>3. new.tier = Image(p).tier /\ new.audit = Image(p).audit
  BY LogImage DEF WithIncident, IsImage
<1>4. \/ Commit(p, new) /\ Goto(p, "last_hash") /\ UNCHANGED frame
      \/ Raises(p, new, ok) /\ Leave(p)
  BY DEF EmitIncident
<1> HIDE DEF new, ok
<1> QED
  BY <1>1, <1>2, <1>3, <1>4, CommitKeepsVouched

LEMMA ReadLastHashKeepsVouched ==
  ASSUME LogInv, TypeOK', VouchInv, NEW p \in Procs, ReadLastHash(p)
  PROVE  VouchInv'
<1> DEFINE f == [frame[p] EXCEPT !.prev = NewestHash(Image(p))]
<1>1. /\ pc[p] = "last_hash" /\ frame[p] \in Frames /\ frame \in [Procs -> Frames]
      /\ Kept(pc[p], frame[p], Image(p)) /\ Read(p)
  BY DEF LogInv, TypeOK, ReadLastHash, VouchInv
<1>2. StillVouched(p) /\ Image(p)' = Image(p)
  BY <1>1, ReadContents
<1>3. Goto(p, "record") /\ frame' = [frame EXCEPT ![p] = f]
  BY <1>1 DEF ReadLastHash
<1>4. /\ f.req = frame[p].req /\ f.left = frame[p].left
      /\ f.tier = frame[p].tier /\ f.code = frame[p].code
  BY <1>1 DEF Frames
<1> HIDE DEF f
<1>5. Kept("record", f, Image(p))
  BY <1>1, <1>4 DEF Kept
<1> QED
  BY <1>2, <1>3, <1>5, MovesVouched

LEMMA RecordKeepsVouched ==
  ASSUME NamedTools, LogInv, TypeOK', VouchInv, NEW p \in Procs, Record(p)
  PROVE  VouchInv'
<1> DEFINE f   == frame[p]
           new == WithRow(Image(p), Row(Fields(f.req, f.code), f.prev))
<1>1. /\ pc[p] = "record" /\ f \in Frames /\ f.req \in Requests /\ f.code \in Codes
      /\ Kept("record", f, Image(p))
  BY DEF LogInv, TypeOK, FrameOK, Record, Return, RecordRaises, Recorded, VouchInv
<1>2. Leave(p) /\ (Commit(p, new) \/ Raises(p, new, TRUE))
  BY DEF Record, Return, RecordRaises, Recorded
<1>3. Rises(Image(p), new) /\ Vouched(new)
  BY <1>1, VouchImage, RowVouched
<1>4. IsImage(new)
  <2>1. Fields(f.req, f.code) \in AllFields
    BY <1>1 DEF AllFields
  <2>2. f.prev \in Hashes
    BY <1>1 DEF Frames
  <2>3. Row(Fields(f.req, f.code), f.prev) \in Rows
    BY <2>1, <2>2, RowType
  <2> QED
    BY <2>3, LogImage, ImageWithRow
<1> HIDE DEF new
<1> QED
  BY <1>2, <1>3, <1>4, WriteContents, LeaveVouched

(* A registration or a vouch. *)
LEMMA AdministerKeepsVouched ==
  ASSUME LogInv, TypeOK', VouchInv, NEW p \in Procs, NEW new, IsImage(new), Administer(p, new),
         Rises(Image(p), new), Vouched(new)
  PROVE  VouchInv'
<1>1. /\ pc[p] = "idle" /\ UNCHANGED <<pc, frame>>
      /\ pc \in [Procs -> Steps \cup {"idle"}] /\ frame \in [Procs -> Frames]
  BY DEF Administer, LogInv, TypeOK
<1>2. StillVouched(p)
  BY WriteContents DEF Administer
<1>3. Goto(p, "idle") /\ frame' = [frame EXCEPT ![p] = frame[p]]
  BY <1>1 DEF Goto
<1>4. Kept("idle", frame[p], Image(p)')
  BY DEF Kept
<1> QED
  BY <1>2, <1>3, <1>4, MovesVouched

LEMMA ReadRaisesKeepsVouched ==
  ASSUME LogInv, TypeOK', VouchInv, NEW p \in Procs, ReadRaises(p)
  PROVE  VouchInv'
<1>1. UNCHANGED <<db, tx, conn>> /\ Leave(p)
  BY DEF ReadRaises, ReadBusy
<1> QED
  BY <1>1, SameContents, LeaveVouched DEF Writer

LEMMA CrashKeepsVouched ==
  ASSUME LogInv, TypeOK', VouchInv, NEW p \in Procs, Crash(p)
  PROVE  VouchInv'
<1>1. Close(p) /\ Goto(p, "idle") /\ frame' = [frame EXCEPT ![p] = EmptyFrame]
  BY DEF Crash
<1>2. Kept("idle", EmptyFrame, Image(p)')
  BY DEF Kept
<1> QED
  BY <1>1, <1>2, CloseContents, MovesVouched

LEMMA VouchStep ==
  ASSUME OnlyLifts, NamedTools
  PROVE  LogInv /\ VouchInv /\ [Next]_vars => VouchInv'
<1> SUFFICES ASSUME LogInv, VouchInv, [Next]_vars PROVE VouchInv'
  OBVIOUS
<1>1. TypeOK'
  BY StepType DEF LogInv
<1>2. CASE UNCHANGED vars
  BY <1>2 DEF vars, VouchInv, Vouched, Lifted, Covers, Rises, Kept, Image, Writer
<1>3. ASSUME NEW p \in Procs, Authorizing(p) PROVE VouchInv'
  BY <1>1, <1>3, ResolveKeepsVouched, CheckKeepsVouched, ReadSpentKeepsVouched,
     ChargeKeepsVouched, EmitIncidentKeepsVouched, ReadLastHashKeepsVouched,
     RecordKeepsVouched, ReadRaisesKeepsVouched DEF Authorizing, Proceeding, Record
<1>4. ASSUME NEW p \in Procs, NEW ident \in Mints, RegisterPrincipal(p, ident) PROVE VouchInv'
  <2> DEFINE new == WithPrincipal(Image(p), ident)
  <2>1. IsImage(new) /\ new.tier = Image(p).tier /\ new.audit = Image(p).audit
    BY LogImage, ImageWithPrincipal DEF WithPrincipal, IsImage
  <2> HIDE DEF new
  <2>2. Rises(Image(p), new) /\ Vouched(new)
    BY <2>1, VouchImage, SameVouched
  <2> QED
    BY <1>1, <1>4, <2>1, <2>2, AdministerKeepsVouched DEF RegisterPrincipal, new
<1>5. ASSUME NEW p \in Procs, NEW v \in Vouches, Vouch(p, v[1], v[2]) PROVE VouchInv'
  <2> DEFINE new == WithTier(Image(p), v[1], v[2])
  <2>1. v[1] \in Sources /\ v[2] \in TrustTier
    BY StoreAssumption
  <2>2. IsImage(new)
    BY <2>1, LogImage, ImageWithTier
  <2>3. Rises(Image(p), new) /\ Vouched(new)
    BY VouchImage, VouchLifts
  <2> QED
    BY <1>1, <1>5, <2>2, <2>3, AdministerKeepsVouched DEF Vouch
<1> QED
  BY <1>1, <1>2, <1>3, <1>4, <1>5, CallKeepsVouched, CrashKeepsVouched DEF Next

LEMMA VouchInvSays == VouchInv => AllowedOnVouchedData
BY DEF VouchInv, Vouched, Covers, AllowedOnVouchedData

(* Every audited ALLOW stands on sources that meet the floor of its tool,    *)
(* from the commit of its row on: for any number of processes, although the  *)
(* tiers were read one statement at a time, some of them perhaps from a      *)
(* transaction that was still open.                                          *)
THEOREM AllowedOnVouched ==
  ASSUME OnlyLifts, NamedTools
  PROVE  Spec => []AllowedOnVouchedData
<1>1. Init => LogInv /\ VouchInv
  BY LogInit, VouchInit
<1>2. LogInv /\ VouchInv /\ [Next]_vars => LogInv' /\ VouchInv'
  BY LogStep, VouchStep
<1> QED
  BY <1>1, <1>2, VouchInvSays, PTL DEF Spec

-----------------------------------------------------------------------------
(* One process: the fold of the tiers                                         *)

Citation == [source_id : Sources, tier : TrustTier]

(* t is the fold of the tiers over what is not left of the manifest.         *)
Folded(manifest, left, t, tierOf) ==
  LET done == Len(manifest) - Len(left) IN
  /\ done \in Nat
  /\ \A i \in 1..Len(left) : left[i] = manifest[done + i]
  /\ \A i \in 1..done : t <= tierOf[manifest[i].source_id]
  /\ IF done = 0 THEN t = HUMAN_VOUCHED
     ELSE \E i \in 1..done : t = tierOf[manifest[i].source_id]

LEMMA FoldStarts ==
  ASSUME NEW manifest \in Seq(Citation), NEW tierOf \in [Sources -> TrustTier]
  PROVE  Folded(manifest, manifest, HUMAN_VOUCHED, tierOf)
<1>1. Len(manifest) \in Nat /\ Len(manifest) - Len(manifest) = 0
  OBVIOUS
<1> QED
  BY <1>1 DEF Folded

LEMMA FoldGoesOn ==
  ASSUME NEW manifest \in Seq(Citation), NEW tierOf \in [Sources -> TrustTier],
         NEW left \in Seq(Citation), left # <<>>, NEW t \in TrustTier,
         Folded(manifest, left, t, tierOf)
  PROVE  Folded(manifest, Tail(left), WeakestSoFar(t, tierOf[Head(left).source_id]), tierOf)
<1> DEFINE done  == Len(manifest) - Len(left)
           found == tierOf[Head(left).source_id]
           least == WeakestSoFar(t, found)
<1>1. Len(manifest) \in Nat /\ Len(left) \in Nat /\ Len(left) # 0
  BY EmptySeq
<1>2. /\ Head(left) = left[1] /\ Tail(left) \in Seq(Citation)
      /\ Len(Tail(left)) = Len(left) - 1
      /\ \A i \in 1..(Len(left) - 1) : Tail(left)[i] = left[i + 1]
  BY <1>1
<1>3. /\ done \in Nat
      /\ \A i \in 1..Len(left) : left[i] = manifest[done + i]
      /\ \A i \in 1..done : t <= tierOf[manifest[i].source_id]
      /\ done # 0 => \E i \in 1..done : t = tierOf[manifest[i].source_id]
      /\ done = 0 => t = HUMAN_VOUCHED
  BY DEF Folded
<1>0. done = Len(manifest) - Len(left)
  OBVIOUS
<1> HIDE DEF done
<1>4. Len(manifest) - Len(Tail(left)) = done + 1 /\ done + 1 \in Nat /\ done + 1 # 0
  <2>1. PICK m \in Nat : m = Len(manifest)
    BY <1>1
  <2>2. PICK l \in Nat : l = Len(left)
    BY <1>1
  <2>3. PICK k \in Nat : k = done
    BY <1>3
  <2>4. k = m - l
    BY <1>0, <2>1, <2>2, <2>3, Zenon
  <2>5. m - (l - 1) = k + 1 /\ k + 1 \in Nat /\ k + 1 # 0
    BY <2>4
  <2>6. Len(Tail(left)) = l - 1
    BY <1>2, <2>2, Zenon
  <2> QED
    BY <2>1, <2>3, <2>5, <2>6, Zenon
<1>5. Head(left) = manifest[done + 1] /\ done + 1 \in 1..Len(manifest)
  <2>1. 1 \in 1..Len(left) /\ done + 1 \in 1..Len(manifest)
    BY <1>0, <1>1, <1>3
  <2> QED
    BY <1>2, <1>3, <2>1
<1>6. \A i \in 1..(done + 1) : manifest[i] \in Citation
  BY <1>1, <1>3, <1>5
<1>7. /\ found = tierOf[manifest[done + 1].source_id] /\ found \in 0..3
      /\ \A i \in 1..(done + 1) : tierOf[manifest[i].source_id] \in 0..3
  BY <1>3, <1>5, <1>6 DEF Citation, TrustTier
<1>8. /\ least <= t /\ least <= found /\ (least = t \/ least = found)
      /\ (least # found => t < found)
  BY <1>7 DEF WeakestSoFar, Least, TrustTier
<1>9. t \in 0..3 /\ least \in 0..3
  BY <1>7, <1>8 DEF TrustTier
<1> HIDE DEF least, found
<1>10. \A i \in 1..(done + 1) : least <= tierOf[manifest[i].source_id]
  <2> SUFFICES ASSUME NEW i \in 1..(done + 1) PROVE least <= tierOf[manifest[i].source_id]
    OBVIOUS
  <2>1. CASE i = done + 1
    BY <1>7, <1>8, <2>1
  <2>2. CASE i # done + 1
    <3>1. i \in 1..done
      BY <1>3, <2>2
    <3>2. t <= tierOf[manifest[i].source_id] /\ tierOf[manifest[i].source_id] \in 0..3
      BY <1>3, <1>7, <3>1
    <3> QED
      BY <1>8, <1>9, <3>2
  <2> QED
    BY <2>1, <2>2
<1>11. \E i \in 1..(done + 1) : least = tierOf[manifest[i].source_id]
  <2>1. CASE least = found
    <3>1. done + 1 \in 1..(done + 1)
      BY <1>3
    <3> QED
      BY <1>7, <2>1, <3>1
  <2>2. CASE least # found
    <3>1. least = t /\ t < 3
      BY <1>7, <1>8, <1>9, <2>2
    <3>2. done # 0
      BY <1>3, <3>1 DEF HUMAN_VOUCHED
    <3>3. PICK i \in 1..done : t = tierOf[manifest[i].source_id]
      BY <1>3, <3>2
    <3>4. i \in 1..(done + 1)
      BY <1>3, <3>3
    <3> QED
      BY <3>1, <3>3, <3>4
  <2> QED
    BY <2>1, <2>2
<1>12. \A i \in 1..(Len(left) - 1) : Tail(left)[i] = manifest[done + 1 + i]
  <2> SUFFICES ASSUME NEW i \in 1..(Len(left) - 1)
               PROVE  Tail(left)[i] = manifest[done + 1 + i]
    OBVIOUS
  <2>1. i + 1 \in 1..Len(left) /\ done + (i + 1) = done + 1 + i
    BY <1>1, <1>3
  <2> QED
    BY <1>2, <1>3, <2>1
<1> QED
  BY <1>2, <1>4, <1>10, <1>11, <1>12 DEF Folded, least, found, done

LEMMA FoldEnds ==
  ASSUME NEW manifest \in Seq(Citation), manifest # <<>>,
         NEW tierOf \in [Sources -> TrustTier], NEW t \in TrustTier,
         Folded(manifest, <<>>, t, tierOf)
  PROVE  t = MinTier(manifest, tierOf)
<1> DEFINE tiers == {tierOf[s] : s \in SourcesOf(manifest)}
<1>1. Len(manifest) \in Nat /\ Len(manifest) # 0 /\ Len(<<>>) = 0
      /\ DOMAIN manifest = 1..Len(manifest)
  BY EmptySeq
<1>2. /\ \A i \in DOMAIN manifest : t <= tierOf[manifest[i].source_id]
      /\ \E i \in DOMAIN manifest : t = tierOf[manifest[i].source_id]
  BY <1>1 DEF Folded
<1>3. t \in tiers /\ \A u \in tiers : t <= u
  BY <1>2 DEF SourcesOf
<1>4. tiers \subseteq 0..3
  <2>0. \A i \in DOMAIN manifest : manifest[i] \in Citation
    BY <1>1
  <2>1. \A i \in DOMAIN manifest : manifest[i].source_id \in Sources
    BY <2>0 DEF Citation
  <2>2. SourcesOf(manifest) \subseteq Sources
    BY <2>1 DEF SourcesOf
  <2> QED
    BY <2>2 DEF TrustTier
<1> HIDE DEF tiers
<1>5. \A x \in tiers : (\A y \in tiers : x <= y) => x = t
  BY <1>3, <1>4
<1>6. Min(tiers) = t
  BY <1>3, <1>5 DEF Min
<1>7. tiers # {}
  BY <1>3
<1>8. WeakestLink(tiers) = t
  BY <1>6, <1>7 DEF WeakestLink
<1> QED
  BY <1>8 DEF MinTier, tiers

-----------------------------------------------------------------------------
(* The invariant.  With one process nothing is ever locked and the           *)
(* transaction holds no row that is not committed, so that what a statement  *)
(* has read is still there when a later one acts on it.                      *)

Resolved(p) == frame[p].tier = MinTier(frame[p].req.manifest, db.tier)

Decided(p) ==
  Decide(frame[p].req, Claims[frame[p].req], frame[p].tier, db.spent)

SpentOf(req) == db.spent[RootOf(req)]

(* What each statement of the call rests on. *)
Progress(p) ==
  /\ pc[p] = "resolve" => Folded(frame[p].req.manifest, frame[p].left, frame[p].tier, db.tier)
  /\ pc[p] \in {"screen", "budget", "charge", "emit"} => Resolved(p)
  /\ pc[p] \in {"resolve", "screen", "budget"} => frame[p].quoted = 0
  /\ pc[p] = "budget" => Screen(frame[p].req, Claims[frame[p].req], frame[p].tier) = "ALLOW"
  /\ pc[p] = "charge" => Decided(p) = "ALLOW"
  /\ pc[p] = "emit" =>
       /\ frame[p].code # "ALLOW" /\ frame[p].code = Decided(p)
       /\ frame[p].quoted = IF frame[p].code = "BUDGET" THEN SpentOf(frame[p].req) ELSE 0
  /\ pc[p] = "record" => frame[p].prev = NewestHash(db)

SoloInv ==
  /\ TypeOK /\ tx = db
  /\ BudgetCeiling /\ ChainIntact
  /\ \A p \in Procs : Progress(p)

LEMMA NothingInTheWay ==
  ASSUME NEW solo, Procs = {solo}, TypeOK, tx = db
  PROVE  /\ Image(solo) = db
         /\ ~ReadBusy(solo)
         /\ Read(solo) => UNCHANGED <<db, tx>>
         /\ \A new : Commit(solo, new) => db' = new /\ tx' = new
         /\ \A new : ~Raises(solo, new, TRUE)
         /\ \A new, ok : Raises(solo, new, ok) => ~ok /\ UNCHANGED <<db, tx>>
<1>1. CanRead(solo) /\ CanWrite(solo) /\ CanCommit(solo)
  BY DEF CanRead, CanWrite, CanCommit, NoneElse
<1>2. Image(solo) = db
  BY DEF Image
<1> QED
  BY <1>1, <1>2 DEF ReadBusy, Read, Commit, Raises, WriteBusy, CommitBusy, ConstraintFails

(* A step that leaves the file alone keeps what is about the file.           *)
LEMMA FileUntouched ==
  ASSUME NEW solo, Procs = {solo}, SoloInv, TypeOK', UNCHANGED <<db, tx>>, Progress(solo)'
  PROVE  SoloInv'
BY DEF SoloInv, BudgetCeiling, ChainIntact, VerifyChain

LEMMA SoloInit ==
  ASSUME NEW solo, Procs = {solo}, Init
  PROVE  SoloInv
<1>1. TypeOK /\ tx = db /\ db.audit = <<>> /\ \A r \in Roots : db.spent[r] = 0
  BY InitType DEF Init
<1>2. BudgetCeiling
  BY <1>1, CeilingAssumption DEF BudgetCeiling
<1>3. ChainIntact
  BY <1>1 DEF ChainIntact, VerifyChain
<1>4. \A p \in Procs : Progress(p)
  BY DEF Init, Progress
<1> QED
  BY <1>1, <1>2, <1>3, <1>4 DEF SoloInv

-----------------------------------------------------------------------------
(* The steps that only read *)

LEMMA FrameType ==
  ASSUME TypeOK, NEW p \in Procs
  PROVE  /\ pc \in [Procs -> Steps \cup {"idle"}] /\ frame \in [Procs -> Frames]
         /\ frame[p] \in Frames /\ frame[p].tier \in TrustTier
         /\ frame[p].left \in Seq(Citation)
         /\ db.tier \in [Sources -> TrustTier] /\ db.spent \in [Roots -> Nat]
         /\ pc[p] # "idle" => frame[p].req \in Requests
BY DEF TypeOK, FrameOK, Frames, Citation, IsImage

LEMMA CallSolo ==
  ASSUME NEW solo, Procs = {solo}, SoloInv, NEW req \in Requests, Call(solo, req)
  PROVE  SoloInv'
<1>1. TypeOK /\ TypeOK' /\ UNCHANGED <<db, tx>>
  BY CallType DEF SoloInv, Call
<1>2. /\ frame'[solo] = FirstFrame(req)
      /\ pc'[solo] = IF req.manifest = <<>> THEN "screen" ELSE "resolve"
  BY <1>1, FrameType DEF Call, Goto
<1>3. frame'[solo].req = req /\ frame'[solo].left = req.manifest /\ frame'[solo].quoted = 0
      /\ frame'[solo].tier = IF req.manifest = <<>> THEN UNATTESTED ELSE HUMAN_VOUCHED
  <2>1. LET f == FirstFrame(req) IN
        /\ f.req = req /\ f.left = req.manifest /\ f.quoted = 0
        /\ f.tier = IF req.manifest = <<>> THEN UNATTESTED ELSE HUMAN_VOUCHED
    BY DEF FirstFrame
  <2> QED
    BY <1>2, <2>1
<1>4. req.manifest \in Seq(Citation) /\ db.tier \in [Sources -> TrustTier]
  BY <1>1, FrameType, RequestAssumption DEF Citation
<1>5. CASE req.manifest = <<>>
  <2>1. SourcesOf(req.manifest) = {}
    BY <1>5 DEF SourcesOf
  <2>2. MinTier(req.manifest, db.tier) = UNATTESTED
    BY <2>1 DEF MinTier, WeakestLink
  <2>3. Resolved(solo)'
    BY <1>1, <1>3, <1>5, <2>2 DEF Resolved
  <2>4. Progress(solo)'
    BY <1>2, <1>3, <1>5, <2>3 DEF Progress
  <2> QED
    BY <1>1, <2>4, FileUntouched
<1>6. CASE req.manifest # <<>>
  <2>1. Folded(req.manifest, req.manifest, HUMAN_VOUCHED, db.tier)
    BY <1>4, FoldStarts
  <2>2. Folded(frame[solo].req.manifest, frame[solo].left, frame[solo].tier, db.tier)'
    BY <1>1, <1>3, <1>6, <2>1 DEF Folded
  <2>3. Progress(solo)'
    BY <1>2, <1>3, <1>6, <2>2 DEF Progress
  <2> QED
    BY <1>1, <2>3, FileUntouched
<1> QED
  BY <1>5, <1>6

LEMMA ResolveSourceSolo ==
  ASSUME NEW solo, Procs = {solo}, SoloInv, ResolveSource(solo)
  PROVE  SoloInv'
<1> DEFINE found == db.tier[Head(frame[solo].left).source_id]
           rest  == Tail(frame[solo].left)
           least == WeakestSoFar(frame[solo].tier, found)
           man   == frame[solo].req.manifest
<1>1. TypeOK /\ TypeOK' /\ UNCHANGED <<db, tx>> /\ Image(solo) = db /\ pc[solo] = "resolve"
  BY ResolveSourceType, NothingInTheWay DEF SoloInv, ResolveSource
<1>2. frame[solo].left # <<>> /\ frame[solo].req \in Requests /\ frame[solo].quoted = 0
      /\ Folded(man, frame[solo].left, frame[solo].tier, db.tier)
  BY <1>1 DEF SoloInv, TypeOK, FrameOK, Progress
<1>3. man \in Seq(Citation)
  BY <1>2, RequestAssumption DEF Citation
<1>4. Folded(man, rest, least, db.tier)
  BY <1>1, <1>2, <1>3, FrameType, FoldGoesOn
<1>5. frame'[solo] = [frame[solo] EXCEPT !.tier = least, !.left = rest]
  BY <1>1, FrameType DEF ResolveSource
<1>6. pc'[solo] = IF rest = <<>> THEN "screen" ELSE "resolve"
  BY <1>1, FrameType DEF ResolveSource, Goto
<1>7. /\ frame'[solo].tier = least /\ frame'[solo].left = rest
      /\ frame'[solo].req = frame[solo].req /\ frame'[solo].quoted = 0
  BY <1>1, <1>2, <1>5, FrameType DEF Frames
<1>8. least \in TrustTier
  <2>1. frame'[solo] \in Frames
    BY <1>1 DEF TypeOK
  <2> QED
    BY <1>7, <2>1 DEF Frames
<1> HIDE DEF least, rest
<1>9. CASE rest = <<>>
  <2>1. man # <<>>
    BY <1>2, <1>3, <1>1, FrameType, EmptySeq DEF Folded
  <2>2. least = MinTier(man, db.tier)
    BY <1>1, <1>3, <1>4, <1>8, <1>9, <2>1, FrameType, FoldEnds
  <2>3. Resolved(solo)'
    BY <1>1, <1>7, <2>2 DEF Resolved
  <2>4. Progress(solo)'
    BY <1>6, <1>7, <1>9, <2>3 DEF Progress
  <2> QED
    BY <1>1, <2>4, FileUntouched
<1>10. CASE rest # <<>>
  <2>1. Folded(frame[solo].req.manifest, frame[solo].left, frame[solo].tier, db.tier)'
    BY <1>1, <1>4, <1>7 DEF Folded
  <2>2. Progress(solo)'
    BY <1>6, <1>7, <1>10, <2>1 DEF Progress
  <2> QED
    BY <1>1, <2>2, FileUntouched
<1> QED
  BY <1>9, <1>10

LEMMA CheckSolo ==
  ASSUME NEW solo, Procs = {solo}, SoloInv, Check(solo)
  PROVE  SoloInv'
<1> DEFINE code == Screen(frame[solo].req, Claims[frame[solo].req], frame[solo].tier)
<1>1. TypeOK /\ TypeOK' /\ UNCHANGED <<db, tx>> /\ pc[solo] = "screen"
  BY CheckType DEF SoloInv, Check
<1>2. Resolved(solo) /\ frame[solo].quoted = 0
  BY <1>1 DEF SoloInv, Progress
<1>3. frame'[solo] = [frame[solo] EXCEPT !.code = code]
      /\ pc'[solo] = IF code = "ALLOW" THEN "budget" ELSE "emit"
  BY <1>1, FrameType DEF Check, Goto
<1>4. /\ frame'[solo].code = code /\ frame'[solo].tier = frame[solo].tier
      /\ frame'[solo].req = frame[solo].req /\ frame'[solo].quoted = 0
  BY <1>1, <1>2, <1>3, FrameType DEF Frames
<1>5. code \in {"IDENTITY", "CAPABILITY", "PURPOSE", "PROVENANCE", "ALLOW"}
  BY DEF Screen
<1>6. code = Screen(frame[solo].req, Claims[frame[solo].req], frame[solo].tier)
  OBVIOUS
<1> HIDE DEF code
<1>7. Resolved(solo)'
  BY <1>1, <1>2, <1>4 DEF Resolved
<1>8. CASE code = "ALLOW"
  <2>1. (Screen(frame[solo].req, Claims[frame[solo].req], frame[solo].tier) = "ALLOW")'
    BY <1>4, <1>6, <1>8
  <2>2. Progress(solo)'
    BY <1>3, <1>4, <1>7, <1>8, <2>1 DEF Progress
  <2> QED
    BY <1>1, <2>2, FileUntouched
<1>9. CASE code # "ALLOW"
  <2>1. Decided(solo)' = code
    BY <1>1, <1>4, <1>6, <1>9 DEF Decided, Decide
  <2>2. Progress(solo)'
    BY <1>3, <1>4, <1>5, <1>7, <1>9, <2>1 DEF Progress
  <2> QED
    BY <1>1, <2>2, FileUntouched
<1> QED
  BY <1>8, <1>9

LEMMA ReadSpentSolo ==
  ASSUME NEW solo, Procs = {solo}, SoloInv, ReadSpent(solo)
  PROVE  SoloInv'
<1> DEFINE req     == frame[solo].req
           already == SpentOf(req)
<1>1. TypeOK /\ TypeOK' /\ UNCHANGED <<db, tx>> /\ Image(solo) = db /\ pc[solo] = "budget"
  BY ReadSpentType, NothingInTheWay DEF SoloInv, ReadSpent
<1>2. Resolved(solo) /\ Screen(req, Claims[req], frame[solo].tier) = "ALLOW"
  BY <1>1 DEF SoloInv, Progress
<1>3. SpentOf(req) = db.spent[Claims[req].accountable_root] /\ Claims[req].ok
  BY <1>1 DEF TypeOK, FrameOK, SpentOf, RootOf
<1>4. CASE WithinBudget(req, Claims[req], already)
  <2>1. UNCHANGED frame /\ pc'[solo] = "charge"
    BY <1>1, <1>4, FrameType DEF ReadSpent, Goto, SpentOf
  <2>2. Decided(solo) = "ALLOW"
    BY <1>2, <1>3, <1>4 DEF Decided, Decide
  <2>3. Decided(solo)' = "ALLOW" /\ Resolved(solo)'
    BY <1>1, <1>2, <2>1, <2>2 DEF Decided, Resolved
  <2>4. Progress(solo)'
    BY <2>1, <2>3 DEF Progress
  <2> QED
    BY <1>1, <2>4, FileUntouched
<1>5. CASE ~WithinBudget(req, Claims[req], already)
  <2>1. /\ frame'[solo] = [frame[solo] EXCEPT !.code = "BUDGET", !.quoted = already]
        /\ pc'[solo] = "emit"
    BY <1>1, <1>5, FrameType DEF ReadSpent, Goto, SpentOf
  <2>2. /\ frame'[solo].code = "BUDGET" /\ frame'[solo].quoted = already
        /\ frame'[solo].req = req /\ frame'[solo].tier = frame[solo].tier
    BY <1>1, <2>1, FrameType DEF Frames
  <2>3. Decided(solo) = "BUDGET"
    BY <1>2, <1>3, <1>5 DEF Decided, Decide
  <2>4. Decided(solo)' = "BUDGET"
    BY <1>1, <2>2, <2>3 DEF Decided
  <2>5. Resolved(solo)' /\ SpentOf(frame[solo].req)' = already
    BY <1>1, <1>2, <2>2 DEF Resolved, SpentOf
  <2>6. Progress(solo)'
    BY <2>1, <2>2, <2>4, <2>5 DEF Progress
  <2> QED
    BY <1>1, <2>6, FileUntouched
<1> QED
  BY <1>4, <1>5

LEMMA ReadLastHashSolo ==
  ASSUME NEW solo, Procs = {solo}, SoloInv, ReadLastHash(solo)
  PROVE  SoloInv'
<1>1. TypeOK /\ TypeOK' /\ UNCHANGED <<db, tx>> /\ Image(solo) = db
  BY ReadLastHashType, NothingInTheWay DEF SoloInv, ReadLastHash
<1>2. frame'[solo] = [frame[solo] EXCEPT !.prev = NewestHash(db)] /\ pc'[solo] = "record"
  BY <1>1, FrameType DEF ReadLastHash, Goto
<1>3. frame'[solo].prev = NewestHash(db)
  BY <1>1, <1>2, FrameType DEF Frames
<1>4. (frame[solo].prev = NewestHash(db))'
  BY <1>1, <1>3 DEF NewestHash
<1>5. Progress(solo)'
  BY <1>2, <1>4 DEF Progress
<1> QED
  BY <1>1, <1>5, FileUntouched

(* A call that ends, by whichever way, leaves nothing to rest on.            *)
LEMMA EndSolo ==
  ASSUME NEW solo, Procs = {solo}, SoloInv, TypeOK', UNCHANGED <<db, tx>>,
         Goto(solo, "idle")
  PROVE  SoloInv'
<1>1. pc'[solo] = "idle"
  BY FrameType DEF SoloInv, Goto
<1>2. Progress(solo)'
  BY <1>1 DEF Progress
<1> QED
  BY <1>2, FileUntouched

-----------------------------------------------------------------------------
(* The steps that write *)

LEMMA ChargeSolo ==
  ASSUME NEW solo, Procs = {solo}, SoloInv, Charge(solo)
  PROVE  /\ SoloInv'
         /\ \/ UNCHANGED db
            \/ db' = Charged(db, RootOf(frame[solo].req), frame[solo].req.tool.est_cost)
<1> DEFINE req  == frame[solo].req
           root == RootOf(req)
           cost == req.tool.est_cost
           new  == Charged(db, root, cost)
<1>1. TypeOK /\ TypeOK' /\ tx = db /\ Image(solo) = db /\ pc[solo] = "charge"
      /\ BudgetCeiling /\ ChainIntact
  BY ChargeType, NothingInTheWay DEF SoloInv, Charge
<1>2. req \in Requests /\ root \in Roots /\ cost \in Nat /\ Claims[req].budget \in Nat
      /\ root = Claims[req].accountable_root /\ Claims[req].ok
      /\ db.spent \in [Roots -> Nat]
  BY <1>1, PassedHasRoot, FrameType DEF TypeOK, FrameOK
<1>3. Decided(solo) = "ALLOW"
  BY <1>1 DEF SoloInv, Progress
<1>4. WithinBudget(req, Claims[req], db.spent[root])
  BY <1>2, <1>3 DEF Decided, Decide
<1>5. db.spent[root] + cost <= Ceiling[root]
  BY <1>2, <1>4, CeilingAssumption DEF WithinBudget
<1>6. new.audit = db.audit /\ new.spent = [db.spent EXCEPT ![root] = @ + cost]
  BY <1>1 DEF Charged, TypeOK, IsImage
<1>7. \/ Commit(solo, new) /\ Goto(solo, "last_hash") /\ UNCHANGED frame
      \/ \E ok : Raises(solo, new, ok) /\ Leave(solo)
  BY <1>1 DEF Charge
<1> HIDE DEF new
<1>8. CASE Commit(solo, new) /\ Goto(solo, "last_hash") /\ UNCHANGED frame
  <2>1. db' = new /\ tx' = new /\ pc'[solo] = "last_hash"
    BY <1>1, <1>8, NothingInTheWay, FrameType DEF Goto
  <2>2. \A r \in Roots : db'.spent[r] <= Ceiling[r]
    <3> HIDE DEF cost
    <3> QED
      BY <1>1, <1>2, <1>5, <1>6, <2>1 DEF BudgetCeiling
  <2>3. BudgetCeiling'
    BY <2>2 DEF BudgetCeiling
  <2>4. ChainIntact'
    BY <1>1, <1>6, <2>1 DEF ChainIntact, VerifyChain
  <2>5. Progress(solo)'
    BY <2>1 DEF Progress
  <2> QED
    BY <1>1, <2>1, <2>3, <2>4, <2>5 DEF SoloInv, new
<1>9. ASSUME NEW ok, Raises(solo, new, ok), Leave(solo)
      PROVE  SoloInv' /\ UNCHANGED db
  BY <1>1, <1>9, NothingInTheWay, EndSolo DEF Leave
<1> QED
  BY <1>7, <1>8, <1>9

LEMMA EmitIncidentSolo ==
  ASSUME NEW solo, Procs = {solo}, SoloInv, EmitIncident(solo)
  PROVE  /\ SoloInv'
         /\ \/ UNCHANGED db
            \/ db' = WithIncident(db, TriagePacket(frame[solo].code, frame[solo].req,
                                                   frame[solo].tier, frame[solo].quoted))
<1> DEFINE f   == frame[solo]
           new == WithIncident(db, TriagePacket(f.code, f.req, f.tier, f.quoted))
<1>1. TypeOK /\ TypeOK' /\ tx = db /\ Image(solo) = db /\ BudgetCeiling /\ ChainIntact
  BY EmitIncidentType, NothingInTheWay DEF SoloInv, EmitIncident
<1>2. new.audit = db.audit /\ new.spent = db.spent
  BY <1>1 DEF WithIncident, TypeOK, IsImage
<1>3. \/ Commit(solo, new) /\ Goto(solo, "last_hash") /\ UNCHANGED frame
      \/ \E ok : Raises(solo, new, ok) /\ Leave(solo)
  BY <1>1 DEF EmitIncident
<1> HIDE DEF new
<1>4. CASE Commit(solo, new) /\ Goto(solo, "last_hash") /\ UNCHANGED frame
  <2>1. db' = new /\ tx' = new /\ pc'[solo] = "last_hash"
    BY <1>1, <1>4, NothingInTheWay, FrameType DEF Goto
  <2>2. BudgetCeiling' /\ ChainIntact' /\ Progress(solo)'
    BY <1>1, <1>2, <2>1 DEF BudgetCeiling, ChainIntact, VerifyChain, Progress
  <2> QED
    BY <1>1, <2>1, <2>2 DEF SoloInv, new
<1>5. ASSUME NEW ok, Raises(solo, new, ok), Leave(solo)
      PROVE  SoloInv' /\ UNCHANGED db
  BY <1>1, <1>5, NothingInTheWay, EndSolo DEF Leave
<1> QED
  BY <1>3, <1>4, <1>5

(* A row on the newest hash makes a chain of a chain.                        *)
LEMMA ChainGrows ==
  ASSUME NEW log \in Seq(Rows), VerifyChain(log),
         NEW fields \in AllFields, NEW prev \in Hashes,
         prev = IF log = <<>> THEN <<>> ELSE Last(log).row_hash
  PROVE  VerifyChain(Append(log, Row(fields, prev)))
<1> DEFINE row == Row(fields, prev)
           n   == Len(log)
           new == Append(log, row)
<1>1. row \in Rows /\ row.prev_hash = prev /\ row.row_hash = RowHash(row.fields, prev)
  BY RowType DEF Row
<1>2. n \in Nat /\ DOMAIN log = 1..n /\ (log = <<>> <=> n = 0)
  BY EmptySeq
<1> HIDE DEF row
<1>3. DOMAIN new = 1..(n + 1) /\ new[n + 1] = row /\ \A i \in 1..n : new[i] = log[i]
  BY <1>1, <1>2
<1>4. Last(log) = log[n]
  BY DEF Last
<1> HIDE DEF n, new
<1>5. ASSUME NEW i \in 1..n
      PROVE  /\ new[i].prev_hash = IF i = 1 THEN <<>> ELSE new[i - 1].row_hash
             /\ new[i].row_hash = RowHash(new[i].fields, new[i].prev_hash)
  <2>1. /\ log[i].prev_hash = IF i = 1 THEN <<>> ELSE log[i - 1].row_hash
        /\ log[i].row_hash = RowHash(log[i].fields, log[i].prev_hash)
    BY <1>2 DEF VerifyChain
  <2>2. i # 1 => new[i - 1] = log[i - 1]
    BY <1>2, <1>3
  <2> QED
    BY <1>3, <2>1, <2>2
<1>6. new[n + 1].prev_hash = IF n + 1 = 1 THEN <<>> ELSE new[n].row_hash
  BY <1>1, <1>2, <1>3, <1>4
<1>7. (n + 1) - 1 = n
  BY <1>2
<1> QED
  BY <1>1, <1>2, <1>3, <1>5, <1>6, <1>7 DEF VerifyChain, new, row

LEMMA RecordSolo ==
  ASSUME NEW solo, Procs = {solo}, SoloInv, Record(solo)
  PROVE  /\ SoloInv'
         /\ db'.tier = db.tier /\ db'.spent = db.spent /\ db'.incidents = db.incidents
<1> DEFINE fields == Fields(frame[solo].req, frame[solo].code)
           prev   == frame[solo].prev
           new    == WithRow(db, Row(fields, prev))
<1>1. TypeOK /\ TypeOK' /\ tx = db /\ Image(solo) = db /\ BudgetCeiling /\ ChainIntact
      /\ IsImage(db) /\ pc[solo] = "record"
  BY RecordType, NothingInTheWay DEF SoloInv, Record, Return, RecordRaises, Recorded, TypeOK
<1>2. frame[solo].req \in Requests /\ frame[solo].code \in Codes /\ prev \in Hashes
      /\ prev = NewestHash(db)
  BY <1>1 DEF TypeOK, FrameOK, Frames, SoloInv, Progress
<1>3. fields \in AllFields
  BY <1>2 DEF AllFields
<1>4. Commit(solo, new) /\ Leave(solo)
  BY <1>1, NothingInTheWay DEF Record, Return, RecordRaises, Recorded
<1>5. db' = new /\ tx' = new /\ pc'[solo] = "idle"
  BY <1>1, <1>4, NothingInTheWay, FrameType DEF Leave, Goto
<1> HIDE DEF fields
<1>6. /\ new.audit = Append(db.audit, Row(fields, prev)) /\ db.audit \in Seq(Rows)
      /\ new.tier = db.tier /\ new.spent = db.spent /\ new.incidents = db.incidents
  BY <1>1 DEF WithRow, IsImage
<1>7. VerifyChain(new.audit)
  BY <1>1, <1>2, <1>3, <1>6, ChainGrows DEF ChainIntact, NewestHash
<1> HIDE DEF new
<1>8. BudgetCeiling' /\ ChainIntact' /\ Progress(solo)'
  BY <1>1, <1>5, <1>6, <1>7 DEF BudgetCeiling, ChainIntact, VerifyChain, Progress
<1> QED
  BY <1>1, <1>5, <1>6, <1>8 DEF SoloInv

LEMMA AdministerSolo ==
  ASSUME NEW solo, Procs = {solo}, SoloInv, NEW new, IsImage(new), Administer(solo, new),
         new.audit = db.audit, new.spent = db.spent
  PROVE  SoloInv' /\ db' = new
<1>1. TypeOK /\ TypeOK' /\ tx = db /\ BudgetCeiling /\ ChainIntact
  BY AdministerType DEF SoloInv
<1>2. Commit(solo, new) /\ UNCHANGED <<pc, frame>> /\ pc[solo] = "idle"
  BY <1>1, NothingInTheWay DEF Administer
<1>3. db' = new /\ tx' = new
  BY <1>1, <1>2, NothingInTheWay
<1>4. BudgetCeiling' /\ ChainIntact' /\ Progress(solo)'
  BY <1>1, <1>2, <1>3 DEF BudgetCeiling, ChainIntact, VerifyChain, Progress
<1> QED
  BY <1>1, <1>3, <1>4 DEF SoloInv

-----------------------------------------------------------------------------
(* The commits of the process are steps of the in-memory decision point.     *)

(* A charge that is committed is Allow of its call. *)
LEMMA ChargeIsAllow ==
  ASSUME NEW solo, Procs = {solo}, SoloInv, Charge(solo),
         db' = Charged(db, RootOf(frame[solo].req), frame[solo].req.tool.est_cost)
  PROVE  InMemory!Next
<1> DEFINE req  == frame[solo].req
           root == Claims[req].accountable_root
           cost == req.tool.est_cost
<1>1. TypeOK /\ pc[solo] = "charge" /\ req \in Requests /\ IsImage(db) /\ RootOf(req) = root
  BY PassedHasRoot DEF SoloInv, Charge, TypeOK
<1>2. Decided(solo) = "ALLOW" /\ Resolved(solo)
  BY <1>1 DEF SoloInv, Progress
<1>3. InMemory!Decide(req, InMemory!Claims[req], InMemory!MinTier(req.manifest, db.tier), db.spent)
        = "ALLOW"
  BY <1>2, SameClaims, SameTier, SameDecision DEF Decided, Resolved
<1>4. /\ db'.spent = [db.spent EXCEPT ![root] = @ + cost]
      /\ db'.tier = db.tier /\ db'.incidents = db.incidents
  BY <1>1 DEF Charged, IsImage
<1>5. InMemory!Allow(req)
  BY <1>3, <1>4, SameClaims DEF InMemory!Allow
<1> QED
  BY <1>1, <1>5 DEF InMemory!Next, InMemory!Authorize

(* An incident that is committed is DenyOrPend of its call. *)
LEMMA EmitIsDenyOrPend ==
  ASSUME NEW solo, Procs = {solo}, SoloInv, EmitIncident(solo),
         db' = WithIncident(db, TriagePacket(frame[solo].code, frame[solo].req,
                                             frame[solo].tier, frame[solo].quoted))
  PROVE  InMemory!Next
<1> DEFINE req    == frame[solo].req
           code   == frame[solo].code
           actual == InMemory!MinTier(req.manifest, db.tier)
           packet == TriagePacket(code, req, actual, InMemory!Quoted(req, code))
<1>1. TypeOK /\ pc[solo] = "emit" /\ req \in Requests /\ IsImage(db)
  BY DEF SoloInv, EmitIncident, TypeOK, FrameOK
<1>2. /\ code # "ALLOW" /\ code = Decided(solo) /\ Resolved(solo)
      /\ frame[solo].quoted = IF code = "BUDGET" THEN SpentOf(req) ELSE 0
  BY <1>1 DEF SoloInv, Progress
<1>3. actual = frame[solo].tier
  BY <1>2, SameTier DEF Resolved
<1>4. code = InMemory!Decide(req, InMemory!Claims[req], actual, db.spent)
  BY <1>2, <1>3, SameClaims, SameDecision DEF Decided
<1>5. InMemory!RootOf(req) = RootOf(req) /\ InMemory!ActorOf(req) = ActorOf(req)
  BY SameClaims DEF InMemory!RootOf, RootOf, InMemory!ActorOf, ActorOf
<1>6. InMemory!Quoted(req, code) = frame[solo].quoted
  BY <1>2, <1>5 DEF InMemory!Quoted, SpentOf
<1>7. InMemory!TriagePacket(code, req, actual, InMemory!Quoted(req, code)) = packet
  BY <1>5, SameClaims
  DEF InMemory!TriagePacket, TriagePacket, InMemory!SourcesOf, SourcesOf,
      InMemory!PurposeGranted, PurposeGranted
<1>8. db' = WithIncident(db, packet)
  BY <1>3, <1>6
<1> HIDE DEF packet, actual
<1>9. /\ db'.incidents = db.incidents \cup {packet}
      /\ db'.tier = db.tier /\ db'.spent = db.spent
  BY <1>1, <1>8 DEF WithIncident, IsImage
<1>10. InMemory!DenyOrPend(req)
  BY <1>2, <1>4, <1>7, <1>9 DEF InMemory!DenyOrPend, actual
<1> QED
  BY <1>1, <1>10 DEF InMemory!Next, InMemory!Authorize

LEMMA VouchIsVouch ==
  ASSUME NEW s \in Sources, NEW t \in TrustTier, IsImage(db), db' = WithTier(db, s, t)
  PROVE  InMemory!Next
<1>1. /\ db'.tier = [db.tier EXCEPT ![s] = t]
      /\ db'.spent = db.spent /\ db'.incidents = db.incidents
  BY DEF WithTier, IsImage
<1>2. InMemory!Vouch(s, t)
  BY <1>1 DEF InMemory!Vouch
<1>3. t \in InMemory!TrustTier
  BY DEF InMemory!TrustTier, TrustTier
<1> QED
  BY <1>2, <1>3 DEF InMemory!Next

-----------------------------------------------------------------------------
(* Every step of the process keeps the invariant and is a step of the        *)
(* in-memory decision point or leaves its state alone.                       *)

LEMMA SoloStep ==
  ASSUME NEW solo, Procs = {solo}, SoloInv, [Next]_vars
  PROVE  SoloInv' /\ [InMemory!Next]_InMemory!vars
<1> DEFINE Mapped == InMemory!Next \/ UNCHANGED InMemory!vars
<1>1. TypeOK /\ TypeOK' /\ tx = db /\ IsImage(db) /\ Image(solo) = db
  BY StepType, NothingInTheWay DEF SoloInv, TypeOK
<1>2. UNCHANGED db => Mapped
  BY DEF InMemory!vars
<1>3. CASE UNCHANGED vars
  <2>1. Progress(solo)'
    BY <1>3 DEF SoloInv, vars, Progress, Resolved, Decided, SpentOf, Folded, NewestHash
  <2> QED
    BY <1>1, <1>2, <1>3, <2>1, FileUntouched DEF vars
<1>4. CASE \E req \in Requests : Call(solo, req)
  BY <1>2, <1>4, CallSolo DEF Call
<1>5. CASE ResolveSource(solo) \/ ReadSpent(solo) \/ ReadLastHash(solo)
  BY <1>1, <1>2, <1>5, ResolveSourceSolo, ReadSpentSolo, ReadLastHashSolo, NothingInTheWay
     DEF ResolveSource, ReadSpent, ReadLastHash
<1>6. CASE Check(solo)
  BY <1>2, <1>6, CheckSolo DEF Check
<1>7. CASE Charge(solo)
  BY <1>2, <1>7, ChargeSolo, ChargeIsAllow
<1>8. CASE EmitIncident(solo)
  BY <1>2, <1>8, EmitIncidentSolo, EmitIsDenyOrPend
<1>9. CASE Record(solo)
  BY <1>9, RecordSolo DEF InMemory!vars
<1>10. ~ReadRaises(solo)
  BY <1>1, NothingInTheWay DEF ReadRaises
<1>11. ASSUME NEW ident \in Mints, RegisterPrincipal(solo, ident) PROVE SoloInv' /\ Mapped
  <2> DEFINE new == WithPrincipal(db, ident)
  <2>1. IsImage(new) /\ new.audit = db.audit /\ new.spent = db.spent
        /\ new.tier = db.tier /\ new.incidents = db.incidents
    BY <1>1, ImageWithPrincipal DEF WithPrincipal, IsImage
  <2>2. SoloInv' /\ db' = new
    BY <1>1, <1>11, <2>1, AdministerSolo DEF RegisterPrincipal
  <2> QED
    BY <2>1, <2>2 DEF InMemory!vars
<1>12. ASSUME NEW v \in Vouches, Vouch(solo, v[1], v[2]) PROVE SoloInv' /\ Mapped
  <2> DEFINE new == WithTier(db, v[1], v[2])
  <2>1. v[1] \in Sources /\ v[2] \in TrustTier
    BY StoreAssumption
  <2>2. IsImage(new) /\ new.audit = db.audit /\ new.spent = db.spent
    BY <1>1, <2>1, ImageWithTier DEF WithTier, IsImage
  <2>3. SoloInv' /\ db' = new
    BY <1>1, <1>12, <2>2, AdministerSolo DEF Vouch
  <2> QED
    BY <1>1, <2>1, <2>3, VouchIsVouch
<1>13. CASE Crash(solo)
  <2>1. UNCHANGED <<db, tx>> /\ Goto(solo, "idle")
    BY <1>1, <1>13 DEF Crash, Close
  <2> QED
    BY <1>1, <1>2, <2>1, EndSolo
<1> QED
  BY <1>3, <1>4, <1>5, <1>6, <1>7, <1>8, <1>9, <1>10, <1>11, <1>12, <1>13 DEF Next, Authorizing, Proceeding, Record

LEMMA SoloInitMaps ==
  ASSUME Init
  PROVE  InMemory!Init
BY DEF Init, InMemory!Init, InMemory!UNATTESTED, UNATTESTED

LEMMA SoloInvSays == SoloInv => BudgetCeiling /\ ChainIntact
BY DEF SoloInv

(* A process that has the file to itself stays within every ceiling, with no *)
(* assumption on the mint ledger and through crashes and refused rows.       *)
THEOREM OneProcessWithinCeiling ==
  ASSUME NEW solo, Procs = {solo}
  PROVE  Spec => []BudgetCeiling
<1>1. Init => SoloInv
  BY SoloInit
<1>2. SoloInv /\ [Next]_vars => SoloInv'
  BY SoloStep
<1> QED
  BY <1>1, <1>2, SoloInvSays, PTL DEF Spec

(* Its audit log is a chain that verify_chain() accepts.                     *)
THEOREM OneProcessChain ==
  ASSUME NEW solo, Procs = {solo}
  PROVE  Spec => []ChainIntact
<1>1. Init => SoloInv
  BY SoloInit
<1>2. SoloInv /\ [Next]_vars => SoloInv'
  BY SoloStep
<1> QED
  BY <1>1, <1>2, SoloInvSays, PTL DEF Spec

(* Its statements implement the atomic decision point: every commit of a     *)
(* charge, an incident or a vouch is one step of AgentIAM, and nothing else  *)
(* it does is visible there.                                                 *)
THEOREM OneProcessIsInMemory ==
  ASSUME NEW solo, Procs = {solo}
  PROVE  Spec => ImplementsInMemory
<1>1. Init => SoloInv
  BY SoloInit
<1>2. SoloInv /\ [Next]_vars => SoloInv' /\ [InMemory!Next]_InMemory!vars
  BY SoloStep
<1> QED
  BY <1>1, <1>2, SoloInitMaps, PTL DEF Spec, ImplementsInMemory, InMemory!Spec

-----------------------------------------------------------------------------
(* One process: what is allowed fits into the budget of its own token.  The  *)
(* check compares with the spend, which covers all that the audit log shows  *)
(* as allowed (NothingForFree), and nothing is charged between the check of  *)
(* a call and its row but the call itself.                                   *)

Fits(log, i) ==
  LET row   == log[i].fields
      sofar == [audit |-> SubSeq(log, 1, i)]
  IN  row.code = "ALLOW" =>
        \E req \in Requests :
          /\ Fields(req, "ALLOW") = row
          /\ AuditedCost(sofar, row.accountable_root) <= Claims[req].budget

Budgeted(p) ==
  pc[p] \in {"last_hash", "record"} /\ frame[p].code = "ALLOW" =>
    /\ RootOf(frame[p].req) \in Roots /\ Claims[frame[p].req].budget \in Nat
    /\ SpentOf(frame[p].req) <= Claims[frame[p].req].budget

FitInv(p) == Budgeted(p) /\ \A i \in DOMAIN db.audit : Fits(db.audit, i)

LEMMA AllFit == (\A i \in DOMAIN db.audit : Fits(db.audit, i)) <=> AllowsWithinBudget
BY DEF Fits, AllowsWithinBudget

(* A step that leaves the log and the ledger alone.                          *)
LEMMA FitStays ==
  ASSUME NEW solo, FitInv(solo), db'.audit = db.audit, db'.spent = db.spent,
         \/ pc'[solo] \notin {"last_hash", "record"}
         \/ /\ pc[solo] \in {"last_hash", "record"}
            /\ frame'[solo].req = frame[solo].req /\ frame'[solo].code = frame[solo].code
         \/ frame'[solo].code # "ALLOW"
  PROVE  FitInv(solo)'
<1>1. \A i \in DOMAIN db'.audit : Fits(db'.audit, i)
  BY DEF FitInv
<1>2. (\A i \in DOMAIN db.audit : Fits(db.audit, i))'
  BY <1>1
<1>3. Budgeted(solo)'
  BY DEF FitInv, Budgeted, SpentOf
<1> QED
  BY <1>2, <1>3 DEF FitInv

LEMMA ChargeFits ==
  ASSUME NEW solo, Procs = {solo}, SoloInv, FitInv(solo), Charge(solo)
  PROVE  FitInv(solo)'
<1> DEFINE req  == frame[solo].req
           root == RootOf(req)
           cost == req.tool.est_cost
           new  == Charged(db, root, cost)
<1>1. TypeOK /\ tx = db /\ Image(solo) = db /\ pc[solo] = "charge"
  BY NothingInTheWay DEF SoloInv, Charge
<1>2. req \in Requests /\ root \in Roots /\ cost \in Nat /\ Claims[req].budget \in Nat
      /\ root = Claims[req].accountable_root /\ Claims[req].ok
      /\ db.spent \in [Roots -> Nat]
  BY <1>1, PassedHasRoot, FrameType DEF TypeOK, FrameOK
<1>3. db.spent[root] + cost <= Claims[req].budget
  BY <1>1, <1>2 DEF SoloInv, Progress, Decided, Decide, WithinBudget
<1>4. new.audit = db.audit /\ new.spent = [db.spent EXCEPT ![root] = @ + cost]
  BY <1>1 DEF Charged, TypeOK, IsImage
<1>5. \/ Commit(solo, new) /\ Goto(solo, "last_hash") /\ UNCHANGED frame
      \/ \E ok : Raises(solo, new, ok) /\ Leave(solo)
  BY <1>1 DEF Charge
<1> HIDE DEF new
<1>6. CASE Commit(solo, new) /\ Goto(solo, "last_hash") /\ UNCHANGED frame
  <2>1. db' = new /\ frame' = frame
    BY <1>1, <1>6, NothingInTheWay
  <2>2. db'.spent[root] = db.spent[root] + cost
    <3> HIDE DEF cost
    <3> QED
      BY <1>2, <1>4, <2>1
  <2>3. Budgeted(solo)'
    BY <1>2, <1>3, <2>1, <2>2 DEF Budgeted, SpentOf
  <2>4. \A i \in DOMAIN db'.audit : Fits(db'.audit, i)
    BY <1>4, <2>1 DEF FitInv
  <2>5. (\A i \in DOMAIN db.audit : Fits(db.audit, i))'
    BY <2>4
  <2> QED
    BY <2>3, <2>5 DEF FitInv
<1>7. ASSUME NEW ok, Raises(solo, new, ok), Leave(solo) PROVE FitInv(solo)'
  <2>1. UNCHANGED db /\ pc'[solo] = "idle"
    BY <1>1, <1>7, NothingInTheWay, FrameType DEF Leave, Goto
  <2> QED
    BY <2>1, FitStays
<1> QED
  BY <1>5, <1>6, <1>7

LEMMA RecordFits ==
  ASSUME NEW solo, Procs = {solo}, SoloInv, FitInv(solo), AuditedAllowsAreCharged', Record(solo)
  PROVE  FitInv(solo)'
<1> DEFINE req    == frame[solo].req
           fields == Fields(req, frame[solo].code)
           row    == Row(fields, frame[solo].prev)
           root   == RootOf(req)
           n      == Len(db.audit)
<1>1. TypeOK /\ TypeOK' /\ tx = db /\ Image(solo) = db /\ pc[solo] = "record"
      /\ IsImage(db) /\ IsImage(db')
  BY RecordType, NothingInTheWay DEF SoloInv, Record, Return, RecordRaises, Recorded, TypeOK
<1>2. Commit(solo, WithRow(db, row)) /\ Leave(solo)
  BY <1>1, NothingInTheWay DEF Record, Return, RecordRaises, Recorded
<1>3. db' = WithRow(db, row) /\ pc'[solo] = "idle"
  BY <1>1, <1>2, NothingInTheWay, FrameType DEF Leave, Goto
<1>4. req \in Requests /\ row.fields = fields /\ fields.code = frame[solo].code
      /\ fields.accountable_root = root
  BY <1>1, FrameType DEF Row, Fields
<1>5. db'.audit = Append(db.audit, row) /\ db'.spent = db.spent /\ db.audit \in Seq(Rows)
      /\ db'.audit \in Seq(Rows)
  BY <1>1, <1>3 DEF WithRow, IsImage
<1> HIDE DEF row
<1>6. /\ n \in Nat /\ DOMAIN db.audit = 1..n /\ DOMAIN db'.audit = 1..(n + 1)
      /\ db'.audit[n + 1] = row /\ \A i \in 1..n : db'.audit[i] = db.audit[i]
      /\ SubSeq(db'.audit, 1, n + 1) = db'.audit
      /\ \A i \in 1..n : SubSeq(db'.audit, 1, i) = SubSeq(db.audit, 1, i)
  BY <1>5
<1>7. ASSUME NEW i \in 1..n PROVE Fits(db'.audit, i)
  BY <1>6, <1>7 DEF FitInv, Fits
<1>8. Fits(db'.audit, n + 1)
  <2> SUFFICES ASSUME fields.code = "ALLOW"
               PROVE  \E x \in Requests :
                        /\ Fields(x, "ALLOW") = fields
                        /\ AuditedCost([audit |-> SubSeq(db'.audit, 1, n + 1)],
                                       fields.accountable_root) <= Claims[x].budget
    BY <1>4, <1>6 DEF Fits
  <2>1. root \in Roots /\ SpentOf(req) <= Claims[req].budget
    BY <1>1, <1>4 DEF FitInv, Budgeted
  <2>2. PICK r \in Roots : r = root
    BY <2>1
  <2>3. AuditedCost(db', r) + UnauditedCost(r)' <= db'.spent[r]
    BY DEF AuditedAllowsAreCharged
  <2>4. AuditedCost(db', r) \in Nat /\ UnauditedCost(r)' \in Nat
    <3>1. Alone(solo)
      BY DEF Alone
    <3> QED
      BY <1>1, <3>1, UnauditedSplit, UnauditedNext, AuditedType
  <2>5. AuditedCost(db', root) \in Nat /\ AuditedCost(db', root) <= SpentOf(req)
    <3>1. db'.spent[r] \in Nat
      BY <1>1 DEF IsImage
    <3> QED
      BY <1>5, <2>2, <2>3, <2>4, <3>1 DEF SpentOf
  <2>6. AuditedCost([audit |-> SubSeq(db'.audit, 1, n + 1)], root) = AuditedCost(db', root)
    <3> DEFINE sofar == [audit |-> SubSeq(db'.audit, 1, n + 1)]
    <3>1. sofar.audit = db'.audit
      BY <1>6
    <3> HIDE DEF sofar, root
    <3>2. AuditedCost(sofar, root) = AuditedCost(db', root)
      BY <3>1, AuditedSame
    <3> QED
      BY <3>2 DEF sofar
  <2>7. SpentOf(req) \in Nat /\ Claims[req].budget \in Nat
    <3>1. Claims[req].budget \in Nat
      BY <1>1, <1>4 DEF FitInv, Budgeted
    <3> QED
      BY <1>1, <2>1, <3>1, FrameType DEF SpentOf
  <2>8. AuditedCost(db', root) <= Claims[req].budget
    BY <2>1, <2>5, <2>7
  <2> QED
    BY <1>4, <2>6, <2>8
<1>9. \A i \in DOMAIN db'.audit : Fits(db'.audit, i)
  BY <1>6, <1>7, <1>8
<1>10. (\A i \in DOMAIN db.audit : Fits(db.audit, i))'
  BY <1>9
<1>11. Budgeted(solo)'
  BY <1>3 DEF Budgeted
<1> QED
  BY <1>10, <1>11 DEF FitInv

LEMMA FitStep ==
  ASSUME NEW solo, Procs = {solo}, SoloInv, FitInv(solo), AuditedAllowsAreCharged', [Next]_vars
  PROVE  FitInv(solo)'
<1>1. TypeOK /\ tx = db /\ IsImage(db) /\ Image(solo) = db
      /\ pc \in [Procs -> Steps \cup {"idle"}] /\ frame \in [Procs -> Frames]
  BY NothingInTheWay, FrameType DEF SoloInv, TypeOK
<1>2. CASE UNCHANGED vars
  BY <1>2 DEF vars, FitInv, Budgeted, SpentOf
<1>3. CASE \E req \in Requests : Call(solo, req)
  <2>1. UNCHANGED db /\ pc'[solo] \notin {"last_hash", "record"}
    BY <1>1, <1>3 DEF Call, Goto
  <2> QED
    BY <2>1, FitStays
<1>4. CASE ResolveSource(solo) \/ Check(solo) \/ ReadSpent(solo)
  <2>1. UNCHANGED db
    <3>1. Read(solo) \/ UNCHANGED db
      BY <1>4 DEF ResolveSource, Check, ReadSpent
    <3> QED
      BY <1>1, <3>1, NothingInTheWay
  <2>2. \E step \in Steps \ {"last_hash", "record"} : Goto(solo, step)
    BY <1>4 DEF ResolveSource, Check, ReadSpent, Steps, ReadingSteps, WritingSteps
  <2>3. pc'[solo] \notin {"last_hash", "record"}
    BY <1>1, <2>2 DEF Goto
  <2> QED
    BY <2>1, <2>3, FitStays
<1>5. CASE ReadLastHash(solo)
  <2>1. UNCHANGED db
    BY <1>1, <1>5, NothingInTheWay DEF ReadLastHash
  <2>2. pc[solo] \in {"last_hash", "record"}
    BY <1>5 DEF ReadLastHash
  <2>3. frame'[solo].req = frame[solo].req /\ frame'[solo].code = frame[solo].code
    <3>1. frame[solo] \in Frames
      BY <1>1
    <3>2. PICK hash : frame' = [frame EXCEPT ![solo].prev = hash]
      BY <1>1, <1>5 DEF ReadLastHash
    <3>3. frame'[solo] = [frame[solo] EXCEPT !.prev = hash]
      BY <1>1, <3>2
    <3>4. ASSUME NEW f \in Frames, NEW g, g = [f EXCEPT !.prev = hash]
          PROVE  g.req = f.req /\ g.code = f.code
      BY <3>4, ZenonT(30) DEF Frames
    <3> QED
      BY <3>1, <3>3, <3>4
  <2> QED
    BY <2>1, <2>2, <2>3, FitStays
<1>6. CASE EmitIncident(solo)
  <2> DEFINE packet == TriagePacket(frame[solo].code, frame[solo].req, frame[solo].tier,
                                    frame[solo].quoted)
             added  == WithIncident(db, packet)
  <2>1. added.audit = db.audit /\ added.spent = db.spent
    BY <1>1 DEF WithIncident, IsImage
  <2>2. frame[solo].code # "ALLOW"
    BY <1>6 DEF SoloInv, Progress, EmitIncident
  <2>3. \/ Commit(solo, added) /\ UNCHANGED frame
        \/ \E ok : Raises(solo, added, ok) /\ Leave(solo)
    BY <1>1, <1>6 DEF EmitIncident
  <2> HIDE DEF added
  <2>4. CASE Commit(solo, added) /\ UNCHANGED frame
    <3>1. db' = added
      BY <1>1, <2>4, NothingInTheWay
    <3> QED
      BY <2>1, <2>2, <2>4, <3>1, FitStays
  <2>5. ASSUME NEW ok, Raises(solo, added, ok), Leave(solo) PROVE FitInv(solo)'
    <3>1. UNCHANGED db /\ pc'[solo] = "idle"
      BY <1>1, <2>5, NothingInTheWay DEF Leave, Goto
    <3> QED
      BY <3>1, FitStays
  <2> QED
    BY <2>3, <2>4, <2>5
<1>7. ASSUME NEW new, new.audit = db.audit, new.spent = db.spent, Administer(solo, new)
      PROVE  FitInv(solo)'
  <2>1. db' = new /\ pc'[solo] = "idle"
    BY <1>1, <1>7, NothingInTheWay DEF Administer
  <2> QED
    BY <1>7, <2>1, FitStays
<1>8. ASSUME NEW ident \in Mints, RegisterPrincipal(solo, ident) PROVE FitInv(solo)'
  <2>1. WithPrincipal(db, ident).audit = db.audit /\ WithPrincipal(db, ident).spent = db.spent
    BY <1>1 DEF WithPrincipal, IsImage
  <2> QED
    BY <1>1, <1>7, <1>8, <2>1 DEF RegisterPrincipal
<1>9. ASSUME NEW v \in Vouches, Vouch(solo, v[1], v[2]) PROVE FitInv(solo)'
  <2>1. WithTier(db, v[1], v[2]).audit = db.audit /\ WithTier(db, v[1], v[2]).spent = db.spent
    BY <1>1 DEF WithTier, IsImage
  <2> QED
    BY <1>1, <1>7, <1>9, <2>1 DEF Vouch
<1>10. CASE Crash(solo)
  <2>1. UNCHANGED db /\ pc'[solo] = "idle"
    BY <1>1, <1>10 DEF Crash, Close, Goto
  <2> QED
    BY <2>1, FitStays
<1>11. ~ReadRaises(solo)
  BY <1>1, NothingInTheWay DEF ReadRaises
<1> QED
  BY <1>2, <1>3, <1>4, <1>5, <1>6, <1>8, <1>9, <1>10, <1>11, ChargeFits, RecordFits
     DEF Next, Authorizing, Proceeding, Record

(* A process that has the file to itself keeps every token to a budget of    *)
(* its own: what the audit log shows as allowed to a root, up to any ALLOW,  *)
(* fits into the budget of the token of that very call.                      *)
THEOREM OneProcessKeepsToBudgets ==
  ASSUME NEW solo, Procs = {solo}, PricedTools
  PROVE  Spec => []AllowsWithinBudget
<1> DEFINE Inv == SoloInv /\ AccountsInv /\ FitInv(solo)
<1>1. Init => Inv
  <2>1. Init => FitInv(solo)
    BY DEF Init, FitInv, Budgeted
  <2> QED
    BY <2>1, SoloInit, AccountsInit
<1>2. Inv /\ [Next]_vars => Inv'
  <2> SUFFICES ASSUME Inv, [Next]_vars PROVE Inv'
    OBVIOUS
  <2>1. SoloInv'
    BY SoloStep
  <2>2. AccountsInv'
    BY AccountsStep
  <2>3. AuditedAllowsAreCharged'
    BY <2>2 DEF AccountsInv
  <2>4. FitInv(solo)'
    BY <2>3, FitStep
  <2> QED
    BY <2>1, <2>2, <2>4
<1>3. Inv => AllowsWithinBudget
  BY AllFit DEF FitInv
<1> QED
  BY <1>1, <1>2, <1>3, PTL DEF Spec
=============================================================================
