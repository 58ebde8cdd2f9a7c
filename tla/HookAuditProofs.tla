--------------------------- MODULE HookAuditProofs ----------------------------
(****************************************************************************)
(* Theorems about HookAudit, for any number of hooks, calls, failed writes  *)
(* and kills.                                                               *)
(****************************************************************************)
EXTENDS HookAudit, SequenceTheorems, TLAPS

-----------------------------------------------------------------------------
(* The classifier and the file *)

LEMMA ClassifyType == ASSUME NEW call PROVE classify(call) \in Decisions
BY DEF classify, Decisions

LEMMA RowType ==
  ASSUME NEW fields \in AllFields, NEW prev \in Seq(AllFields)
  PROVE  Row(fields, prev) \in Rows
BY DEF Row, Rows, RowHash

(* The lines after a write: those there were, the last of them perhaps torn, *)
(* and at most one more.                                                     *)
Kept(new) ==
  /\ \A i \in DOMAIN file : i \in DOMAIN file' /\ file'[i] \in {file[i], Torn}
  /\ \A i \in DOMAIN file' \ DOMAIN file : i = Len(file) + 1 /\ file'[i] \in {new, Torn}
  /\ \A i \in DOMAIN file : i < Len(file) \/ ended => file'[i] = file[i]

Lines == Rows \cup {Torn}

LEMMA AppendedLine ==
  ASSUME TypeOK, NEW line \in Lines, NEW last \in Lines, last \in {line, Torn},
         file' = IF ended THEN Append(file, last) ELSE [file EXCEPT ![Len(file)] = Torn]
  PROVE  file' \in Seq(Lines) /\ file' # <<>> /\ Kept(line)
         /\ (ended => Len(file') = Len(file) + 1 /\ file'[Len(file) + 1] = last)
         /\ (~ended => Len(file') = Len(file) /\ file'[Len(file)] = Torn)
<1>1. file \in Seq(Lines) /\ Len(file) \in Nat /\ DOMAIN file = 1..Len(file)
  BY DEF TypeOK, Lines
<1>2. CASE ended
  <2>1. /\ file' \in Seq(Lines) /\ Len(file') = Len(file) + 1
        /\ \A i \in 1..Len(file) : file'[i] = file[i]
        /\ file'[Len(file) + 1] = last
    BY <1>1, <1>2
  <2> QED
    BY <1>1, <1>2, <2>1 DEF Kept
<1>3. CASE ~ended
  <2>1. Len(file) \in 1..Len(file) /\ Len(file) # 0
    BY <1>1, <1>3, EmptySeq DEF TypeOK
  <2>2. Torn \in Lines
    BY DEF Lines
  <2>3. /\ file' \in Seq(Lines) /\ Len(file') = Len(file)
        /\ \A i \in 1..Len(file) : file'[i] = IF i = Len(file) THEN Torn ELSE file[i]
    BY <1>1, <1>3, <2>1, <2>2, ExceptSeq
  <2>4. DOMAIN file' = 1..Len(file') /\ file' # <<>> /\ file'[Len(file)] = Torn
    <3>1. Len(file') # 0
      BY <2>1, <2>3
    <3>2. file'[Len(file)] = Torn
      BY <2>1, <2>3
    <3> QED
      BY <2>3, <3>1, <3>2, LenProperties, EmptySeq
  <2>5. Kept(line)
    BY <1>1, <1>3, <2>3, <2>4 DEF Kept
  <2> QED
    BY <1>3, <2>3, <2>4, <2>5
<1>4. ended \in BOOLEAN
  BY DEF TypeOK
<1> QED
  BY <1>2, <1>3, <1>4

(* What an append, whole or cut short, does to the file.                     *)
LEMMA Written ==
  ASSUME TypeOK, NEW line \in Rows, AppendLine(line) \/ AppendShort(line)
  PROVE  /\ file' \in Seq(Lines) /\ ended' \in BOOLEAN
         /\ ~ended' => file' # <<>>
         /\ Kept(line)
         /\ ended => \A i \in DOMAIN file : file'[i] = file[i]
         /\ ~ended => Len(file') = Len(file)
<1>1. line \in Lines /\ Torn \in Lines
  BY DEF Lines
<1>2. CASE AppendLine(line)
  BY <1>1, <1>2, AppendedLine DEF AppendLine, Kept
<1>3. CASE UNCHANGED <<file, ended>>
  BY <1>3 DEF TypeOK, Kept, Lines
<1>4. ASSUME NEW rest \in {line, Torn}, ended' = FALSE,
             file' = IF ended THEN Append(file, rest) ELSE [file EXCEPT ![Len(file)] = Torn]
      PROVE  /\ file' \in Seq(Lines) /\ file' # <<>> /\ Kept(line)
             /\ ~ended => Len(file') = Len(file)
  BY <1>1, <1>4, AppendedLine
<1> QED
  BY <1>2, <1>3, <1>4 DEF AppendShort, Kept

-----------------------------------------------------------------------------
(* Type correctness *)

LEMMA EmptyFrameType == EmptyFrame \in Frames
<1>1. <<>> \in Seq(AllFields) /\ 0 \in 0..MaxCalls
  BY HookAssumption, EmptySeq
<1> QED
  BY <1>1 DEF EmptyFrame, Frames

LEMMA InitType == Init => TypeOK
<1>1. <<>> \in Seq(Rows \cup {Torn}) /\ 0 \in 0..MaxCalls
  BY HookAssumption, EmptySeq
<1> QED
  BY <1>1, EmptyFrameType DEF Init, TypeOK

LEMMA LastType ==
  ASSUME TypeOK, Readable
  PROVE  LastHash \in Seq(AllFields)
<1>1. CASE file # <<>>
  <2>1. Len(file) \in 1..Len(file) /\ file \in Seq(Rows \cup {Torn})
    BY <1>1, EmptySeq DEF TypeOK
  <2>2. file[Len(file)] \in Rows
    BY <1>1, <2>1, ElementOfSeq DEF Readable, IsRow, Last
  <2> QED
    BY <1>1, <2>2 DEF LastHash, Last, Rows
<1> QED
  BY <1>1 DEF LastHash

LEMMA FieldsType ==
  ASSUME TypeOK, NEW p \in Procs, pc[p] = "append"
  PROVE  Fields(p) \in AllFields
BY DEF TypeOK, Fields, AllFields, Frames

LEMMA FrameType ==
  ASSUME TypeOK, NEW p \in Procs
  PROVE  /\ frame[p] \in Frames
         /\ pc[p] # "idle" => frame[p].call \in Calls /\ frame[p].n \in 1..MaxCalls
         /\ pc[p] \in {"read", "append", "print"} => frame[p].decision \in Decisions
BY DEF TypeOK

LEMMA StartType ==
  ASSUME TypeOK, NEW p \in Procs, NEW call \in Calls \cup {Unparsable}, Start(p, call)
  PROVE  TypeOK'
<1>1. calls' \in 1..MaxCalls
  BY HookAssumption DEF Start, TypeOK
<1>2. CASE call = Unparsable
  BY <1>1, <1>2, HookAssumption DEF Start, TypeOK, FailOpen
<1>3. CASE call # Unparsable
  <2>1. [EmptyFrame EXCEPT !.call = call, !.n = calls'] \in Frames
    <3>1. calls' \in 0..MaxCalls /\ call \in Calls
      BY <1>1, <1>3
    <3> QED
      BY <3>1, EmptyFrameType DEF Frames
  <2>2. /\ [EmptyFrame EXCEPT !.call = call, !.n = calls'].call = call
        /\ [EmptyFrame EXCEPT !.call = call, !.n = calls'].n = calls'
    BY DEF EmptyFrame
  <2>3. /\ frame' \in [Procs -> Frames]
        /\ frame'[p].call = call /\ frame'[p].n = calls' /\ pc'[p] = "classify"
        /\ \A q \in Procs \ {p} : frame'[q] = frame[q] /\ pc'[q] = pc[q]
    BY <1>3, <2>1, <2>2 DEF Start, FailOpen, TypeOK, Goto
  <2>4. pc' \in [Procs -> {"idle", "classify", "read", "append", "print"}] /\ overlapped' \in BOOLEAN
    BY <1>3 DEF Start, FailOpen, TypeOK, Goto, InAudit
  <2> QED
    BY <1>1, <1>3, <2>3, <2>4 DEF Start, TypeOK
<1> QED
  BY <1>2, <1>3

LEMMA LeaveType ==
  ASSUME TypeOK, NEW p \in Procs, Leave(p)
  PROVE  /\ pc' \in [Procs -> {"idle", "classify", "read", "append", "print"}]
         /\ frame' \in [Procs -> Frames] /\ overlapped' \in BOOLEAN
         /\ \A q \in Procs : pc'[q] # "idle" => q # p /\ pc'[q] = pc[q] /\ frame'[q] = frame[q]
BY EmptyFrameType DEF TypeOK, Leave, Goto, InAudit

LEMMA RunType ==
  ASSUME TypeOK, NEW p \in Procs, Classify(p) \/ ReadLast(p) \/ Respond(p) \/ Kill(p)
  PROVE  TypeOK'
<1>1. CASE Classify(p) /\ ~Leave(p)
  <2>1. classify(frame[p].call) \in Decisions /\ frame[p] \in Frames
    BY ClassifyType, FrameType
  <2>2. frame' = [frame EXCEPT ![p] = [@ EXCEPT !.decision = classify(frame[p].call)]]
    BY <1>1 DEF Classify
  <2>3. [frame[p] EXCEPT !.decision = classify(frame[p].call)] \in Frames
    BY <2>1 DEF Frames
  <2>4. frame' \in [Procs -> Frames]
    BY <2>2, <2>3 DEF TypeOK
  <2> QED
    BY <1>1, <2>1, <2>2, <2>4, FrameType DEF Classify, TypeOK, Goto, InAudit, Frames
<1>2. CASE ReadLast(p)
  <2>1. CASE Readable /\ frame' = [frame EXCEPT ![p].prev = LastHash] /\ Goto(p, "append")
    <3>1. frame' = [frame EXCEPT ![p] = [@ EXCEPT !.prev = LastHash]]
      BY <2>1
    <3>2. frame[p] \in Frames /\ [frame[p] EXCEPT !.prev = LastHash] \in Frames
      BY <2>1, LastType, FrameType DEF Frames
    <3>3. frame' \in [Procs -> Frames]
      BY <3>1, <3>2 DEF TypeOK
    <3> QED
      BY <1>2, <2>1, <3>1, <3>2, <3>3, FrameType DEF ReadLast, TypeOK, Goto, InAudit, Frames
  <2>2. CASE Swallow(p)
    BY <1>2, <2>2 DEF ReadLast, TypeOK, Swallow, Goto, InAudit, Frames
  <2> QED
    BY <1>2, <2>1, <2>2 DEF ReadLast
<1>3. CASE Leave(p) /\ Classify(p)
  BY <1>3, LeaveType DEF Classify, TypeOK
<1>4. CASE Respond(p)
  <2>1. answers' \subseteq [n : 1..MaxCalls, call : Calls, decision : Decisions]
    <3>1. [n |-> frame[p].n, call |-> frame[p].call, decision |-> frame[p].decision]
            \in [n : 1..MaxCalls, call : Calls, decision : Decisions]
      BY <1>4, FrameType DEF Respond
    <3> QED
      BY <1>4, <3>1 DEF Respond, TypeOK
  <2> QED
    BY <1>4, <2>1, LeaveType DEF Respond, TypeOK
<1>5. CASE Kill(p)
  <2>1. killed' \subseteq 1..MaxCalls
    BY <1>5 DEF Kill, TypeOK, Frames
  <2> QED
    BY <1>5, <2>1, LeaveType DEF Kill, TypeOK
<1> QED
  BY <1>1, <1>2, <1>3, <1>4, <1>5

LEMMA AppendWrites ==
  ASSUME TypeOK, NEW p \in Procs, AppendRow(p)
  PROVE  LET line == Row(Fields(p), frame[p].prev) IN
         /\ line \in Rows
         /\ AppendLine(line) \/ (AppendShort(line) /\ unwritten' = unwritten \cup {frame[p].n})
         /\ unwritten \subseteq unwritten'
         /\ Goto(p, "print") /\ UNCHANGED <<frame, answers, calls, killed>>
BY RowType, FieldsType DEF AppendRow, Swallow, TypeOK, Frames

LEMMA AppendType ==
  ASSUME TypeOK, NEW p \in Procs, AppendRow(p)
  PROVE  TypeOK'
<1>1. file' \in Seq(Lines) /\ ended' \in BOOLEAN /\ (~ended' => file' # <<>>)
  BY AppendWrites, Written
<1>2. unwritten' \subseteq 1..MaxCalls
  <2>1. frame[p].n \in 1..MaxCalls /\ unwritten \subseteq 1..MaxCalls
    BY FrameType DEF AppendRow, TypeOK
  <2> QED
    BY <2>1 DEF AppendRow
<1> QED
  BY <1>1, <1>2, AppendWrites DEF AppendRow, TypeOK, Goto, InAudit, Lines

LEMMA StepType == TypeOK /\ [Next]_vars => TypeOK'
<1> SUFFICES ASSUME TypeOK, [Next]_vars PROVE TypeOK'
  OBVIOUS
<1>1. CASE UNCHANGED vars
  BY <1>1 DEF vars, TypeOK
<1> QED
  BY <1>1, StartType, RunType, AppendType DEF Next, Running

(* The file, the hooks and their answers keep their types.                   *)
THEOREM TypeCorrect == Spec => []TypeOK
<1> QED
  BY InitType, StepType, PTL DEF Spec

-----------------------------------------------------------------------------
(* What the steps of a hook leave alone                                      *)

LEMMA GoesTo ==
  ASSUME TypeOK, NEW p \in Procs, NEW step, Goto(p, step)
  PROVE  /\ pc'[p] = step /\ \A q \in Procs \ {p} : pc'[q] = pc[q]
         /\ overlapped => overlapped'
         /\ step = "read" => overlapped' \/ \A q \in Procs \ {p} : ~InAudit(q)
BY DEF TypeOK, Goto

LEMMA Moves ==
  ASSUME TypeOK, NEW p \in Procs,
         Running(p) \/ Kill(p) \/ \E call \in Calls \cup {Unparsable} : Start(p, call)
  PROVE  /\ \A q \in Procs \ {p} : pc'[q] = pc[q] /\ frame'[q] = frame[q]
         /\ overlapped => overlapped'
         /\ pc'[p] = "read" => overlapped' \/ \A q \in Procs \ {p} : ~InAudit(q)
         /\ pc'[p] = "append" => pc[p] = "read" /\ Readable /\ frame'[p].prev = LastHash
         /\ pc'[p] = "print" => (AppendRow(p) \/ ~Readable) /\ frame'[p] = frame[p]
         /\ AppendRow(p) => pc'[p] = "print" /\ UNCHANGED answers
         /\ AppendRow(p) \/ UNCHANGED <<file, ended, unwritten>>
<1>1. ASSUME NEW call \in Calls \cup {Unparsable}, Start(p, call)
      PROVE  /\ \A q \in Procs \ {p} : pc'[q] = pc[q] /\ frame'[q] = frame[q]
             /\ overlapped => overlapped'
             /\ pc'[p] \in {"idle", "classify"}
             /\ UNCHANGED <<file, ended, unwritten>>
  BY <1>1 DEF Start, FailOpen, Goto, TypeOK
<1>2. CASE Classify(p)
  <2>1. CASE Leave(p)
    <3>1. pc[p] = "classify" /\ UNCHANGED <<file, ended, unwritten>>
      BY <1>2 DEF Classify
    <3>2. \A q \in Procs \ {p} : frame'[q] = frame[q]
      BY <2>1 DEF Leave, TypeOK
    <3> QED
      BY <2>1, <3>1, <3>2, GoesTo DEF Leave, AppendRow
  <2>2. CASE Goto(p, "read") /\ \A q \in Procs \ {p} : frame'[q] = frame[q]
    <3>1. pc[p] = "classify" /\ UNCHANGED <<file, ended, unwritten>>
      BY <1>2 DEF Classify
    <3> QED
      BY <2>2, <3>1, GoesTo DEF AppendRow
  <2> QED
    BY <1>2, <2>1, <2>2 DEF Classify, TypeOK
<1>3. CASE ReadLast(p)
  <2>0. pc[p] = "read" /\ UNCHANGED <<file, ended, unwritten>>
    BY <1>3 DEF ReadLast
  <2>1. CASE Readable /\ frame' = [frame EXCEPT ![p].prev = LastHash] /\ Goto(p, "append")
    <3>1. frame'[p].prev = LastHash /\ \A q \in Procs \ {p} : frame'[q] = frame[q]
      BY <2>1, FrameType DEF TypeOK, Frames
    <3> QED
      BY <2>0, <2>1, <3>1, GoesTo DEF AppendRow
  <2>2. CASE ~Readable /\ Swallow(p)
    BY <2>0, <2>2, GoesTo DEF Swallow, AppendRow
  <2> QED
    BY <1>3, <2>1, <2>2 DEF ReadLast
<1>4. CASE AppendRow(p)
  BY <1>4, AppendWrites, GoesTo
<1>5. CASE ~AppendRow(p) /\ (Respond(p) \/ Kill(p))
  <2>1. UNCHANGED <<file, ended, unwritten>> /\ Leave(p)
    BY <1>5 DEF Respond, Kill
  <2>2. \A q \in Procs \ {p} : frame'[q] = frame[q]
    BY <2>1 DEF Leave, TypeOK
  <2> QED
    BY <1>5, <2>1, <2>2, GoesTo DEF Leave
<1>6. AppendRow(p) => pc[p] = "append"
  BY DEF AppendRow
<1>7. ASSUME NEW call \in Calls \cup {Unparsable}, Start(p, call) PROVE pc[p] = "idle"
  BY <1>7 DEF Start
<1> QED
  BY <1>1, <1>2, <1>3, <1>4, <1>5, <1>6, <1>7 DEF Running

-----------------------------------------------------------------------------
(* The file only grows *)

LEMMA StepAppends ==
  ASSUME TypeOK, [Next]_vars
  PROVE  [\A i \in DOMAIN file :
            IsRow(file[i]) /\ (i < Len(file) \/ ended) =>
              i \in DOMAIN file' /\ file'[i] = file[i]]_vars
<1>1. CASE UNCHANGED file
  BY <1>1
<1>2. ASSUME NEW p \in Procs, AppendRow(p)
      PROVE  \A i \in DOMAIN file : i \in DOMAIN file' /\ (i < Len(file) \/ ended => file'[i] = file[i])
  BY <1>2, AppendWrites, Written DEF Kept
<1> QED
  BY <1>1, <1>2, Moves DEF Next, Running, vars

(* No hook, however it fails or is killed, takes a whole line of the audit   *)
(* file away or changes it (_audit() opens it to append).                    *)
THEOREM LogIsAppendOnly == Spec => AppendOnly
<1>1. TypeOK /\ [Next]_vars =>
        [\A i \in DOMAIN file :
           IsRow(file[i]) /\ (i < Len(file) \/ ended) =>
             i \in DOMAIN file' /\ file'[i] = file[i]]_vars
  BY StepAppends
<1> QED
  BY <1>1, TypeCorrect, PTL DEF Spec, AppendOnly

-----------------------------------------------------------------------------
(* The hash chain, with overlapping hooks and without *)

\* what p is about to chain its row to
Committed(p) ==
  pc[p] = "append" =>
    \/ frame[p].prev = <<>>
    \/ \E j \in DOMAIN file : IsRow(file[j]) => file[j].row_hash = frame[p].prev

TreeInv == TypeOK /\ AuditIsATree /\ \A p \in Procs : Committed(p)

LEMMA FileDomain == TypeOK => Len(file) \in Nat /\ DOMAIN file = 1..Len(file)
BY LenProperties DEF TypeOK

LEMMA ReadableLast ==
  ASSUME TypeOK, Readable
  PROVE  \/ file = <<>> /\ Len(file) = 0 /\ LastHash = <<>>
         \/ Len(file) \in DOMAIN file /\ IsRow(file[Len(file)]) /\ LastHash = file[Len(file)].row_hash
<1>1. CASE file = <<>>
  BY <1>1, EmptySeq DEF LastHash
<1>2. CASE file # <<>>
  <2>1. Len(file) # 0
    BY <1>2, EmptySeq DEF TypeOK
  <2> QED
    BY <1>2, <2>1, FileDomain DEF Readable, LastHash, Last
<1> QED
  BY <1>1, <1>2

LEMMA StepTree == TreeInv /\ [Next]_vars => TreeInv'
<1> SUFFICES ASSUME TreeInv, [Next]_vars PROVE AuditIsATree' /\ \A q \in Procs : Committed(q)'
  BY StepType DEF TreeInv
<1>1. CASE UNCHANGED vars
  BY <1>1 DEF TreeInv, AuditIsATree, Committed, vars
<1>2. ASSUME NEW p \in Procs, ~AppendRow(p),
             Running(p) \/ Kill(p) \/ \E call \in Calls \cup {Unparsable} : Start(p, call)
      PROVE  AuditIsATree' /\ \A q \in Procs : Committed(q)'
  <2>1. UNCHANGED file
    BY <1>2, Moves DEF TreeInv
  <2>2. pc'[p] = "append" => Readable /\ frame'[p].prev = LastHash
    BY <1>2, Moves DEF TreeInv
  <2>3. Committed(p)'
    BY <2>1, <2>2, ReadableLast DEF TreeInv, Committed
  <2>4. ASSUME NEW q \in Procs \ {p} PROVE Committed(q)'
    BY <1>2, <2>1, Moves DEF TreeInv, Committed
  <2> QED
    BY <2>1, <2>3, <2>4 DEF TreeInv, AuditIsATree
<1>3. ASSUME NEW p \in Procs, AppendRow(p) PROVE AuditIsATree' /\ \A q \in Procs : Committed(q)'
  <2> DEFINE line == Row(Fields(p), frame[p].prev)
  <2>1. Kept(line) /\ Len(file) \in Nat /\ DOMAIN file = 1..Len(file)
    BY <1>3, AppendWrites, Written, FileDomain DEF TreeInv
  <2>2. TypeOK' /\ DOMAIN file' = 1..Len(file') /\ Len(file') \in Nat
    BY StepType, FileDomain, <1>3, AppendType DEF TreeInv, TypeOK, FileDomain
  <2>3. line.row_hash = Append(line.prev_hash, line.fields) /\ line.prev_hash = frame[p].prev
    BY DEF Row, RowHash
  <2>4. pc[p] = "append"
    BY <1>3 DEF AppendRow
  <2>5. ASSUME NEW i \in DOMAIN file', IsRow(file'[i])
        PROVE  /\ file'[i].row_hash = Append(file'[i].prev_hash, file'[i].fields)
               /\ \/ file'[i].prev_hash = <<>>
                  \/ \E j \in 1..(i - 1) : IsRow(file'[j]) => file'[j].row_hash = file'[i].prev_hash
    <3>1. CASE i \in DOMAIN file
      <4>1. file'[i] = file[i] /\ IsRow(file[i])
        BY <2>1, <2>5, <3>1 DEF Kept, IsRow
      <4>2. \A j \in 1..(i - 1) : j \in DOMAIN file /\ file'[j] \in {file[j], Torn}
        BY <2>1, <3>1 DEF Kept
      <4> QED
        BY <3>1, <4>1, <4>2 DEF TreeInv, AuditIsATree, IsRow
    <3>2. CASE i \notin DOMAIN file
      <4>1. i = Len(file) + 1 /\ file'[i] = line
        BY <2>1, <2>5, <3>2 DEF Kept, IsRow
      <4>2. \A j \in 1..(i - 1) : j \in DOMAIN file /\ file'[j] \in {file[j], Torn}
        BY <2>1, <4>1 DEF Kept
      <4>3. \/ frame[p].prev = <<>>
            \/ \E j \in DOMAIN file : IsRow(file[j]) => file[j].row_hash = frame[p].prev
        BY <2>4 DEF TreeInv, Committed
      <4>4. DOMAIN file = 1..(i - 1)
        BY <2>1, <4>1
      <4> HIDE DEF line
      <4> QED
        BY <2>3, <4>1, <4>2, <4>3, <4>4 DEF IsRow
    <3> QED
      BY <3>1, <3>2
  <2>6. ASSUME NEW q \in Procs PROVE Committed(q)'
    <3>1. CASE q = p
      BY <1>3, <3>1, Moves DEF TreeInv, Running, Committed
    <3>2. CASE q # p
      <4>1. pc'[q] = pc[q] /\ frame'[q] = frame[q]
        BY <1>3, <3>2, Moves DEF TreeInv, Running
      <4>2. \A j \in DOMAIN file : j \in DOMAIN file' /\ file'[j] \in {file[j], Torn}
        BY <2>1 DEF Kept
      <4> QED
        BY <4>1, <4>2 DEF TreeInv, Committed, IsRow
    <3> QED
      BY <3>1, <3>2
  <2> QED
    BY <2>5, <2>6 DEF AuditIsATree
<1> QED
  BY <1>1, <1>2, <1>3 DEF Next, Running

(* Whatever the hooks' overlap and failures, the audit file is a tree: each  *)
(* row commits to an earlier one and to all before that.                     *)
THEOREM AuditIsTree == Spec => []AuditIsATree
<1>1. Init => TreeInv
  BY InitType DEF Init, TreeInv, AuditIsATree, Committed
<1>2. TreeInv => AuditIsATree
  BY DEF TreeInv
<1> QED
  BY <1>1, <1>2, StepTree, PTL DEF Spec

-----------------------------------------------------------------------------
(* Without overlap *)

ChainInv ==
  /\ TypeOK /\ ChainUnlessOverlapped
  /\ ~overlapped =>
       /\ \A p, q \in Procs : InAudit(p) /\ InAudit(q) => p = q
       /\ \A i \in DOMAIN file : i < Len(file) => IsRow(file[i])
       /\ \A p \in Procs : pc[p] = "append" => Readable /\ frame[p].prev = LastHash

LEMMA QuietChain ==
  ASSUME ChainInv, ~overlapped', NEW p \in Procs, ~AppendRow(p),
         Running(p) \/ Kill(p) \/ \E call \in Calls \cup {Unparsable} : Start(p, call)
  PROVE  ChainInv'
<1>1. TypeOK' /\ ~overlapped
  BY StepType, Moves DEF ChainInv, Next
<1>2. UNCHANGED file
  BY Moves DEF ChainInv
<1>3. ASSUME NEW q \in Procs, NEW r \in Procs, InAudit(q)', InAudit(r)' PROVE q = r
  <2>1. ASSUME NEW x \in Procs \ {p}, InAudit(x)', InAudit(p)' PROVE FALSE
    <3>1. InAudit(x)
      BY <2>1, Moves DEF ChainInv, InAudit
    <3>2. pc'[p] = "read" => FALSE
      BY <2>1, <3>1, Moves DEF ChainInv
    <3>3. pc'[p] = "append" => InAudit(p)
      BY Moves DEF ChainInv, InAudit
    <3> QED
      BY <1>1, <2>1, <3>1, <3>2, <3>3 DEF ChainInv, InAudit
  <2>2. CASE q # p /\ r # p
    BY <1>1, <1>3, <2>2, Moves DEF ChainInv, InAudit
  <2> QED
    BY <1>3, <2>1, <2>2
<1>4. ASSUME NEW q \in Procs, pc'[q] = "append" PROVE (Readable /\ frame[q].prev = LastHash)'
  <2>1. Readable /\ frame'[q].prev = LastHash
    BY <1>1, <1>4, Moves DEF ChainInv
  <2> QED
    BY <1>2, <2>1 DEF Readable, LastHash
<1> QED
  BY <1>1, <1>2, <1>3, <1>4 DEF ChainInv, ChainUnlessOverlapped

LEMMA AppendKeepsChain ==
  ASSUME ChainInv, ~overlapped', NEW p \in Procs, AppendRow(p)
  PROVE  ChainInv'
<1> DEFINE line == Row(Fields(p), frame[p].prev)
<1>1. ~overlapped /\ TypeOK' /\ TypeOK
  BY AppendType, Moves DEF ChainInv, Running
<1>2. /\ Kept(line)
      /\ ended => \A i \in DOMAIN file : file'[i] = file[i]
      /\ ~ended => Len(file') = Len(file)
  BY <1>1, AppendWrites, Written
<1>3. /\ Len(file) \in Nat /\ DOMAIN file = 1..Len(file)
      /\ Len(file') \in Nat /\ DOMAIN file' = 1..Len(file')
  BY <1>1, LenProperties DEF TypeOK
<1>4. pc[p] = "append" /\ InAudit(p) /\ Readable /\ line.prev_hash = LastHash
  BY <1>1 DEF AppendRow, InAudit, ChainInv, Row
<1>5. \A i \in DOMAIN file : IsRow(file[i])
  BY <1>1, <1>3, <1>4, ReadableLast DEF ChainInv
<1>6. \A i \in DOMAIN file' : i < Len(file') => i \in DOMAIN file /\ file'[i] = file[i]
  <2>1. Len(file') <= Len(file) + 1
    <3>1. Len(file') \in DOMAIN file' \ DOMAIN file => Len(file') = Len(file) + 1
      BY <1>2 DEF Kept
    <3>2. Len(file') > Len(file) => Len(file') \in DOMAIN file' \ DOMAIN file
      BY <1>3
    <3>3. Len(file') > Len(file) => Len(file') = Len(file) + 1
      BY <3>1, <3>2
    <3>4. Len(file) \in Nat /\ Len(file') \in Nat
      BY <1>3
    <3> QED
      BY <3>3, <3>4
  <2>2. \A i \in DOMAIN file : i < Len(file') => file'[i] = file[i]
    BY <1>2, <1>3 DEF Kept
  <2> QED
    BY <1>3, <2>1, <2>2
<1>7. \A q \in Procs : ~InAudit(q)'
  <2>1. \A q \in Procs \ {p} : ~InAudit(q) /\ pc'[q] = pc[q]
    BY <1>1, <1>4, Moves DEF ChainInv, Running
  <2>2. pc'[p] = "print"
    BY <1>1, Moves DEF Running
  <2> QED
    BY <2>1, <2>2 DEF InAudit
<1>8. ASSUME NEW i \in DOMAIN file', IsRow(file'[i])
      PROVE  file'[i].prev_hash = IF i = 1 THEN <<>> ELSE file'[i - 1].row_hash
  <2>1. i # 1 => i - 1 \in DOMAIN file /\ file'[i - 1] = file[i - 1]
    BY <1>3, <1>6
  <2>2. CASE i \in DOMAIN file
    <3>1. file'[i] = file[i]
      BY <1>2, <1>8, <2>2 DEF Kept, IsRow
    <3> QED
      BY <1>1, <1>5, <2>1, <2>2, <3>1 DEF ChainInv, ChainUnlessOverlapped
  <2>3. CASE i \notin DOMAIN file
    <3>1. i = Len(file) + 1 /\ file'[i] = line
      BY <1>2, <1>8, <2>3 DEF Kept, IsRow
    <3> HIDE DEF line
    <3> QED
      BY <1>1, <1>3, <1>4, <2>1, <3>1, ReadableLast
  <2> QED
    BY <2>2, <2>3
<1> QED
  BY <1>1, <1>5, <1>6, <1>7, <1>8 DEF ChainInv, ChainUnlessOverlapped, InAudit

LEMMA StepChain == ChainInv /\ [Next]_vars => ChainInv'
<1> SUFFICES ASSUME ChainInv, [Next]_vars PROVE ChainInv'
  OBVIOUS
<1>1. CASE UNCHANGED vars
  BY <1>1 DEF ChainInv, TypeOK, ChainUnlessOverlapped, InAudit, Readable, LastHash, vars
<1>2. CASE overlapped'
  BY <1>2, StepType DEF ChainInv, ChainUnlessOverlapped
<1> QED
  BY <1>1, <1>2, QuietChain, AppendKeepsChain DEF Next

(* As long as no two hooks were within _audit() together, the audit file is  *)
(* one hash chain, whatever was torn and whoever was killed.                 *)
THEOREM ChainWithoutOverlap == Spec => []ChainUnlessOverlapped
<1>1. Init => ChainInv
  BY InitType, EmptySeq DEF Init, ChainInv, ChainUnlessOverlapped, InAudit
<1>2. ChainInv => ChainUnlessOverlapped
  BY DEF ChainInv
<1> QED
  BY <1>1, <1>2, StepChain, PTL DEF Spec

-----------------------------------------------------------------------------
(* What is missing from the file *)

AllRows == \A i \in DOMAIN file : IsRow(file[i])

SilenceInv ==
  /\ TypeOK /\ OnlyATornLineSilences
  /\ AllRows => \A p \in Procs : pc[p] = "print" => Audited(frame[p].n) \/ frame[p].n \in unwritten

LEMMA AppendKeepsSilence ==
  ASSUME SilenceInv, NEW p \in Procs, AppendRow(p), AllRows'
  PROVE  /\ AllRows /\ \A n : Audited(n) => Audited(n)'
         /\ Audited(frame[p].n)' \/ frame[p].n \in unwritten'
         /\ unwritten \subseteq unwritten' /\ UNCHANGED <<frame, answers>>
<1> DEFINE line == Row(Fields(p), frame[p].prev)
<1>1. TypeOK /\ line \in Rows /\ Kept(line)
  BY AppendWrites, Written DEF SilenceInv
<1>2. \A i \in DOMAIN file : i \in DOMAIN file' /\ file'[i] = file[i] /\ IsRow(file[i])
  BY <1>1 DEF Kept, AllRows, IsRow
<1>3. AllRows /\ \A n : Audited(n) => Audited(n)'
  BY <1>2 DEF AllRows, Audited
<1>4. ASSUME AppendLine(line) PROVE Audited(frame[p].n)'
  <2>1. /\ file' = IF ended THEN Append(file, line) ELSE [file EXCEPT ![Len(file)] = Torn]
        /\ line \in Lines
    BY <1>1, <1>4 DEF AppendLine, Lines
  <2>2. /\ ended => Len(file') = Len(file) + 1 /\ file'[Len(file) + 1] = line
        /\ ~ended => Len(file') = Len(file) /\ file'[Len(file)] = Torn
        /\ file' \in Seq(Lines) /\ file' # <<>>
    BY <1>1, <2>1, AppendedLine
  <2>3. Len(file') \in DOMAIN file' /\ Len(file) \in Nat
    BY <1>1, <2>2, EmptySeq, LenProperties DEF TypeOK
  <2>4. ended
    BY <2>2, <2>3 DEF AllRows, IsRow
  <2>5. line.fields.n = frame[p].n
    BY DEF Row, Fields
  <2>6. UNCHANGED frame
    BY <1>1, AppendWrites
  <2> HIDE DEF line
  <2>7. file'[Len(file')] = line /\ IsRow(file'[Len(file')])
    BY <2>2, <2>3, <2>4 DEF AllRows
  <2> QED
    BY <2>3, <2>5, <2>6, <2>7 DEF Audited
<1> QED
  BY <1>1, <1>3, <1>4, AppendWrites

LEMMA StepSilence == SilenceInv /\ [Next]_vars => SilenceInv'
<1> SUFFICES ASSUME SilenceInv, [Next]_vars, AllRows'
             PROVE  /\ \A a \in answers' : Audited(a.n)' \/ a.n \in unwritten'
                    /\ \A q \in Procs : pc'[q] = "print" => (Audited(frame[q].n) \/ frame[q].n \in unwritten)'
  BY StepType DEF SilenceInv, OnlyATornLineSilences, AllRows
<1>1. CASE UNCHANGED vars
  BY <1>1 DEF SilenceInv, OnlyATornLineSilences, AllRows, Audited, vars
<1>2. ASSUME NEW p \in Procs, AppendRow(p)
      PROVE  /\ \A a \in answers' : Audited(a.n)' \/ a.n \in unwritten'
             /\ \A q \in Procs : pc'[q] = "print" => (Audited(frame[q].n) \/ frame[q].n \in unwritten)'
  <2>1. /\ AllRows /\ \A n : Audited(n) => Audited(n)'
        /\ Audited(frame[p].n)' \/ frame[p].n \in unwritten'
        /\ unwritten \subseteq unwritten' /\ UNCHANGED <<frame, answers>>
    BY <1>2, AppendKeepsSilence
  <2>2. \A q \in Procs \ {p} : pc'[q] = pc[q]
    BY <1>2, Moves DEF SilenceInv, Running
  <2> QED
    BY <2>1, <2>2 DEF SilenceInv, OnlyATornLineSilences, AllRows
<1>3. ASSUME NEW p \in Procs, ~AppendRow(p),
             Running(p) \/ Kill(p) \/ \E call \in Calls \cup {Unparsable} : Start(p, call)
      PROVE  /\ \A a \in answers' : Audited(a.n)' \/ a.n \in unwritten'
             /\ \A q \in Procs : pc'[q] = "print" => (Audited(frame[q].n) \/ frame[q].n \in unwritten)'
  <2>1. UNCHANGED <<file, unwritten>> /\ AllRows /\ \A n : Audited(n) <=> Audited(n)'
    BY <1>3, Moves DEF SilenceInv, AllRows, Audited
  <2>2. Readable
    <3>1. CASE file = <<>>
      BY <3>1 DEF Readable
    <3>2. CASE file # <<>>
      <4>1. Len(file) \in DOMAIN file
        BY <3>2, EmptySeq, LenProperties DEF SilenceInv, TypeOK
      <4> QED
        BY <2>1, <4>1 DEF AllRows, Readable, Last
    <3> QED
      BY <3>1, <3>2
  <2>3. pc'[p] # "print" /\ \A q \in Procs \ {p} : pc'[q] = pc[q] /\ frame'[q] = frame[q]
    BY <1>3, <2>2, Moves DEF SilenceInv
  <2>4. ASSUME NEW a \in answers' \ answers PROVE a.n = frame[p].n /\ pc[p] = "print"
    <3>1. CASE Respond(p)
      BY <2>4, <3>1 DEF Respond
    <3>2. CASE ~Respond(p)
      <4>1. answers' = answers
        BY <1>3, <3>2 DEF Running, Start, Classify, ReadLast, Kill
      <4> QED
        BY <2>4, <4>1
    <3> QED
      BY <3>1, <3>2
  <2> QED
    BY <2>1, <2>3, <2>4 DEF SilenceInv, OnlyATornLineSilences, AllRows
<1> QED
  BY <1>1, <1>2, <1>3 DEF Next, Running

(* A decision that was printed is missing from a file of whole lines only    *)
(* when its own write failed: neither a kill nor another hook's append loses *)
(* it.                                                                       *)
THEOREM SilenceHasATornLine == Spec => []OnlyATornLineSilences
<1>1. Init => SilenceInv
  BY InitType DEF Init, SilenceInv, OnlyATornLineSilences
<1>2. SilenceInv => OnlyATornLineSilences
  BY DEF SilenceInv
<1> QED
  BY <1>1, <1>2, StepSilence, PTL DEF Spec

-----------------------------------------------------------------------------
(* Chained commands *)

LEMMA WorstSegment ==
  ASSUME NEW call \in Calls, NEW i \in DOMAIN call.segments
  PROVE  Severity(classify([call EXCEPT !.segments = <<call.segments[i]>>])) <= Severity(classify(call))
<1> DEFINE alone == [call EXCEPT !.segments = <<call.segments[i]>>]
<1>1. alone.tool = call.tool /\ alone.segments = <<call.segments[i]>>
  BY HookAssumption
<1>2. ASSUME NEW list, SomeSegment(alone, list) PROVE SomeSegment(call, list)
  BY <1>1, <1>2 DEF SomeSegment
<1> HIDE DEF alone
<1>3. classify(alone) = "allow" \/ classify(call) = "deny" \/ classify(alone) = classify(call)
  BY <1>1, <1>2 DEF classify
<1>4. classify(alone) \in Decisions /\ classify(call) \in Decisions
  BY ClassifyType
<1>5. Severity(classify(alone)) <= Severity(classify(call))
  BY <1>3, <1>4 DEF Severity, Decisions
<1> QED
  BY <1>5 DEF alone

DecidedInv ==
  /\ TypeOK
  /\ \A a \in answers : a.decision = classify(a.call)
  /\ \A p \in Procs : pc[p] \in {"read", "append", "print"} => frame[p].decision = classify(frame[p].call)

LEMMA StepDecided == DecidedInv /\ [Next]_vars => DecidedInv'
<1> SUFFICES ASSUME DecidedInv, [Next]_vars PROVE DecidedInv'
  OBVIOUS
<1>1. TypeOK /\ TypeOK'
  BY StepType DEF DecidedInv
<1>2. CASE UNCHANGED vars
  BY <1>1, <1>2 DEF DecidedInv, vars
<1>3. ASSUME NEW p \in Procs,
             Running(p) \/ Kill(p) \/ \E call \in Calls \cup {Unparsable} : Start(p, call)
      PROVE  /\ \A q \in Procs \ {p} : pc'[q] = pc[q] /\ frame'[q] = frame[q]
             /\ pc'[p] \in {"read", "append", "print"} => frame'[p].decision = classify(frame'[p].call)
             /\ \A a \in answers' : a.decision = classify(a.call)
  <2>1. \A q \in Procs \ {p} : pc'[q] = pc[q] /\ frame'[q] = frame[q]
    BY <1>1, <1>3, Moves
  <2>2. frame[p] \in Frames
    BY <1>1, FrameType
  <2>3. CASE \E call \in Calls \cup {Unparsable} : Start(p, call)
    <3>1. pc'[p] \in {"idle", "classify"} /\ UNCHANGED answers
      BY <1>1, <2>3 DEF Start, FailOpen, Goto, TypeOK
    <3> QED
      BY <2>1, <3>1 DEF DecidedInv
  <2>4. CASE Classify(p) /\ ~Leave(p)
    <3>1. frame'[p] = [frame[p] EXCEPT !.decision = classify(frame[p].call)] /\ UNCHANGED answers
      BY <1>1, <2>4 DEF Classify, TypeOK
    <3>2. frame'[p].decision = classify(frame[p].call) /\ frame'[p].call = frame[p].call
      BY <2>2, <3>1 DEF Frames
    <3> QED
      BY <2>1, <3>1, <3>2 DEF DecidedInv
  <2>5. CASE ReadLast(p)
    <3>1. /\ pc[p] = "read" /\ UNCHANGED answers
          /\ frame'[p] \in {frame[p], [frame[p] EXCEPT !.prev = LastHash]}
      BY <1>1, <2>5 DEF ReadLast, Swallow, TypeOK
    <3>2. frame'[p].decision = frame[p].decision /\ frame'[p].call = frame[p].call
      BY <2>2, <3>1 DEF Frames
    <3> QED
      BY <2>1, <3>1, <3>2 DEF DecidedInv
  <2>6. CASE AppendRow(p)
    <3>1. pc[p] = "append" /\ UNCHANGED <<frame, answers>>
      BY <1>1, <2>6, AppendWrites DEF AppendRow
    <3> QED
      BY <2>1, <3>1 DEF DecidedInv
  <2>7. CASE Respond(p)
    <3>1. pc[p] = "print" /\ pc'[p] = "idle"
      BY <1>1, <2>7 DEF Respond, Leave, Goto, TypeOK
    <3>2. answers' = answers \cup {[n |-> frame[p].n, call |-> frame[p].call, decision |-> frame[p].decision]}
      BY <2>7 DEF Respond
    <3> QED
      BY <2>1, <3>1, <3>2 DEF DecidedInv
  <2>8. CASE Leave(p) /\ UNCHANGED answers
    <3>1. pc'[p] = "idle"
      BY <1>1, <2>8 DEF Leave, Goto, TypeOK
    <3> QED
      BY <2>1, <2>8, <3>1 DEF DecidedInv
  <2> QED
    BY <1>3, <2>3, <2>4, <2>5, <2>6, <2>7, <2>8 DEF Running, Classify, Kill
<1>4. ASSUME NEW p \in Procs,
             Running(p) \/ Kill(p) \/ \E call \in Calls \cup {Unparsable} : Start(p, call)
      PROVE  DecidedInv'
  BY <1>1, <1>3, <1>4 DEF DecidedInv
<1> QED
  BY <1>2, <1>4 DEF Next

(* No segment of a chained command is judged more harshly on its own than    *)
(* the command was, for any number of segments in any order.                 *)
THEOREM SegmentsAreCounted == Spec => []ChainingHidesNothing
<1>1. Init => DecidedInv
  BY InitType DEF Init, DecidedInv
<1>2. DecidedInv => ChainingHidesNothing
  <2> SUFFICES ASSUME DecidedInv, NEW a \in answers, NEW i \in DOMAIN a.call.segments
               PROVE  Severity(classify([a.call EXCEPT !.segments = <<a.call.segments[i]>>]))
                        <= Severity(a.decision)
    BY DEF ChainingHidesNothing
  <2>1. a.call \in Calls /\ a.decision = classify(a.call)
    BY DEF DecidedInv, TypeOK
  <2> QED
    BY <2>1, WorstSegment
<1> QED
  BY <1>1, <1>2, StepDecided, PTL DEF Spec
=============================================================================
