------------------------------ MODULE HookAudit -------------------------------
(****************************************************************************)
(* hooks/pretooluse_gate.py: the classifier that decides on a tool call and *)
(* the audit file it is recorded in.                                        *)
(*                                                                          *)
(* Each tool call starts a process of its own, and the processes of several *)
(* sessions append to one file: _audit() reads the last line, and later     *)
(* appends a line that commits to it.  A line is one write(); when that is  *)
(* cut short (the disk is full) it writes nothing, a part of the line, or   *)
(* all of it but its end, and the next write is glued to what it left.      *)
(* Whatever raises in _audit() is swallowed, and the decision is printed    *)
(* all the same.  A process may be killed at any point.                     *)
(* A name with an underscore is a wrong form of the definition that follows *)
(* it, which the mutation runs put in its place.                            *)
(****************************************************************************)
EXTENDS Naturals, FiniteSets, Sequences, SequencesExt

CONSTANTS
  Procs,      \* the hook processes that may run at a time
  Calls,      \* the payloads: the tool, the segments of its command, and
              \* whether tool_input is a mapping; or Unparsable
  Unparsable, Torn, None,
  MaxCalls, MaxFailures, MaxKills   \* bounds of the model

ASSUME HookAssumption ==
  /\ Unparsable \notin Calls
  /\ Calls \subseteq [tool : STRING, segments : Seq(SUBSET {"deny", "ask"}), mapping : BOOLEAN]
  /\ MaxCalls \in Nat /\ MaxFailures \in Nat /\ MaxKills \in Nat

VARIABLES
  file,       \* the lines of the audit file: rows, and Torn
  ended,      \* does the last line end?
  pc,         \* [Procs -> where main() is]
  frame,      \* [Procs -> its local variables]
  answers,    \* history: the decisions printed, each with the number of its call
  overlapped, \* history: have two processes ever been within _audit() at a time?
  calls,      \* history: how many calls there were
  unwritten,  \* history: the calls whose line was cut short
  killed      \* history: the calls whose hook was killed

vars == <<file, ended, pc, frame, answers, overlapped, calls, unwritten, killed>>

-----------------------------------------------------------------------------
(* classify().  Of a command the pattern lists that each of its segments     *)
(* matches are kept.                                                         *)

READ_ONLY_TOOLS == {"Read", "Grep"}
REVERSIBLE_TOOLS == {"Write", "Edit"}

SomeSegment_first(call, list) == call.segments # <<>> /\ list \in Head(call.segments)
SomeSegment(call, list) == \E i \in DOMAIN call.segments : list \in call.segments[i]

classify(call) ==
  CASE call.tool \in READ_ONLY_TOOLS \cup REVERSIBLE_TOOLS -> "allow"
    [] call.tool = "Bash" /\ SomeSegment(call, "deny") -> "deny"
    [] call.tool = "Bash" /\ SomeSegment(call, "ask") /\ ~SomeSegment(call, "deny") -> "ask"
    [] OTHER -> "allow"

-----------------------------------------------------------------------------
(* The file *)

IsRow(line) == line # Torn

RowHash_unchained(fields, prev) == <<fields>>
RowHash(fields, prev) == Append(prev, fields)

Row(fields, prev) == [fields |-> fields, prev_hash |-> prev, row_hash |-> RowHash(fields, prev)]

\* an absent file takes the path of an unreadable one
Readable_created == file # <<>> /\ IsRow(Last(file))
Readable == file # <<>> => IsRow(Last(file))

LastHash_first == IF file = <<>> THEN <<>> ELSE IF IsRow(Head(file)) THEN Head(file).row_hash ELSE <<>>
LastHash == IF file = <<>> THEN <<>> ELSE Last(file).row_hash

\* the file opened for writing instead of appending
AppendLine_truncating(line) == file' = <<line>> /\ ended' = TRUE
AppendLine(line) ==
  /\ file' = IF ended THEN Append(file, line) ELSE [file EXCEPT ![Len(file)] = Torn]
  /\ ended' = TRUE

AppendShort(line) ==
  \/ UNCHANGED <<file, ended>>
  \/ \E rest \in {line, Torn} :
       /\ file' = IF ended THEN Append(file, rest) ELSE [file EXCEPT ![Len(file)] = Torn]
       /\ ended' = FALSE

-----------------------------------------------------------------------------
(* main() *)

EmptyFrame == [call |-> None, n |-> 0, decision |-> "", prev |-> <<>>]

Init ==
  /\ file = <<>> /\ ended = TRUE
  /\ pc = [p \in Procs |-> "idle"] /\ frame = [p \in Procs |-> EmptyFrame]
  /\ answers = {} /\ overlapped = FALSE
  /\ calls = 0 /\ unwritten = {} /\ killed = {}

InAudit(p) == pc[p] \in {"read", "append"}

Goto(p, step) ==
  /\ pc' = [pc EXCEPT ![p] = step]
  /\ overlapped' = (overlapped \/ (step = "read" /\ \E q \in Procs \ {p} : InAudit(q)))

Leave(p) == Goto(p, "idle") /\ frame' = [frame EXCEPT ![p] = EmptyFrame]

(* A payload that does not parse: exit 0, no decision, no audit. *)
FailOpen(p) == UNCHANGED <<pc, frame, overlapped>>

Start(p, call) ==
  /\ pc[p] = "idle" /\ calls < MaxCalls
  /\ calls' = calls + 1
  /\ \/ call = Unparsable /\ FailOpen(p)
     \/ /\ call # Unparsable
        /\ frame' = [frame EXCEPT ![p] = [EmptyFrame EXCEPT !.call = call, !.n = calls']]
        /\ Goto(p, "classify")
  /\ UNCHANGED <<file, ended, answers, unwritten, killed>>

(* Listing the items of a tool_input that has none raises out of main(): the *)
(* process ends there, with nothing audited and nothing printed.             *)
Classify(p) ==
  /\ pc[p] = "classify"
  /\ \/ /\ frame[p].call.mapping
        /\ frame' = [frame EXCEPT ![p].decision = classify(frame[p].call)]
        /\ Goto(p, "read")
     \/ ~frame[p].call.mapping /\ Leave(p)
  /\ UNCHANGED <<file, ended, answers, calls, unwritten, killed>>

\* the exception leaves main()
Swallow_not(p) == Leave(p)
Swallow(p) == Goto(p, "print") /\ UNCHANGED frame

(* json.loads() of a torn line raises. *)
ReadLast(p) ==
  /\ pc[p] = "read"
  /\ \/ Readable /\ frame' = [frame EXCEPT ![p].prev = LastHash] /\ Goto(p, "append")
     \/ ~Readable /\ Swallow(p)
  /\ UNCHANGED <<file, ended, answers, calls, unwritten, killed>>

Fields(p) == [n |-> frame[p].n, tool |-> frame[p].call.tool, decision |-> frame[p].decision]

AppendRow(p) ==
  /\ pc[p] = "append"
  /\ LET line == Row(Fields(p), frame[p].prev)
     IN \/ AppendLine(line) /\ Goto(p, "print") /\ UNCHANGED <<frame, unwritten>>
        \/ /\ Cardinality(unwritten) < MaxFailures
           /\ AppendShort(line) /\ Swallow(p)
           /\ unwritten' = unwritten \cup {frame[p].n}
  /\ UNCHANGED <<answers, calls, killed>>

Respond(p) ==
  /\ pc[p] = "print"
  /\ answers' = answers \cup {[n |-> frame[p].n, call |-> frame[p].call, decision |-> frame[p].decision]}
  /\ Leave(p)
  /\ UNCHANGED <<file, ended, calls, unwritten, killed>>

Kill(p) ==
  /\ pc[p] # "idle" /\ Cardinality(killed) < MaxKills
  /\ killed' = killed \cup {frame[p].n}
  /\ Leave(p)
  /\ UNCHANGED <<file, ended, answers, calls, unwritten>>

Running(p) == Classify(p) \/ ReadLast(p) \/ AppendRow(p) \/ Respond(p)

Next ==
  \E p \in Procs :
    \/ \E call \in Calls \cup {Unparsable} : Start(p, call)
    \/ Running(p) \/ Kill(p)

Spec == Init /\ [][Next]_vars

(* A started process runs to its end. *)
FairSpec == Spec /\ \A p \in Procs : WF_vars(Running(p))

-----------------------------------------------------------------------------
(* Properties *)

Decisions == {"allow", "ask", "deny"}
AllFields == [n : 1..MaxCalls, tool : {c.tool : c \in Calls}, decision : Decisions]
Rows == [fields : AllFields, prev_hash : Seq(AllFields), row_hash : Seq(AllFields)]
Frames == [call : Calls \cup {None}, n : 0..MaxCalls, decision : Decisions \cup {""}, prev : Seq(AllFields)]

(* The file, the running hooks and their answers have their types; a hook    *)
(* has a call, and past its classifier a decision.                           *)
TypeOK ==
  /\ file \in Seq(Rows \cup {Torn}) /\ ended \in BOOLEAN
  /\ pc \in [Procs -> {"idle", "classify", "read", "append", "print"}]
  /\ frame \in [Procs -> Frames]
  /\ answers \subseteq [n : 1..MaxCalls, call : Calls, decision : Decisions]
  /\ overlapped \in BOOLEAN /\ calls \in 0..MaxCalls
  /\ unwritten \subseteq 1..MaxCalls /\ killed \subseteq 1..MaxCalls
  /\ \A p \in Procs : pc[p] # "idle" => frame[p].call \in Calls /\ frame[p].n \in 1..MaxCalls
  /\ \A p \in Procs : pc[p] \in {"read", "append", "print"} => frame[p].decision \in Decisions
  /\ ~ended => file # <<>>

(* The log is append-only: whatever hooks run, are killed or fail to write,  *)
(* a row whose line has ended stays in the file, in its place.               *)
AppendOnly ==
  [][\A i \in DOMAIN file :
       IsRow(file[i]) /\ (i < Len(file) \/ ended) =>
         i \in DOMAIN file' /\ file'[i] = file[i]]_vars

(* The hash chain under concurrent hooks: every row commits to some earlier  *)
(* row of the file and to all that row commits to, or it is the first, or    *)
(* what it commits to may be the line torn before it.                        *)
AuditIsATree ==
  \A i \in DOMAIN file :
    IsRow(file[i]) =>
      /\ file[i].row_hash = Append(file[i].prev_hash, file[i].fields)
      /\ \/ file[i].prev_hash = <<>>
         \/ \E j \in 1..(i - 1) : IsRow(file[j]) => file[j].row_hash = file[i].prev_hash

(* "Hash-chained, tamper-evident": as long as no two hooks were ever within  *)
(* _audit() together, what is in the file is one chain, torn ends and killed *)
(* hooks notwithstanding.                                                    *)
ChainUnlessOverlapped ==
  ~overlapped =>
    \A i \in DOMAIN file :
      IsRow(file[i]) => file[i].prev_hash = IF i = 1 THEN <<>> ELSE file[i - 1].row_hash

Audited(n) == \E i \in DOMAIN file : IsRow(file[i]) /\ file[i].fields.n = n

(* "Every decision is appended": as long as no line of the file is torn, a   *)
(* decision that was printed is in it, or it is the one whose own write      *)
(* failed.                                                                   *)
OnlyATornLineSilences ==
  (\A i \in DOMAIN file : IsRow(file[i])) =>
    \A a \in answers : Audited(a.n) \/ a.n \in unwritten

Severity(decision) == CASE decision = "allow" -> 0 [] decision = "ask" -> 1 [] decision = "deny" -> 2

(* "The classifier checks EVERY segment, not just the prefix": a chained     *)
(* command is decided like the worst of its segments on its own.             *)
ChainingHidesNothing ==
  \A a \in answers :
    a.call.tool = "Bash" =>
      \A i \in DOMAIN a.call.segments :
        Severity(classify([a.call EXCEPT !.segments = <<a.call.segments[i]>>])) <= Severity(a.decision)

(* "Never block a tool call because the audit failed": a call that reached   *)
(* its audit is answered, whatever becomes of the audit, or its hook is      *)
(* killed.                                                                   *)
EveryCallIsAnswered ==
  \A n \in 1..MaxCalls :
    (\E p \in Procs : frame[p].n = n /\ frame[p].call.mapping) ~>
      ((\E a \in answers : a.n = n) \/ n \in killed)
=============================================================================
