---------------------------- MODULE McpServerProofs ---------------------------
(****************************************************************************)
(* Theorems about McpServer, for any number of servers, messages and kills: *)
(* who makes the schema of a new file, and that every decision a client was *)
(* given has its row.                                                       *)
(****************************************************************************)
EXTENDS McpServer, StoreProofs

-----------------------------------------------------------------------------
(* The inductive invariant *)

Places ==
  {"listen", "raise", "mine", "connect", "script", "handle", "authorize", "respond"}

(* Where a message goes first. *)
First(p, m) ==
  IF m \in Undispatchable THEN "raise" ELSE IF ~NeedsStore(m) THEN "respond"
  ELSE IF m.tool = "mint_root" THEN "mine" ELSE WithStore(p)

Serves ==
  [at : Places, next : Nat, n : Nat, msg : Messages \cup {None}, status : Statuses \cup {""}]

Typed ==
  /\ server \in [Procs -> Serves]
  /\ collisions \in [Procs -> Nat] /\ interrupted \in BOOLEAN /\ requests \in Nat

Size == 6
Beginning(made) == {Script[i] : i \in 1..made}

Scripting(p) == server[p].at = "script"
Creating(p) == Scripting(p) /\ server[p].next > 1

(* What exists is a beginning of the script.  Whoever is past its first      *)
(* statement is at the next one, and is alone; a beginning that nobody is    *)
(* working on was left by a script that was cut short.                       *)
Progress(made) ==
  /\ schema = Beginning(made)
  /\ \A p \in Procs : Scripting(p) => server[p].next \in 1..Size
  /\ \A p \in Procs : Creating(p) => server[p].next = made + 1
  /\ \A p, q \in Procs : Creating(p) /\ Creating(q) => p = q
  /\ made \in 1..(Size - 1) => interrupted \/ \E p \in Procs : Creating(p)

(* A server that found the first table made does not run the script again.   *)
Warned ==
  \A p \in Procs :
    /\ collisions[p] <= 1
    /\ collisions[p] # 0 => HasSchema /\ ~Scripting(p)

McpInv == Typed /\ (\E made \in 0..Size : Progress(made)) /\ Warned

-----------------------------------------------------------------------------
(* The script *)

LEMMA ScriptShape ==
  /\ Len(Script) = Size
  /\ \A i, j \in 1..Size : Script[i] = Script[j] => i = j
  /\ Script[1] = "principal"
BY DEF Script, Size

LEMMA BeginningGrows ==
  ASSUME NEW k \in 0..(Size - 1), IsFiniteSet(Beginning(k)), Cardinality(Beginning(k)) = k
  PROVE  /\ Beginning(k + 1) = Beginning(k) \cup {Script[k + 1]}
         /\ IsFiniteSet(Beginning(k + 1)) /\ Cardinality(Beginning(k + 1)) = k + 1
<1>1. 1..(k + 1) = 1..k \cup {k + 1}
  BY DEF Size
<1>2. Beginning(k + 1) = Beginning(k) \cup {Script[k + 1]}
  BY <1>1 DEF Beginning
<1>3. Script[k + 1] \notin Beginning(k)
  <2>1. k + 1 \in 1..Size /\ \A i \in 1..k : i \in 1..Size /\ i # k + 1
    BY DEF Size
  <2> QED
    BY <2>1, ScriptShape DEF Beginning
<1> QED
  BY <1>2, <1>3, FS_AddElement

LEMMA BeginningSize ==
  ASSUME NEW k \in 0..Size
  PROVE  IsFiniteSet(Beginning(k)) /\ Cardinality(Beginning(k)) = k
<1> DEFINE Fine(i) == IsFiniteSet(Beginning(i)) /\ Cardinality(Beginning(i)) = i
<1>0. Fine(0)
  <2>1. Beginning(0) = {}
    <3>1. 1..0 = {}
      OBVIOUS
    <3> QED
      BY <3>1 DEF Beginning
  <2> QED
    BY <2>1, FS_EmptySet
<1>s. ASSUME NEW i \in 0..5, Fine(i) PROVE Fine(i + 1)
  BY <1>s, BeginningGrows DEF Size
<1> HIDE DEF Fine
<1>1. Fine(1)
  BY <1>0, <1>s
<1>2. Fine(2)
  BY <1>1, <1>s
<1>3. Fine(3)
  BY <1>2, <1>s
<1>4. Fine(4)
  BY <1>3, <1>s
<1>5. Fine(5)
  BY <1>4, <1>s
<1>6. Fine(6)
  BY <1>5, <1>s
<1>7. k \in {0, 1, 2, 3, 4, 5, 6}
  BY DEF Size
<1>8. Fine(k)
  BY <1>0, <1>1, <1>2, <1>3, <1>4, <1>5, <1>6, <1>7
<1> QED
  BY <1>8 DEF Fine

(* A statement is in the beginning made so far exactly if it comes before.   *)
LEMMA InBeginning ==
  ASSUME NEW made \in 0..Size, NEW k \in 1..Size
  PROVE  Script[k] \in Beginning(made) <=> k <= made
<1>1. ASSUME NEW i \in 1..made, Script[k] = Script[i] PROVE k <= made
  <2>1. i \in 1..Size
    BY DEF Size
  <2> QED
    BY <1>1, <2>1, ScriptShape
<1>2. k <= made => k \in 1..made
  BY DEF Size
<1> QED
  BY <1>1, <1>2 DEF Beginning

LEMMA SchemaBegun ==
  ASSUME NEW made \in 0..Size, schema = Beginning(made)
  PROVE  HasSchema <=> made # 0
<1>1. 1 \in 1..Size
  BY DEF Size
<1>2. Script[1] \in Beginning(made) <=> 1 <= made
  BY <1>1, InBeginning
<1> QED
  BY <1>2, ScriptShape DEF HasSchema, Size

-----------------------------------------------------------------------------
(* The steps *)

LEMMA InitMcp == McpInit => McpInv
<1> SUFFICES ASSUME McpInit PROVE McpInv
  OBVIOUS
<1>1. Idle \in Serves
  BY DEF Idle, Serves, Places
<1>2. server = [p \in Procs |-> Idle] /\ schema = {} /\ requests = 0
      /\ collisions = [p \in Procs |-> 0] /\ interrupted = FALSE
  BY DEF McpInit
<1>3. Typed
  BY <1>1, <1>2 DEF Typed
<1>4. \A p \in Procs : ~Scripting(p)
  BY <1>2 DEF Scripting, Idle
<1>5. Progress(0)
  <2>1. Beginning(0) = {}
    <3>1. 1..0 = {}
      OBVIOUS
    <3> QED
      BY <3>1 DEF Beginning
  <2> QED
    BY <1>2, <1>4, <2>1 DEF Progress, Creating, Size
<1>6. Warned
  BY <1>2 DEF Warned
<1>7. 0 \in 0..Size
  BY DEF Size
<1> QED
  BY <1>3, <1>5, <1>6, <1>7 DEF McpInv

(* Only p's message moves. *)
Moved(p) ==
  /\ server' \in [Procs -> Serves]
  /\ \A q \in Procs \ {p} : server'[q] = server[q]

(* A step of a server that is at no statement of the script.                 *)
LEMMA OffScript ==
  ASSUME McpInv, NEW p \in Procs, Moved(p), ~Scripting(p), ~Scripting(p)',
         UNCHANGED <<schema, collisions, interrupted>>, requests' \in Nat
  PROVE  McpInv'
<1>1. PICK made \in 0..Size : Progress(made)
  BY DEF McpInv
<1>2. Typed'
  BY DEF McpInv, Typed, Moved
<1>3. \A q \in Procs : (Scripting(q)' <=> Scripting(q)) /\ (Creating(q)' <=> Creating(q))
  BY DEF Moved, Scripting, Creating
<1>4. \A q \in Procs : Scripting(q) => server'[q] = server[q]
  BY DEF Moved
<1>5. Progress(made)'
  <2>1. (schema = Beginning(made))'
    BY <1>1 DEF Progress, Beginning, Script
  <2>2. (\A q \in Procs : Scripting(q) => server[q].next \in 1..Size)'
    BY <1>1, <1>3, <1>4 DEF Progress
  <2>3. (\A q \in Procs : Creating(q) => server[q].next = made + 1)'
    BY <1>1, <1>3, <1>4 DEF Progress, Creating
  <2>4. (\A q, r \in Procs : Creating(q) /\ Creating(r) => q = r)'
    BY <1>1, <1>3 DEF Progress
  <2>5. (made \in 1..(Size - 1) => interrupted \/ \E q \in Procs : Creating(q))'
    BY <1>1, <1>3 DEF Progress
  <2> QED
    BY <2>1, <2>2, <2>3, <2>4, <2>5 DEF Progress
<1>6. Warned'
  BY <1>3 DEF McpInv, Warned, HasSchema
<1> QED
  BY <1>2, <1>5, <1>6 DEF McpInv

LEMMA IdleWith ==
  ASSUME NEW m, NEW n, NEW a, NEW s
  PROVE  [Idle EXCEPT !.msg = m, !.n = n, !.at = a, !.status = s]
           = [at |-> a, next |-> 0, n |-> n, msg |-> m, status |-> s]
<1> DEFINE given == [Idle EXCEPT !.msg = m, !.n = n, !.at = a, !.status = s]
<1>1. DOMAIN Idle = {"at", "next", "n", "msg", "status"} /\ Idle.next = 0
  BY DEF Idle
<1>2. DOMAIN given = DOMAIN Idle
  OBVIOUS
<1>3. given.msg = m /\ given.n = n /\ given.at = a /\ given.status = s /\ given.next = 0
  BY <1>1
<1>4. given = [x \in DOMAIN Idle |-> given[x]]
  BY <1>2
<1> HIDE DEF given
<1>5. given = [at |-> a, next |-> 0, n |-> n, msg |-> m, status |-> s]
  BY <1>1, <1>3, <1>4
<1> QED
  BY <1>5 DEF given

LEMMA AnswerType == ASSUME NEW m PROVE DirectAnswer(m) \in Statuses \ Codes
<1>1. CASE m \in ToolCalls
  <2>1. CASE m.tool \notin TOOLS
    BY <1>1, <2>1 DEF DirectAnswer, Statuses, Codes
  <2>2. CASE m.tool \in TOOLS
    <3>1. Complete(m) \in BOOLEAN
      BY DEF Complete
    <3>2. CASE Complete(m)
      BY <1>1, <2>2, <3>2 DEF DirectAnswer, Statuses, Codes
    <3>3. CASE ~Complete(m)
      BY <1>1, <2>2, <3>3 DEF DirectAnswer, Statuses, Codes
    <3> QED
      BY <3>1, <3>2, <3>3
  <2> QED
    BY <2>1, <2>2
<1>2. CASE m \notin ToolCalls
  BY <1>2 DEF DirectAnswer, Statuses, Codes
<1> QED
  BY <1>1, <1>2

LEMMA Received ==
  ASSUME Typed, NEW p \in Procs, NEW m \in Messages, Receive(p, m)
  PROVE  /\ Moved(p) /\ requests' \in Nat /\ server[p].at = "listen"
         /\ server'[p].msg = m
         /\ server'[p].at = First(p, m) /\ server'[p].status \notin Codes
<1>1. server[p] \in Serves /\ requests' \in Nat /\ server[p].at = "listen"
  BY DEF Typed, Receive
<1> DEFINE at == First(p, m)
           status == IF m \in Undispatchable \/ NeedsStore(m) THEN "" ELSE DirectAnswer(m)
           new == [at |-> at, next |-> 0, n |-> requests', msg |-> m, status |-> status]
<1>2. at \in Places
  BY DEF Places, First, WithStore
<1>3. status \in Statuses \cup {""} /\ status \notin Codes
  <2>1. "" \notin Codes
    BY DEF Codes
  <2> QED
    BY <2>1, AnswerType
<1>4. server' = [server EXCEPT ![p] = new]
  <2> DEFINE a == at
             s == status
  <2>1. server' = [server EXCEPT ![p] = [Idle EXCEPT !.msg = m, !.n = requests', !.at = a, !.status = s]]
    BY DEF Receive, First
  <2> HIDE DEF a, s
  <2>2. [Idle EXCEPT !.msg = m, !.n = requests', !.at = a, !.status = s]
          = [at |-> a, next |-> 0, n |-> requests', msg |-> m, status |-> s]
    BY IdleWith
  <2> QED
    BY <2>1, <2>2 DEF a, s
<1>5. new \in Serves /\ new.at = at /\ new.msg = m /\ new.status = status
  <2> HIDE DEF at, status
  <2> QED
    BY <1>1, <1>2, <1>3 DEF Serves
<1> HIDE DEF new, at, status
<1>6. Moved(p) /\ server'[p] = new
  BY <1>4, <1>5 DEF Moved, Typed
<1> QED
  BY <1>1, <1>3, <1>5, <1>6 DEF at

LEMMA ReceiveStep ==
  ASSUME McpInv, NEW p \in Procs, NEW m \in Messages, Receive(p, m)
  PROVE  McpInv'
<1>1. /\ Moved(p) /\ requests' \in Nat /\ server[p].at = "listen"
      /\ server'[p].at = First(p, m)
  BY Received DEF McpInv
<1>2. ~Scripting(p) /\ ~Scripting(p)'
  BY <1>1 DEF Scripting, First, WithStore
<1>3. UNCHANGED <<schema, collisions, interrupted>>
  BY DEF Receive
<1> QED
  BY <1>1, <1>2, <1>3, OffScript

LEMMA RespondStep ==
  ASSUME McpInv, NEW p \in Procs, Respond(p)
  PROVE  McpInv'
<1>1. Idle \in Serves /\ Idle.at = "listen"
  BY DEF Idle, Serves, Places
<1>2. server' = [server EXCEPT ![p] = Idle] /\ server[p].at = "respond"
      /\ UNCHANGED <<schema, collisions, interrupted, requests>>
  BY DEF Respond
<1>3. Moved(p) /\ server'[p] = Idle
  BY <1>1, <1>2 DEF Moved, McpInv, Typed
<1> QED
  BY <1>1, <1>2, <1>3, OffScript DEF Scripting, McpInv, Typed

LEMMA Answered ==
  ASSUME Typed, NEW p \in Procs, NEW outcome \in Statuses, Answering(p, outcome)
  PROVE  Moved(p) /\ ~Scripting(p)'
<1>1. server[p] \in Serves
  BY DEF Typed
<1> DEFINE new == [server[p] EXCEPT !.at = "respond", !.status = outcome]
<1>2. new \in Serves /\ new.at = "respond"
  BY <1>1 DEF Serves, Places
<1>3. server' = [server EXCEPT ![p] = new]
  BY DEF Answering
<1> QED
  BY <1>2, <1>3 DEF Moved, Typed, Scripting

LEMMA Gone ==
  ASSUME Typed, NEW p \in Procs, NEW step \in Places, GoAt(p, step)
  PROVE  Moved(p) /\ server'[p].at = step /\ server'[p].next = server[p].next
<1>1. server[p] \in Serves
  BY DEF Typed
<1> DEFINE new == [server[p] EXCEPT !.at = step]
<1>2. new \in Serves /\ new.at = step /\ new.next = server[p].next
  BY <1>1 DEF Serves
<1>3. server' = [server EXCEPT ![p] = new]
  BY DEF GoAt
<1> QED
  BY <1>2, <1>3 DEF Moved, Typed

(* An answer, from wherever but the script.                                  *)
LEMMA AnsweringStep ==
  ASSUME McpInv, NEW p \in Procs, NEW outcome \in Statuses, Answering(p, outcome),
         ~Scripting(p), UNCHANGED <<schema, collisions, interrupted, requests>>
  PROVE  McpInv'
<1>1. Typed
  BY DEF McpInv
<1>2. Moved(p) /\ ~Scripting(p)'
  BY <1>1, Answered
<1> QED
  BY <1>1, <1>2, OffScript DEF Typed

LEMMA GoingStep ==
  ASSUME McpInv, NEW p \in Procs, NEW step \in Places \ {"script"}, GoAt(p, step),
         ~Scripting(p), UNCHANGED <<schema, collisions, interrupted, requests>>
  PROVE  McpInv'
<1>1. Typed
  BY DEF McpInv
<1>2. Moved(p) /\ ~Scripting(p)'
  BY <1>1, Gone DEF Scripting
<1> QED
  BY <1>1, <1>2, OffScript DEF Typed

LEMMA LookStep ==
  ASSUME McpInv, NEW p \in Procs, Look(p)
  PROVE  McpInv'
<1>1. ~Scripting(p) /\ UNCHANGED <<schema, collisions, interrupted, requests>>
  BY DEF Look, Scripting
<1>2. CASE GoAt(p, "handle")
  BY <1>1, <1>2, GoingStep DEF Places
<1>3. CASE Answering(p, "isError")
  BY <1>1, <1>3, AnsweringStep DEF Statuses
<1>4. CASE ~HasSchema /\ server' = [server EXCEPT ![p].at = "script", ![p].next = 1]
  <2>1. Typed /\ server[p] \in Serves
    BY DEF McpInv, Typed
  <2> DEFINE new == [server[p] EXCEPT !.at = "script", !.next = 1]
  <2>2. new \in Serves /\ new.at = "script" /\ new.next = 1
    BY <2>1 DEF Serves, Places
  <2>3. server' = [server EXCEPT ![p] = new]
    BY <1>4
  <2>4. Moved(p) /\ server'[p].next = 1
    BY <2>1, <2>2, <2>3 DEF Moved, Typed
  <2>5. PICK made \in 0..Size : Progress(made)
    BY DEF McpInv
  <2>6. made = 0
    BY <1>4, <2>5, SchemaBegun DEF Progress
  <2>7. \A q \in Procs : Creating(q)' <=> Creating(q)
    BY <1>1, <2>4 DEF Moved, Creating, Scripting
  <2>8. \A q \in Procs : ~Creating(q)
    <3>1. ASSUME NEW q \in Procs, Creating(q) PROVE FALSE
      BY <2>5, <2>6, <3>1 DEF Progress, Creating
    <3> QED
      BY <3>1
  <2>9. Progress(made)'
    <3>1. (schema = Beginning(made))'
      BY <1>1, <2>5 DEF Progress, Beginning, Script
    <3>2. (\A q \in Procs : Scripting(q) => server[q].next \in 1..Size)'
      BY <2>4, <2>5 DEF Progress, Moved, Scripting, Size
    <3> QED
      BY <2>6, <2>7, <2>8, <3>1, <3>2 DEF Progress, Size
  <2>10. Warned'
    <3>1. \A q \in Procs : collisions[q] = 0
      BY <1>4, <2>1 DEF McpInv, Warned, Typed
    <3> QED
      BY <1>1, <3>1 DEF Warned
  <2>11. Typed'
    BY <1>1, <2>1, <2>4 DEF Typed, Moved
  <2> QED
    BY <2>9, <2>10, <2>11 DEF McpInv
<1> QED
  BY <1>2, <1>3, <1>4 DEF Look, ConnectFails

LEMMA CreateStep ==
  ASSUME McpInv, NEW p \in Procs, Create(p)
  PROVE  McpInv'
<1> DEFINE k == server[p].next
<1>1. Typed /\ server[p] \in Serves /\ Scripting(p)
  BY DEF McpInv, Typed, Create, Scripting
<1>2. PICK made \in 0..Size : Progress(made)
  BY DEF McpInv
<1>3. k \in 1..Size
  BY <1>1, <1>2 DEF Progress
<1>4. k = made + 1
  <2>1. CASE k > 1
    BY <1>1, <1>2, <2>1 DEF Progress, Creating
  <2>2. CASE k = 1
    <3>1. Script[k] \notin schema
      BY DEF Create, Exists
    <3>2. ~HasSchema
      BY <2>2, <3>1, ScriptShape DEF HasSchema
    <3> QED
      BY <1>2, <2>2, <3>2, SchemaBegun DEF Progress
  <2> QED
    BY <1>3, <2>1, <2>2 DEF Size
<1>5. made \in 0..(Size - 1) /\ k \in 0..Size
  BY <1>3, <1>4 DEF Size
<1>6. schema' = Beginning(made + 1)
  <2>1. IsFiniteSet(Beginning(made)) /\ Cardinality(Beginning(made)) = made
    BY BeginningSize
  <2>2. Beginning(made + 1) = Beginning(made) \cup {Script[made + 1]}
    BY <1>5, <2>1, BeginningGrows
  <2> QED
    BY <1>2, <1>4, <2>2 DEF Create, Progress
<1>7. UNCHANGED <<collisions, interrupted, requests>>
  BY DEF Create
<1>8. \A q \in Procs : Creating(q) => q = p
  <2>1. CASE k > 1
    BY <1>1, <1>2, <2>1 DEF Progress, Creating
  <2>2. CASE k = 1
    <3>1. ASSUME NEW q \in Procs, Creating(q) PROVE FALSE
      BY <1>2, <1>4, <2>2, <3>1 DEF Progress, Creating
    <3> QED
      BY <3>1
  <2> QED
    BY <1>3, <2>1, <2>2 DEF Size
<1>9. Moved(p) /\ (k < Size => Creating(p)' /\ server'[p].next = k + 1)
      /\ (k = Size => ~Scripting(p)')
  <2>1. CASE k < Len(Script) /\ server' = [server EXCEPT ![p].next = k + 1]
    <3> DEFINE new == [server[p] EXCEPT !.next = k + 1]
    <3>0. k + 1 \in Nat /\ server[p].at = "script"
      BY <1>1, <1>3 DEF Scripting, Size
    <3>1. new \in Serves /\ new.at = "script" /\ new.next = k + 1
      <4> DEFINE j == k + 1
      <4> HIDE DEF j
      <4>1. [server[p] EXCEPT !.next = j] \in Serves /\ [server[p] EXCEPT !.next = j].next = j
            /\ [server[p] EXCEPT !.next = j].at = server[p].at
        <5>1. j \in Nat
          BY <3>0 DEF j
        <5> QED
          BY <1>1, <5>1 DEF Serves
      <4> QED
        BY <3>0, <4>1 DEF j
    <3>2. server' = [server EXCEPT ![p] = new]
      BY <2>1
    <3>3. Moved(p) /\ server'[p] = new
      BY <1>1, <3>1, <3>2 DEF Moved, Typed
    <3>4. server'[p].at = "script" /\ server'[p].next = k + 1
      BY <3>1, <3>3
    <3>5. k < Size /\ k + 1 > 1 /\ k # Size
      BY <1>3, <2>1, ScriptShape DEF Size
    <3> QED
      BY <3>3, <3>4, <3>5 DEF Creating, Scripting
  <2>2. CASE k = Len(Script) /\ GoAt(p, "handle")
    <3>1. Moved(p) /\ server'[p].at = "handle"
      BY <1>1, <2>2, Gone DEF Places
    <3> QED
      BY <2>2, <3>1, ScriptShape DEF Scripting, Size
  <2> QED
    BY <2>1, <2>2 DEF Create
<1>10. \A q \in Procs \ {p} : (Scripting(q)' <=> Scripting(q)) /\ ~Creating(q)'
  BY <1>8, <1>9 DEF Moved, Creating, Scripting
<1>11. Progress(made + 1)'
  <2>1. (schema = Beginning(made + 1))'
    BY <1>6 DEF Beginning, Script
  <2>2. (\A q \in Procs : Scripting(q) => server[q].next \in 1..Size)'
    <3>1. ASSUME NEW q \in Procs \ {p}, Scripting(q)' PROVE server'[q].next \in 1..Size
      BY <1>2, <1>9, <1>10, <3>1 DEF Progress, Moved
    <3>2. Scripting(p)' => server'[p].next \in 1..Size
      BY <1>3, <1>9 DEF Size
    <3> QED
      BY <3>1, <3>2
  <2>3. (\A q \in Procs : Creating(q) => server[q].next = made + 1 + 1)'
    <3>1. Creating(p)' => server'[p].next = made + 1 + 1
      BY <1>3, <1>4, <1>9 DEF Size, Creating
    <3> QED
      BY <1>10, <3>1
  <2>4. (\A q, r \in Procs : Creating(q) /\ Creating(r) => q = r)'
    BY <1>10
  <2>5. (made + 1 \in 1..(Size - 1) => interrupted \/ \E q \in Procs : Creating(q))'
    BY <1>4, <1>9 DEF Size
  <2> QED
    BY <2>1, <2>2, <2>3, <2>4, <2>5 DEF Progress
<1>12. Warned'
  <2>1. collisions[p] = 0
    BY <1>1 DEF McpInv, Warned, Typed
  <2>2. schema \subseteq schema'
    BY DEF Create
  <2> QED
    BY <1>7, <1>10, <2>1, <2>2 DEF McpInv, Warned, HasSchema
<1>13. Typed'
  BY <1>1, <1>7, <1>9 DEF Typed, Moved
<1>14. made + 1 \in 0..Size
  BY <1>5 DEF Size
<1> QED
  BY <1>11, <1>12, <1>13, <1>14 DEF McpInv

(* A server leaves the script, if it is there, for another place.            *)
LEMMA LeavingStep ==
  ASSUME McpInv, NEW p \in Procs, Moved(p), ~Scripting(p)', UNCHANGED schema,
         interrupted' = (interrupted \/ Creating(p)),
         collisions' \in [Procs -> Nat], requests' \in Nat, Warned'
  PROVE  McpInv'
<1>1. PICK made \in 0..Size : Progress(made)
  BY DEF McpInv
<1>2. Typed'
  BY DEF McpInv, Typed, Moved, Creating
<1>3. \A q \in Procs \ {p} : (Scripting(q)' <=> Scripting(q)) /\ (Creating(q)' <=> Creating(q))
  BY DEF Moved, Scripting, Creating
<1>4. ~Creating(p)'
  BY DEF Creating
<1>5. Progress(made)'
  <2>1. (schema = Beginning(made))'
    BY <1>1 DEF Progress, Beginning, Script
  <2>2. (\A q \in Procs : Scripting(q) => server[q].next \in 1..Size)'
    BY <1>1, <1>3 DEF Progress, Moved
  <2>3. (\A q \in Procs : Creating(q) => server[q].next = made + 1)'
    BY <1>1, <1>3, <1>4 DEF Progress, Moved
  <2>4. (\A q, r \in Procs : Creating(q) /\ Creating(r) => q = r)'
    BY <1>1, <1>3, <1>4 DEF Progress
  <2>5. (made \in 1..(Size - 1) => interrupted \/ \E q \in Procs : Creating(q))'
    <3>1. made \in 1..(Size - 1) => interrupted \/ \E q \in Procs : Creating(q)
      BY <1>1 DEF Progress
    <3>2. ASSUME NEW q \in Procs, Creating(q) PROVE interrupted' \/ Creating(q)'
      BY <1>3, <3>2
    <3> QED
      BY <3>1, <3>2
  <2> QED
    BY <2>1, <2>2, <2>3, <2>4, <2>5 DEF Progress
<1> QED
  BY <1>2, <1>5 DEF McpInv

LEMMA CreateFailsStep ==
  ASSUME McpInv, NEW p \in Procs, CreateFails(p)
  PROVE  McpInv'
<1> DEFINE k == server[p].next
<1>1. Typed /\ Warned /\ server[p] \in Serves /\ Scripting(p)
  BY DEF McpInv, Typed, CreateFails, Scripting
<1>2. PICK made \in 0..Size : Progress(made)
  BY DEF McpInv
<1>3. k \in 1..Size
  BY <1>1, <1>2 DEF Progress
<1>4. Exists(k) => HasSchema
  <2>1. CASE k > 1
    <3>1. k = made + 1
      BY <1>1, <1>2, <2>1 DEF Progress, Creating
    <3>2. Script[k] \notin schema
      BY <1>2, <1>3, <3>1, InBeginning DEF Progress, Size
    <3> QED
      BY <3>2 DEF Exists
  <2>2. CASE k = 1
    BY <2>2, ScriptShape DEF Exists, HasSchema
  <2> QED
    BY <1>3, <2>1, <2>2 DEF Size
<1>5. Moved(p) /\ ~Scripting(p)'
  <2>1. Answering(p, "isError")
    BY DEF CreateFails, ConnectFails
  <2> QED
    BY <1>1, <2>1, Answered DEF Statuses
<1>6. interrupted' = (interrupted \/ Creating(p)) /\ UNCHANGED <<schema, requests>>
  BY <1>1 DEF CreateFails, Creating
<1>7. collisions' = [collisions EXCEPT ![p] = IF Exists(k) THEN @ + 1 ELSE @]
  BY DEF CreateFails
<1>8. collisions[p] = 0
  BY <1>1 DEF Warned, Typed
<1>9. collisions' \in [Procs -> Nat] /\ collisions'[p] = (IF Exists(k) THEN 1 ELSE 0)
      /\ \A q \in Procs \ {p} : collisions'[q] = collisions[q]
  <2> DEFINE found == IF Exists(k) THEN 1 ELSE 0
  <2>1. found \in Nat
    OBVIOUS
  <2>2. collisions' = [collisions EXCEPT ![p] = found]
    BY <1>7, <1>8
  <2> HIDE DEF found
  <2>3. collisions' \in [Procs -> Nat] /\ collisions'[p] = found
        /\ \A q \in Procs \ {p} : collisions'[q] = collisions[q]
    BY <1>1, <2>1, <2>2 DEF Typed
  <2> QED
    BY <2>3 DEF found
<1>10. Warned'
  <2>1. \A q \in Procs \ {p} : (Scripting(q)' <=> Scripting(q))
    BY <1>5 DEF Moved, Scripting
  <2>2. HasSchema' <=> HasSchema
    BY <1>6 DEF HasSchema
  <2> QED
    BY <1>1, <1>4, <1>5, <1>9, <2>1, <2>2 DEF Warned
<1> QED
  BY <1>1, <1>5, <1>6, <1>9, <1>10, LeavingStep DEF Typed

LEMMA RestartStep ==
  ASSUME McpInv, NEW p \in Procs, Restart(p)
  PROVE  McpInv'
<1>1. Typed /\ Warned /\ server[p] \in Serves
  BY DEF McpInv, Typed
<1>2. Idle \in Serves /\ Idle.at = "listen"
  BY DEF Idle, Serves, Places
<1>3. server' = [server EXCEPT ![p] = Idle] /\ UNCHANGED <<schema, requests>>
      /\ collisions' = [collisions EXCEPT ![p] = 0]
      /\ interrupted' = (interrupted \/ (server[p].at = "script" /\ server[p].next > 1))
  BY DEF Restart
<1>4. Moved(p) /\ ~Scripting(p)'
  BY <1>1, <1>2, <1>3 DEF Moved, Typed, Scripting
<1>5. interrupted' = (interrupted \/ Creating(p))
  BY <1>3 DEF Creating, Scripting
<1>6. collisions' \in [Procs -> Nat] /\ collisions'[p] = 0
      /\ \A q \in Procs \ {p} : collisions'[q] = collisions[q]
  BY <1>1, <1>3 DEF Typed
<1>7. Warned'
  <2>1. \A q \in Procs \ {p} : (Scripting(q)' <=> Scripting(q))
    BY <1>4 DEF Moved, Scripting
  <2> QED
    BY <1>1, <1>3, <1>6, <2>1 DEF Warned, HasSchema
<1> QED
  BY <1>1, <1>3, <1>4, <1>5, <1>6, <1>7, LeavingStep DEF Typed

(* A handler, or a statement of Store.authorize() under it.                  *)
LEMMA HandlerStep ==
  ASSUME TypeOK, McpInv, NEW p \in Procs,
         \/ Mining(p) \/ h_mint_root(p) \/ h_vouch(p) \/ h_audit_query(p) \/ h_authorize(p)
         \/ Authorize(p) \/ NoSuchTable(p)
  PROVE  McpInv'
<1>1. ~Scripting(p) /\ UNCHANGED <<schema, collisions, interrupted, requests>>
  BY DEF Mining, h_mint_root, h_vouch, h_audit_query, h_authorize, Authorize, NoSuchTable,
         WriteTable, Handling, Scripting
<1>2. {"result", "isError"} \subseteq Statuses
  BY DEF Statuses
<1>3. \/ \E outcome \in Statuses : Answering(p, outcome)
      \/ \E step \in {"handle", "connect", "authorize"} : GoAt(p, step)
      \/ UNCHANGED server
  <2>1. CASE h_mint_root(p) \/ h_vouch(p)
    BY <1>2, <2>1 DEF h_mint_root, h_vouch, WriteTable
  <2>2. CASE h_audit_query(p)
    BY <1>2, <2>2 DEF h_audit_query
  <2>3. CASE h_authorize(p) \/ Mining(p)
    BY <2>3 DEF h_authorize, Mining, WithStore
  <2>4. CASE Authorize(p)
    <3>1. Return(p) => frame[p].code \in Statuses
      BY DEF TypeOK, FrameOK, Return, Statuses
    <3> QED
      BY <1>2, <2>4, <3>1 DEF Authorize
  <2>5. CASE NoSuchTable(p)
    BY <1>2, <2>5 DEF NoSuchTable
  <2> QED
    BY <2>1, <2>2, <2>3, <2>4, <2>5
<1>4. CASE UNCHANGED server
  <2>1. Moved(p) /\ ~Scripting(p)'
    BY <1>1, <1>4 DEF Moved, McpInv, Typed, Scripting
  <2> QED
    BY <1>1, <2>1, OffScript DEF McpInv, Typed
<1>5. ASSUME NEW step \in {"handle", "connect", "authorize"}, GoAt(p, step) PROVE McpInv'
  BY <1>1, <1>5, GoingStep DEF Places
<1> QED
  BY <1>1, <1>3, <1>4, <1>5, AnsweringStep

(* Whatever dispatch() does not catch ends the server. *)
LEMMA UncaughtStep ==
  ASSUME McpInv, NEW p \in Procs, Uncaught(p)
  PROVE  McpInv'
<1>1. Typed /\ Warned /\ ~Scripting(p) /\ ~Creating(p)
  BY DEF McpInv, Uncaught, Scripting, Creating
<1>2. Idle \in Serves /\ Idle.at = "listen"
  BY DEF Idle, Serves, Places
<1>3. server' = [server EXCEPT ![p] = Idle] /\ UNCHANGED <<schema, requests, interrupted>>
      /\ collisions' = [collisions EXCEPT ![p] = 0]
  BY DEF Uncaught
<1>4. Moved(p) /\ ~Scripting(p)'
  BY <1>1, <1>2, <1>3 DEF Moved, Typed, Scripting
<1>5. interrupted' = (interrupted \/ Creating(p))
  BY <1>1, <1>3 DEF Typed
<1>6. collisions' \in [Procs -> Nat] /\ collisions'[p] = 0
      /\ \A q \in Procs \ {p} : collisions'[q] = collisions[q]
  BY <1>1, <1>3 DEF Typed
<1>7. Warned'
  <2>1. \A q \in Procs \ {p} : (Scripting(q)' <=> Scripting(q))
    BY <1>4 DEF Moved, Scripting
  <2> QED
    BY <1>1, <1>3, <1>6, <2>1 DEF Warned, HasSchema
<1> QED
  BY <1>1, <1>3, <1>4, <1>5, <1>6, <1>7, LeavingStep DEF Typed

LEMMA McpInvStep == TypeOK /\ McpInv /\ [McpNext]_<<vars, mcp_vars>> => McpInv'
<1> SUFFICES ASSUME TypeOK, McpInv, [McpNext]_<<vars, mcp_vars>> PROVE McpInv'
  OBVIOUS
<1>1. CASE McpNext
  <2>1. PICK p \in Procs : (\E m \in Messages : Receive(p, m)) \/ Serving(p) \/ Restart(p)
    BY <1>1 DEF McpNext
  <2>2. CASE \E m \in Messages : Receive(p, m)
    BY <2>2, ReceiveStep
  <2>3. CASE Serving(p)
    BY <2>3, RespondStep, UncaughtStep, LookStep, CreateStep, CreateFailsStep, HandlerStep DEF Serving
  <2>4. CASE Restart(p)
    BY <2>4, RestartStep
  <2> QED
    BY <2>1, <2>2, <2>3, <2>4
<1>2. CASE UNCHANGED <<vars, mcp_vars>>
  <2>1. UNCHANGED <<schema, server, requests, collisions, interrupted>>
    BY <1>2 DEF mcp_vars
  <2> QED
    BY <2>1 DEF McpInv, Typed, Progress, Beginning, Script, Warned, HasSchema,
                Scripting, Creating
<1> QED
  BY <1>1, <1>2

-----------------------------------------------------------------------------
(* The decisions that were answered                                          *)
(*                                                                           *)
(* AnsweredDecisionsAreAudited says nothing of an answer that is known and   *)
(* not yet written.  Due counts those: a decision is due from the moment     *)
(* authorize() returns it, and leaves Due for the answers.  The rows are     *)
(* counted in the committed log, which only ever grows, since what a         *)
(* transaction would commit continues it.                                    *)

Continues(old, new) == \A i \in DOMAIN old : i \in DOMAIN new /\ new[i] = old[i]

Due(fields) == {p \in Procs : server[p].at = "respond" /\ fields \in Given(server[p])}

(* A message gets as far as the store only if it needs it, and what          *)
(* authorize() works on is the request of the message.                       *)
Sound(p) ==
  /\ server[p].at \in {"mine", "connect", "script", "handle", "authorize"} => NeedsStore(server[p].msg)
  /\ server[p].at = "authorize" => server[p].msg.req = frame[p].req

Accounted(fields) ==
  Cardinality(DecidedFor(fields)) + Cardinality(Due(fields)) <= Cardinality(RowsOf(fields))

DecidedInv ==
  /\ TypeOK /\ Typed
  /\ Continues(db.audit, tx.audit)
  /\ \A p \in Procs : Sound(p)
  /\ IsFiniteSet(answers)
  /\ \A fields : Accounted(fields)

(* What every step does to the log. *)
LogGrows == Continues(db.audit, db'.audit) /\ Continues(db.audit, tx.audit)'

LEMMA ContinuesItself == ASSUME NEW log PROVE Continues(log, log)
BY DEF Continues

LEMMA ContinuesOn ==
  ASSUME NEW a, NEW b, NEW c, Continues(a, b), Continues(b, c)
  PROVE  Continues(a, c)
BY DEF Continues

LEMMA RowContinues ==
  ASSUME NEW d, IsImage(d), NEW row
  PROVE  /\ Continues(d.audit, WithRow(d, row).audit)
         /\ Len(d.audit) + 1 \in DOMAIN WithRow(d, row).audit
         /\ WithRow(d, row).audit[Len(d.audit) + 1] = row
<1>1. d.audit \in Seq(Rows) /\ WithRow(d, row).audit = Append(d.audit, row)
  BY DEF IsImage, WithRow
<1>2. DOMAIN Append(d.audit, row) = 1..(Len(d.audit) + 1) /\ DOMAIN d.audit = 1..Len(d.audit)
      /\ Len(d.audit) \in Nat
  BY <1>1
<1>3. \A i \in 1..Len(d.audit) : Append(d.audit, row)[i] = d.audit[i]
  BY <1>1
<1>4. Append(d.audit, row)[Len(d.audit) + 1] = row
  BY <1>1
<1> QED
  BY <1>1, <1>2, <1>3, <1>4 DEF Continues

LEMMA SeenContinues ==
  ASSUME Continues(db.audit, tx.audit), NEW p \in Procs
  PROVE  Continues(db.audit, Image(p).audit)
BY ContinuesItself DEF Image

LEMMA CommitGrows ==
  ASSUME Continues(db.audit, tx.audit), NEW p \in Procs, NEW new,
         Continues(Image(p).audit, new.audit), Commit(p, new)
  PROVE  LogGrows
<1>1. Continues(db.audit, new.audit)
  BY SeenContinues, ContinuesOn
<1>2. db' = new /\ tx' = new
  BY DEF Commit
<1>3. Continues(new.audit, new.audit)
  BY ContinuesItself
<1> QED
  BY <1>1, <1>2, <1>3 DEF LogGrows

LEMMA RaisesGrows ==
  ASSUME Continues(db.audit, tx.audit), NEW p \in Procs, NEW new,
         Continues(Image(p).audit, new.audit), NEW ok, Raises(p, new, ok)
  PROVE  LogGrows /\ db' = db
<1>1. Continues(db.audit, new.audit) /\ Continues(db.audit, Image(p).audit)
  BY SeenContinues, ContinuesOn
<1>2. db' = db /\ (tx' = tx \/ tx' = new \/ tx' = Image(p))
  BY DEF Raises, WriteBusy, CommitBusy, ConstraintFails
<1> QED
  BY <1>1, <1>2, ContinuesItself DEF LogGrows

LEMMA KeptGrows ==
  ASSUME Continues(db.audit, tx.audit), db' = db, tx' = tx \/ tx' = db
  PROVE  LogGrows
BY ContinuesItself DEF LogGrows

LEMMA QuietWrites ==
  ASSUME NEW d, NEW ident, NEW s, NEW t, NEW r, NEW n, NEW packet, IsImage(d)
  PROVE  /\ WithPrincipal(d, ident).audit = d.audit /\ WithTier(d, s, t).audit = d.audit
         /\ Charged(d, r, n).audit = d.audit /\ WithIncident(d, packet).audit = d.audit
BY DEF IsImage, WithPrincipal, WithTier, Charged, WithIncident

LEMMA RowsFinite ==
  ASSUME TypeOK, NEW fields
  PROVE  IsFiniteSet(RowsOf(fields)) /\ Cardinality(RowsOf(fields)) \in Nat
<1>1. ASSUME NEW n \in Nat PROVE IsFiniteSet(1..n)
  BY FS_Interval
<1>2. DOMAIN db.audit = 1..Len(db.audit) /\ Len(db.audit) \in Nat
  BY DEF TypeOK, IsImage
<1>3. IsFiniteSet(DOMAIN db.audit)
  BY <1>1, <1>2
<1> QED
  BY <1>3, FS_Subset, FS_CardinalityType DEF RowsOf

LEMMA RowsGrow ==
  ASSUME TypeOK, LogGrows, TypeOK', NEW fields
  PROVE  /\ RowsOf(fields) \subseteq RowsOf(fields)' /\ IsFiniteSet(RowsOf(fields)')
         /\ IsFiniteSet(RowsOf(fields))
         /\ Cardinality(RowsOf(fields)) <= Cardinality(RowsOf(fields)')
         /\ Cardinality(RowsOf(fields)) \in Nat /\ Cardinality(RowsOf(fields)') \in Nat
<1>1. ASSUME NEW n \in Nat PROVE IsFiniteSet(1..n)
  BY FS_Interval
<1>2. DOMAIN db'.audit = 1..Len(db'.audit) /\ Len(db'.audit) \in Nat
  BY DEF TypeOK, IsImage
<1>3. IsFiniteSet(DOMAIN db'.audit)
  BY <1>1, <1>2
<1>4. RowsOf(fields) \subseteq RowsOf(fields)'
  BY DEF LogGrows, Continues, RowsOf
<1>5. IsFiniteSet(RowsOf(fields)')
  BY <1>3, FS_Subset DEF RowsOf
<1> QED
  BY <1>4, <1>5, RowsFinite, FS_Subset, FS_CardinalityType

-----------------------------------------------------------------------------
(* The messages *)

(* What a message carries once it needs the store. *)
LEMMA NeededArguments ==
  ASSUME NEW m, NeedsStore(m)
  PROVE  /\ m.tool = "mint_root" => m.ident \in Mints
         /\ m.tool = "vouch" => m.vouch \in Vouches
         /\ m.tool = "authorize" => m.req \in Requests
<1>1. m \in ToolCalls /\ Complete(m)
  BY DEF NeedsStore
<1>2. m.tool \in DOMAIN Required => Required[m.tool] \in DOMAIN m
  BY <1>1 DEF Complete
<1>3. CASE m \in [tool : OtherTools]
  <2>1. DOMAIN m = {"tool"}
    BY <1>3
  <2>2. m.tool \notin {"mint_root", "vouch", "authorize"}
    BY <1>2, <2>1 DEF Required
  <2> QED
    BY <2>2
<1>4. CASE m \in [tool : {"mint_root"}, ident : Mints] \cup [tool : {"vouch"}, vouch : Vouches]
  BY <1>4
<1>5. CASE m \in [tool : {"authorize"}, req : Requests]
  BY <1>5
<1> QED
  BY <1>1, <1>3, <1>4, <1>5 DEF ToolCalls

-----------------------------------------------------------------------------
(* The steps *)

LEMMA DueFinite ==
  ASSUME NEW fields
  PROVE  IsFiniteSet(Due(fields)) /\ Cardinality(Due(fields)) \in Nat
BY StoreAssumption, FS_Subset, FS_CardinalityType DEF Due

LEMMA DecidedFinite ==
  ASSUME IsFiniteSet(answers), NEW fields
  PROVE  IsFiniteSet(DecidedFor(fields)) /\ Cardinality(DecidedFor(fields)) \in Nat
<1>1. DecidedFor(fields) \subseteq answers
  BY DEF DecidedFor
<1> QED
  BY <1>1, FS_Subset, FS_CardinalityType

(* A step that makes no decision known. *)
LEMMA NothingDecided ==
  ASSUME DecidedInv, NEW p \in Procs, Moved(p), Typed', TypeOK', LogGrows, UNCHANGED answers,
         \A q \in Procs \ {p} : frame'[q] = frame[q],
         Sound(p)', \A fields : p \notin Due(fields)'
  PROVE  DecidedInv'
<1>1. \A q \in Procs : Sound(q)'
  BY DEF DecidedInv, Moved, Sound
<1>2. ASSUME NEW fields PROVE Accounted(fields)'
  <2>1. Due(fields)' \subseteq Due(fields)
    BY <1>2 DEF Due, Moved
  <2>2. Cardinality(Due(fields)') <= Cardinality(Due(fields)) /\ Cardinality(Due(fields)) \in Nat
        /\ Cardinality(Due(fields)') \in Nat
    BY <2>1, DueFinite, FS_Subset, FS_CardinalityType
  <2>3. DecidedFor(fields)' = DecidedFor(fields) /\ Cardinality(DecidedFor(fields)) \in Nat
    BY DecidedFinite DEF DecidedInv, DecidedFor
  <2>4. Cardinality(RowsOf(fields)) <= Cardinality(RowsOf(fields)')
        /\ Cardinality(RowsOf(fields)) \in Nat /\ Cardinality(RowsOf(fields)') \in Nat
    BY RowsGrow DEF DecidedInv
  <2>5. Cardinality(DecidedFor(fields)) + Cardinality(Due(fields)) <= Cardinality(RowsOf(fields))
    BY DEF DecidedInv, Accounted
  <2>6. Cardinality(DecidedFor(fields)') + Cardinality(Due(fields)') <= Cardinality(RowsOf(fields)')
    BY <2>2, <2>3, <2>4, <2>5
  <2> QED
    BY <2>6 DEF Accounted
<1>3. IsFiniteSet(answers)'
  BY DEF DecidedInv
<1> QED
  BY <1>1, <1>2, <1>3 DEF DecidedInv, LogGrows

(* A server that is to answer, and not with a decision; or that goes on.     *)
LEMMA AnswersElse ==
  ASSUME DecidedInv, NEW p \in Procs, NEW outcome \in Statuses \ Codes, Answering(p, outcome)
  PROVE  Moved(p) /\ Sound(p)' /\ \A fields : p \notin Due(fields)'
<1>1. Moved(p) /\ server[p] \in Serves
  BY Answered DEF DecidedInv, Typed
<1>2. server'[p].at = "respond" /\ server'[p].status = outcome /\ server'[p].msg = server[p].msg
  BY <1>1 DEF Answering, DecidedInv, Typed, Serves
<1> QED
  BY <1>1, <1>2 DEF Sound, Due, Given

LEMMA ErrorAnswer == {"result", "isError"} \subseteq Statuses \ Codes
BY DEF Statuses, Codes

LEMMA GoesOnTo ==
  ASSUME DecidedInv, NEW p \in Procs, NEW step \in {"script", "handle", "connect"}, NeedsStore(server[p].msg),
         Moved(p), server'[p].at = step, server'[p].msg = server[p].msg
  PROVE  Sound(p)' /\ \A fields : p \notin Due(fields)'
BY DEF Sound, Due

LEMMA InitDecided == McpInit => DecidedInv
<1> SUFFICES ASSUME McpInit PROVE DecidedInv
  OBVIOUS
<1>1. TypeOK /\ Typed
  BY InitType, InitMcp DEF McpInit, McpInv
<1>2. db.audit = tx.audit
  BY DEF McpInit, Init
<1>3. \A p \in Procs : server[p].at = "listen"
  BY DEF McpInit, Idle
<1>4. answers = {} /\ IsFiniteSet({}) /\ Cardinality({}) = 0
  BY FS_EmptySet DEF McpInit
<1>5. ASSUME NEW fields PROVE Accounted(fields)
  <2>1. Due(fields) = {}
    BY <1>3 DEF Due
  <2>2. DecidedFor(fields) = {}
    BY <1>4 DEF DecidedFor
  <2>3. Cardinality(RowsOf(fields)) \in Nat
    BY <1>1, RowsFinite
  <2> QED
    BY <1>4, <2>1, <2>2, <2>3 DEF Accounted
<1> QED
  BY <1>1, <1>2, <1>3, <1>4, <1>5, ContinuesItself DEF DecidedInv, Sound

LEMMA StoreRests ==
  ASSUME DecidedInv, UNCHANGED vars
  PROVE  TypeOK' /\ LogGrows /\ frame' = frame
<1>1. TypeOK'
  BY StepType DEF DecidedInv
<1>2. LogGrows
  BY KeptGrows DEF DecidedInv, vars
<1> QED
  BY <1>1, <1>2 DEF vars

LEMMA ReceiveDecides ==
  ASSUME DecidedInv, Typed', NEW p \in Procs, NEW m \in Messages, Receive(p, m)
  PROVE  DecidedInv'
<1>1. /\ Moved(p) /\ server'[p].msg = m
      /\ server'[p].at = First(p, m) /\ server'[p].status \notin Codes
  BY Received DEF DecidedInv
<1>2. UNCHANGED vars /\ UNCHANGED answers
  BY DEF Receive
<1>3. Sound(p)'
  BY <1>1 DEF Sound, First, WithStore
<1>4. \A fields : p \notin Due(fields)'
  BY <1>1 DEF Due, Given
<1> QED
  BY <1>1, <1>2, <1>3, <1>4, StoreRests, NothingDecided

LEMMA RespondDecides ==
  ASSUME DecidedInv, Typed', NEW p \in Procs, Respond(p)
  PROVE  DecidedInv'
<1>1. UNCHANGED vars /\ server' = [server EXCEPT ![p] = Idle] /\ server[p].at = "respond"
  BY DEF Respond
<1>2. TypeOK' /\ LogGrows /\ frame' = frame
  BY <1>1, StoreRests
<1>3. server'[p].at = "listen" /\ \A q \in Procs \ {p} : server'[q] = server[q]
  BY <1>1 DEF DecidedInv, Typed, Idle
<1>4. \A q \in Procs : Sound(q)'
  BY <1>2, <1>3 DEF DecidedInv, Sound
<1> DEFINE new == [n |-> server[p].n, given |-> Given(server[p])]
<1>5. answers' = answers \/ answers' = answers \cup {new}
  BY DEF Respond
<1>6. IsFiniteSet(answers)'
  BY <1>5, FS_AddElement DEF DecidedInv
<1>7. ASSUME NEW fields PROVE Accounted(fields)'
  <2>1. /\ IsFiniteSet(Due(fields)) /\ Cardinality(Due(fields)) \in Nat
        /\ IsFiniteSet(Due(fields)') /\ Cardinality(Due(fields)') \in Nat
        /\ IsFiniteSet(DecidedFor(fields)) /\ Cardinality(DecidedFor(fields)) \in Nat
        /\ IsFiniteSet(DecidedFor(fields)') /\ Cardinality(DecidedFor(fields)') \in Nat
    <3>1. IsFiniteSet(Due(fields)') /\ IsFiniteSet(DecidedFor(fields)')
      <4>1. Due(fields)' \subseteq Procs /\ DecidedFor(fields)' \subseteq answers'
        BY DEF Due, DecidedFor
      <4> QED
        BY <1>6, <4>1, StoreAssumption, FS_Subset
    <3> QED
      BY <3>1, DueFinite, DecidedFinite, FS_CardinalityType DEF DecidedInv
  <2>2. Cardinality(RowsOf(fields)) <= Cardinality(RowsOf(fields)')
        /\ Cardinality(RowsOf(fields)) \in Nat /\ Cardinality(RowsOf(fields)') \in Nat
    BY <1>2, RowsGrow DEF DecidedInv
  <2>3. Cardinality(DecidedFor(fields)) + Cardinality(Due(fields)) <= Cardinality(RowsOf(fields))
    BY DEF DecidedInv, Accounted
  <2>4. Cardinality(DecidedFor(fields)') + Cardinality(Due(fields)') <= Cardinality(DecidedFor(fields)) + Cardinality(Due(fields))
    <3>1. CASE p \in Due(fields)
      <4>1. Due(fields)' = Due(fields) \ {p}
        BY <1>3 DEF Due
      <4>2. Cardinality(Due(fields)') = Cardinality(Due(fields)) - 1
        BY <2>1, <3>1, <4>1, FS_RemoveElement
      <4>3. DecidedFor(fields)' \subseteq DecidedFor(fields) \cup {new}
        BY <1>5 DEF DecidedFor
      <4>4. /\ IsFiniteSet(DecidedFor(fields) \cup {new})
            /\ Cardinality(DecidedFor(fields) \cup {new}) \in Nat
            /\ Cardinality(DecidedFor(fields) \cup {new}) <= Cardinality(DecidedFor(fields)) + 1
        <5> HIDE DEF new
        <5>1. /\ IsFiniteSet(DecidedFor(fields) \cup {new})
              /\ \/ Cardinality(DecidedFor(fields) \cup {new}) = Cardinality(DecidedFor(fields))
                 \/ Cardinality(DecidedFor(fields) \cup {new}) = Cardinality(DecidedFor(fields)) + 1
          BY <2>1, FS_AddElement
        <5> QED
          BY <2>1, <5>1
      <4>5. Cardinality(DecidedFor(fields)') <= Cardinality(DecidedFor(fields) \cup {new})
        <5> HIDE DEF new
        <5> QED
          BY <4>3, <4>4, FS_Subset
      <4> QED
        BY <2>1, <4>2, <4>4, <4>5
    <3>2. CASE p \notin Due(fields)
      <4>1. Due(fields)' = Due(fields)
        BY <1>3, <3>2 DEF Due
      <4>2. fields \notin new.given
        BY <1>1, <3>2 DEF Due
      <4>3. DecidedFor(fields)' = DecidedFor(fields)
        BY <1>5, <4>2 DEF DecidedFor
      <4> QED
        BY <2>1, <4>1, <4>3
    <3> QED
      BY <3>1, <3>2
  <2>5. Cardinality(DecidedFor(fields)') + Cardinality(Due(fields)') <= Cardinality(RowsOf(fields)')
    BY <2>1, <2>2, <2>3, <2>4
  <2> QED
    BY <2>5 DEF Accounted
<1> QED
  BY <1>2, <1>4, <1>6, <1>7 DEF DecidedInv, LogGrows

(* Outside authorize() no frame moves. *)
LEMMA FileSteps ==
  ASSUME DecidedInv, UNCHANGED <<pc, frame, used>>,
         IsImage(db)', IsImage(tx)', conn' \in [Procs -> Modes]
  PROVE  TypeOK'
<1>1. \A q \in Procs : FrameOK(q)'
  BY DEF DecidedInv, TypeOK, FrameOK
<1> QED
  BY <1>1 DEF DecidedInv, TypeOK

LEMMA LookDecides ==
  ASSUME DecidedInv, Typed', NEW p \in Procs, Look(p)
  PROVE  DecidedInv'
<1>1. NeedsStore(server[p].msg) /\ UNCHANGED <<pc, frame, used, answers>> /\ server[p] \in Serves
  BY DEF Look, DecidedInv, Sound, Typed
<1>2. CASE Read(p)
  <2>1. TypeOK'
    BY <1>1, <1>2, ReadType, FileSteps DEF DecidedInv
  <2>2. LogGrows
    BY <1>2, KeptGrows DEF Read, DecidedInv
  <2>3. \/ Moved(p) /\ server'[p].at \in {"script", "handle"} /\ server'[p].msg = server[p].msg
        \/ Answering(p, "isError")
    <3>1. CASE GoAt(p, "handle")
      <4>1. Moved(p) /\ server'[p].at = "handle"
        BY <3>1, Gone DEF DecidedInv, Places
      <4>2. server'[p].msg = server[p].msg
        BY <1>1, <3>1 DEF GoAt, DecidedInv, Typed, Serves
      <4> QED
        BY <4>1, <4>2
    <3>2. CASE server' = [server EXCEPT ![p].at = "script", ![p].next = 1]
      <4> DEFINE new == [server[p] EXCEPT !.at = "script", !.next = 1]
      <4>1. new.at = "script" /\ new.msg = server[p].msg
        BY <1>1 DEF Serves
      <4>2. server' = [server EXCEPT ![p] = new]
        BY <3>2
      <4> HIDE DEF new
      <4>3. server'[p] = new /\ \A q \in Procs \ {p} : server'[q] = server[q]
        BY <4>2 DEF DecidedInv, Typed
      <4> QED
        BY <4>1, <4>3 DEF Moved, Typed
    <3> QED
      BY <1>2, <3>1, <3>2 DEF Look, ConnectFails
  <2>4. CASE Moved(p) /\ server'[p].at \in {"script", "handle"} /\ server'[p].msg = server[p].msg
    <3>1. Sound(p)' /\ \A fields : p \notin Due(fields)'
      BY <1>1, <2>4, GoesOnTo
    <3> QED
      BY <1>1, <2>1, <2>2, <2>4, <3>1, NothingDecided
  <2>5. CASE Answering(p, "isError")
    BY <1>1, <2>1, <2>2, <2>5, AnswersElse, ErrorAnswer, NothingDecided
  <2> QED
    BY <2>3, <2>4, <2>5
<1>3. CASE ConnectFails(p)
  <2>1. TypeOK'
    BY <1>1, <1>3, CloseType, FileSteps DEF DecidedInv, ConnectFails
  <2>2. LogGrows
    BY <1>3, KeptGrows DEF Close, ConnectFails, DecidedInv
  <2>3. Answering(p, "isError")
    BY <1>3 DEF ConnectFails
  <2> QED
    BY <1>1, <2>1, <2>2, <2>3, AnswersElse, ErrorAnswer, NothingDecided
<1> QED
  BY <1>2, <1>3 DEF Look

LEMMA CreateDecides ==
  ASSUME DecidedInv, Typed', NEW p \in Procs, Create(p)
  PROVE  DecidedInv'
<1> DEFINE next == server[p].next + 1
           on   == [server[p] EXCEPT !.next = next]
           done == [server[p] EXCEPT !.at = "handle"]
<1>1. /\ NeedsStore(server[p].msg) /\ server[p] \in Serves /\ server[p].at = "script"
      /\ UNCHANGED vars /\ UNCHANGED answers
  BY DEF Create, DecidedInv, Sound, Typed
<1>2. /\ on.at = "script" /\ on.msg = server[p].msg
      /\ done.at = "handle" /\ done.msg = server[p].msg
  BY <1>1 DEF Serves
<1>3. server' = [server EXCEPT ![p] = on] \/ server' = [server EXCEPT ![p] = done]
  BY DEF Create, GoAt
<1> HIDE DEF on, done
<1>4. /\ server'[p].at \in {"script", "handle"} /\ server'[p].msg = server[p].msg
      /\ \A q \in Procs \ {p} : server'[q] = server[q]
  BY <1>2, <1>3 DEF DecidedInv, Typed
<1>5. Moved(p)
  BY <1>4 DEF Moved, Typed
<1>6. Sound(p)' /\ \A fields : p \notin Due(fields)'
  BY <1>1, <1>4, <1>5, GoesOnTo
<1> QED
  BY <1>1, <1>5, <1>6, StoreRests, NothingDecided

LEMMA CreateFailsDecides ==
  ASSUME DecidedInv, Typed', NEW p \in Procs, CreateFails(p)
  PROVE  DecidedInv'
<1>1. UNCHANGED <<pc, frame, used, answers>> /\ Close(p) /\ Answering(p, "isError")
  BY DEF CreateFails, ConnectFails
<1>2. TypeOK'
  BY <1>1, CloseType, FileSteps DEF DecidedInv
<1>3. LogGrows
  BY <1>1, KeptGrows DEF Close, DecidedInv
<1> QED
  BY <1>1, <1>2, <1>3, AnswersElse, ErrorAnswer, NothingDecided

LEMMA UncaughtDecides ==
  ASSUME DecidedInv, Typed', NEW p \in Procs, Uncaught(p)
  PROVE  DecidedInv'
<1>1. /\ Close(p) /\ UNCHANGED <<pc, frame, used, answers>>
      /\ server' = [server EXCEPT ![p] = Idle]
  BY DEF Uncaught
<1>2. TypeOK'
  BY <1>1, CloseType, FileSteps DEF DecidedInv
<1>3. LogGrows
  BY <1>1, KeptGrows DEF Close, DecidedInv
<1>4. server'[p].at = "listen" /\ \A q \in Procs \ {p} : server'[q] = server[q]
  BY <1>1 DEF DecidedInv, Typed, Idle
<1>5. Moved(p) /\ Sound(p)' /\ \A fields : p \notin Due(fields)'
  BY <1>4 DEF Moved, Typed, Sound, Due
<1> QED
  BY <1>1, <1>2, <1>3, <1>5, NothingDecided

LEMMA MiningDecides ==
  ASSUME DecidedInv, Typed', NEW p \in Procs, Mining(p)
  PROVE  DecidedInv'
<1>1. /\ UNCHANGED vars /\ UNCHANGED answers /\ GoAt(p, WithStore(p))
      /\ WithStore(p) \in {"handle", "connect"} /\ NeedsStore(server[p].msg)
      /\ server[p] \in Serves
  BY DEF Mining, WithStore, DecidedInv, Sound, Typed
<1>2. Moved(p) /\ server'[p].at = WithStore(p)
  BY <1>1, Gone DEF DecidedInv, Places
<1>3. server'[p].msg = server[p].msg
  BY <1>1 DEF GoAt, DecidedInv, Typed, Serves
<1>4. Sound(p)' /\ \A fields : p \notin Due(fields)'
  BY <1>1, <1>2, <1>3, GoesOnTo
<1> QED
  BY <1>1, <1>2, <1>4, StoreRests, NothingDecided

LEMMA RestartDecides ==
  ASSUME DecidedInv, Typed', NEW p \in Procs, Restart(p)
  PROVE  DecidedInv'
<1>1. /\ Close(p) /\ pc' = [pc EXCEPT ![p] = "idle"] /\ frame' = [frame EXCEPT ![p] = EmptyFrame]
      /\ used' = [used EXCEPT !.crashes = @ + 1] /\ used.crashes < MaxCrashes
      /\ server' = [server EXCEPT ![p] = Idle] /\ UNCHANGED answers
  BY DEF Restart, Goto
<1>2. TypeOK'
  <2>1. used' \in [calls : 0..MaxCalls, admin : 0..MaxAdmin, crashes : 0..MaxCrashes]
    BY <1>1, StoreAssumption DEF DecidedInv, TypeOK
  <2>2. pc' \in [Procs -> Steps \cup {"idle"}] /\ frame' \in [Procs -> Frames]
    BY <1>1, EmptyFrameType DEF DecidedInv, TypeOK
  <2>3. \A q \in Procs : FrameOK(q)'
    BY <1>1, <2>2 DEF DecidedInv, TypeOK, FrameOK
  <2>4. IsImage(db)' /\ IsImage(tx)' /\ conn' \in [Procs -> Modes]
    BY <1>1, CloseType DEF DecidedInv
  <2> QED
    BY <2>1, <2>2, <2>3, <2>4 DEF TypeOK
<1>3. LogGrows
  BY <1>1, KeptGrows DEF Close, DecidedInv
<1>4. server'[p].at = "listen" /\ \A q \in Procs \ {p} : server'[q] = server[q]
  BY <1>1 DEF DecidedInv, Typed, Idle
<1>5. \A q \in Procs \ {p} : frame'[q] = frame[q]
  BY <1>1 DEF DecidedInv, TypeOK
<1>6. Moved(p) /\ Sound(p)' /\ \A fields : p \notin Due(fields)'
  BY <1>4 DEF Moved, Typed, Sound, Due
<1> QED
  BY <1>1, <1>2, <1>3, <1>5, <1>6, NothingDecided

(* A handler that writes a table, or reads one, and answers.                 *)
LEMMA HandlerAnswers ==
  ASSUME DecidedInv, Typed', NEW p \in Procs, server[p].at = "handle",
         TypeOK', LogGrows,
         NEW outcome \in Statuses \ Codes, Answering(p, outcome), UNCHANGED <<frame, answers>>
  PROVE  DecidedInv'
BY AnswersElse, NothingDecided

LEMMA WriteTableDecides ==
  ASSUME DecidedInv, Typed', NEW p \in Procs, NEW table, NEW new, server[p].at = "handle",
         IsImage(new), new.audit = Image(p).audit,
         WriteTable(p, table, new)
  PROVE  DecidedInv'
<1>1. UNCHANGED <<pc, frame, used, answers>> /\ Continues(Image(p).audit, new.audit)
  BY ContinuesItself DEF WriteTable
<1>2. PICK outcome \in Statuses \ Codes : Answering(p, outcome)
  BY ErrorAnswer DEF WriteTable
<1>3. Commit(p, new) \/ Raises(p, new, TRUE) \/ UNCHANGED file_vars
  BY DEF WriteTable
<1>4. CASE Commit(p, new)
  BY <1>1, <1>2, <1>4, CommitType, CommitGrows, FileSteps, HandlerAnswers DEF DecidedInv
<1>5. CASE Raises(p, new, TRUE)
  BY <1>1, <1>2, <1>5, RaisesType, RaisesGrows, FileSteps, HandlerAnswers DEF DecidedInv
<1>6. CASE UNCHANGED file_vars
  <2>1. UNCHANGED vars
    BY <1>1, <1>6 DEF vars, file_vars
  <2> QED
    BY <1>1, <1>2, <2>1, StoreRests, HandlerAnswers
<1> QED
  BY <1>3, <1>4, <1>5, <1>6

LEMMA MintRootDecides ==
  ASSUME DecidedInv, Typed', NEW p \in Procs, h_mint_root(p)
  PROVE  DecidedInv'
<1>1. server[p].at = "handle" /\ server[p].msg.tool = "mint_root" /\ IsImage(Image(p))
  BY ImageType DEF h_mint_root, Handling, DecidedInv
<1>2. server[p].msg.ident \in Mints
  BY <1>1, NeededArguments DEF DecidedInv, Sound
<1> DEFINE new == WithPrincipal(Image(p), server[p].msg.ident)
<1>3. IsImage(new) /\ new.audit = Image(p).audit /\ WriteTable(p, "principal", new)
  BY <1>1, <1>2, ImageWithPrincipal, QuietWrites DEF h_mint_root
<1> HIDE DEF new
<1> QED
  BY <1>1, <1>3, WriteTableDecides

LEMMA VouchDecides ==
  ASSUME DecidedInv, Typed', NEW p \in Procs, h_vouch(p)
  PROVE  DecidedInv'
<1> DEFINE v   == server[p].msg.vouch
           new == WithTier(Image(p), v[1], v[2])
<1>1. server[p].at = "handle" /\ server[p].msg.tool = "vouch" /\ IsImage(Image(p))
  BY ImageType DEF h_vouch, Handling, DecidedInv
<1>2. v[1] \in Sources /\ v[2] \in TrustTier
  BY <1>1, NeededArguments, StoreAssumption DEF DecidedInv, Sound
<1>3. IsImage(new) /\ new.audit = Image(p).audit /\ WriteTable(p, "provenance_source", new)
  BY <1>1, <1>2, ImageWithTier, QuietWrites DEF h_vouch
<1> HIDE DEF new
<1> QED
  BY <1>1, <1>3, WriteTableDecides

LEMMA AuditQueryDecides ==
  ASSUME DecidedInv, Typed', NEW p \in Procs, h_audit_query(p)
  PROVE  DecidedInv'
<1>1. server[p].at = "handle" /\ UNCHANGED <<pc, frame, used, answers>>
  BY DEF h_audit_query, Handling
<1>2. PICK outcome \in Statuses \ Codes : Answering(p, outcome)
  BY ErrorAnswer DEF h_audit_query
<1>3. CASE Read(p)
  <2>1. LogGrows
    BY <1>3, KeptGrows DEF Read, DecidedInv
  <2> QED
    BY <1>1, <1>2, <1>3, <2>1, ReadType, FileSteps, HandlerAnswers DEF DecidedInv
<1>4. CASE UNCHANGED file_vars
  <2>1. UNCHANGED vars
    BY <1>1, <1>4 DEF vars, file_vars
  <2> QED
    BY <1>1, <1>2, <2>1, StoreRests, HandlerAnswers
<1> QED
  BY <1>3, <1>4 DEF h_audit_query, ReadBusy, file_vars

LEMMA AuthorizeCallDecides ==
  ASSUME DecidedInv, Typed', NEW p \in Procs, h_authorize(p)
  PROVE  DecidedInv'
<1> DEFINE req == server[p].msg.req
<1>1. /\ server[p].at = "handle" /\ server[p].msg.tool = "authorize"
      /\ UNCHANGED answers /\ Call(p, req) /\ GoAt(p, "authorize")
  BY DEF h_authorize, Handling
<1>2. req \in Requests
  BY <1>1, NeededArguments DEF DecidedInv, Sound
<1>3. TypeOK'
  BY <1>1, <1>2, CallType DEF DecidedInv
<1>4. frame' = [frame EXCEPT ![p] = FirstFrame(req)] /\ UNCHANGED <<db, tx>>
  BY <1>1 DEF Call
<1>5. frame'[p].req = req /\ \A q \in Procs \ {p} : frame'[q] = frame[q]
  BY <1>4 DEF DecidedInv, TypeOK, FirstFrame
<1>6. LogGrows
  BY <1>4, KeptGrows DEF DecidedInv
<1>7. Moved(p) /\ server'[p].at = "authorize" /\ server'[p].msg = server[p].msg
  <2>1. Moved(p) /\ server'[p].at = "authorize"
    BY <1>1, Gone DEF DecidedInv, Places
  <2>2. server'[p].msg = server[p].msg
    BY <1>1 DEF GoAt, DecidedInv, Typed, Serves
  <2> QED
    BY <2>1, <2>2
<1>8. Sound(p)' /\ \A fields : p \notin Due(fields)'
  BY <1>1, <1>2, <1>5, <1>7 DEF Sound, Due, DecidedInv
<1> QED
  BY <1>1, <1>3, <1>5, <1>6, <1>7, <1>8, NothingDecided

LEMMA NoSuchTableDecides ==
  ASSUME DecidedInv, Typed', NEW p \in Procs, NoSuchTable(p)
  PROVE  DecidedInv'
<1>1. /\ Leave(p) /\ Answering(p, "isError") /\ UNCHANGED <<db, tx, conn, answers>>
  BY DEF NoSuchTable, file_vars
<1>2. TypeOK'
  BY <1>1, LeaveType DEF DecidedInv, TypeOK, IsImage
<1>3. LogGrows
  BY <1>1, KeptGrows DEF DecidedInv
<1>4. \A q \in Procs \ {p} : frame'[q] = frame[q]
  BY <1>1 DEF Leave, DecidedInv, TypeOK
<1> QED
  BY <1>1, <1>2, <1>3, <1>4, AnswersElse, ErrorAnswer, NothingDecided

(* What a statement of authorize() that does not return does for this.       *)
Statement(p) ==
  /\ TypeOK' /\ LogGrows
  /\ \A q \in Procs \ {p} : frame'[q] = frame[q]
  /\ pc'[p] # "idle" => frame'[p].req = frame[p].req

LEMMA LeavesQuietly ==
  ASSUME DecidedInv, NEW p \in Procs, TypeOK', LogGrows, Leave(p)
  PROVE  Statement(p)
BY DEF Statement, Leave, Goto, DecidedInv, TypeOK

LEMMA StaysInCall ==
  ASSUME DecidedInv, NEW p \in Procs, TypeOK', LogGrows, NEW step \in Steps, Goto(p, step),
         UNCHANGED frame \/ \E f : frame' = [frame EXCEPT ![p] = f] /\ f.req = frame[p].req
  PROVE  Statement(p)
<1>1. pc'[p] # "idle"
  BY DEF Goto, DecidedInv, TypeOK, Steps, ReadingSteps, WritingSteps
<1>2. frame'[p].req = frame[p].req /\ \A q \in Procs \ {p} : frame'[q] = frame[q]
  BY DEF DecidedInv, TypeOK
<1> QED
  BY <1>1, <1>2 DEF Statement

LEMMA ReadingStatement ==
  ASSUME DecidedInv, NEW p \in Procs,
         \/ ResolveSource(p) \/ Check(p) \/ ReadSpent(p) \/ ReadLastHash(p) \/ ReadRaises(p)
  PROVE  Statement(p)
<1>1. TypeOK'
  BY ResolveSourceType, CheckType, ReadSpentType, ReadLastHashType, ReadRaisesType DEF DecidedInv
<1>2. LogGrows /\ db' = db
  BY KeptGrows DEF ResolveSource, Check, ReadSpent, ReadLastHash, ReadRaises, Read, ReadBusy, DecidedInv
<1>3. frame[p] \in Frames
  BY DEF DecidedInv, TypeOK
<1>4. CASE ResolveSource(p)
  <2> DEFINE f == [frame[p] EXCEPT !.tier = WeakestSoFar(@, Image(p).tier[Head(frame[p].left).source_id]),
                                   !.left = Tail(frame[p].left)]
  <2>1. frame' = [frame EXCEPT ![p] = f]
    BY <1>4 DEF ResolveSource
  <2>2. f.req = frame[p].req
    BY <1>3 DEF Frames
  <2>3. \E step \in Steps : Goto(p, step)
    BY <1>4 DEF ResolveSource, Steps, ReadingSteps
  <2> HIDE DEF f
  <2> QED
    BY <1>1, <1>2, <2>1, <2>2, <2>3, StaysInCall
<1>5. CASE Check(p)
  <2> DEFINE code == Screen(frame[p].req, Claims[frame[p].req], frame[p].tier)
             f == [frame[p] EXCEPT !.code = code]
  <2>1. frame' = [frame EXCEPT ![p] = f]
    BY <1>5 DEF Check
  <2>2. f.req = frame[p].req
    BY <1>3 DEF Frames
  <2>3. \E step \in Steps : Goto(p, step)
    BY <1>5 DEF Check, Steps, ReadingSteps, WritingSteps
  <2> HIDE DEF f
  <2> QED
    BY <1>1, <1>2, <2>1, <2>2, <2>3, StaysInCall
<1>6. CASE ReadSpent(p)
  <2> DEFINE f == [frame[p] EXCEPT !.code = "BUDGET", !.quoted = Image(p).spent[RootOf(frame[p].req)]]
  <2>1. UNCHANGED frame \/ frame' = [frame EXCEPT ![p] = f]
    BY <1>6 DEF ReadSpent
  <2>2. f.req = frame[p].req
    BY <1>3 DEF Frames
  <2>3. \E step \in Steps : Goto(p, step)
    BY <1>6 DEF ReadSpent, Steps, WritingSteps
  <2> HIDE DEF f
  <2> QED
    BY <1>1, <1>2, <2>1, <2>2, <2>3, StaysInCall
<1>7. CASE ReadLastHash(p)
  <2> DEFINE f == [frame[p] EXCEPT !.prev = NewestHash(Image(p))]
  <2>1. frame' = [frame EXCEPT ![p] = f]
    BY <1>7 DEF ReadLastHash
  <2>2. f.req = frame[p].req
    BY <1>3 DEF Frames
  <2>3. \E step \in Steps : Goto(p, step)
    BY <1>7 DEF ReadLastHash, Steps, WritingSteps
  <2> HIDE DEF f
  <2> QED
    BY <1>1, <1>2, <2>1, <2>2, <2>3, StaysInCall
<1>8. CASE ReadRaises(p)
  BY <1>1, <1>2, <1>8, LeavesQuietly DEF ReadRaises
<1> QED
  BY <1>4, <1>5, <1>6, <1>7, <1>8

(* The charge and the incident: committed, and on to the hash; or raised.    *)
LEMMA WritingStatement ==
  ASSUME DecidedInv, NEW p \in Procs, NEW new, NEW ok, new.audit = Image(p).audit, TypeOK',
         \/ Commit(p, new) /\ Goto(p, "last_hash") /\ UNCHANGED <<frame, used>>
         \/ Raises(p, new, ok) /\ Leave(p)
  PROVE  Statement(p)
<1>1. Continues(Image(p).audit, new.audit)
  BY ContinuesItself
<1>2. CASE Commit(p, new) /\ Goto(p, "last_hash") /\ UNCHANGED <<frame, used>>
  <2>1. LogGrows
    BY <1>1, <1>2, CommitGrows DEF DecidedInv
  <2>2. "last_hash" \in Steps
    BY DEF Steps, ReadingSteps
  <2> QED
    BY <1>2, <2>1, <2>2, StaysInCall
<1>3. CASE Raises(p, new, ok) /\ Leave(p)
  <2>1. LogGrows /\ db' = db
    BY <1>1, <1>3, RaisesGrows DEF DecidedInv
  <2> QED
    BY <1>3, <2>1, LeavesQuietly
<1> QED
  BY <1>2, <1>3

LEMMA ChargeStatement ==
  ASSUME DecidedInv, NEW p \in Procs, Charge(p)
  PROVE  Statement(p)
<1> DEFINE new == Charged(Image(p), RootOf(frame[p].req), frame[p].req.tool.est_cost)
           ok  == ForeignKey(Image(p), RootOf(frame[p].req))
<1>1. IsImage(Image(p)) /\ TypeOK'
  BY ImageType, ChargeType DEF DecidedInv
<1>2. new.audit = Image(p).audit
  BY <1>1, QuietWrites
<1>3. \/ Commit(p, new) /\ Goto(p, "last_hash") /\ UNCHANGED <<frame, used>>
      \/ Raises(p, new, ok) /\ Leave(p)
  BY DEF Charge
<1> HIDE DEF new, ok
<1> QED
  BY <1>1, <1>2, <1>3, WritingStatement

LEMMA EmitStatement ==
  ASSUME DecidedInv, NEW p \in Procs, EmitIncident(p)
  PROVE  Statement(p)
<1> DEFINE f   == frame[p]
           new == WithIncident(Image(p), TriagePacket(f.code, f.req, f.tier, f.quoted))
           ok  == ForeignKey(Image(p), RootOf(f.req))
<1>1. IsImage(Image(p)) /\ TypeOK'
  BY ImageType, EmitIncidentType DEF DecidedInv
<1>2. new.audit = Image(p).audit
  BY <1>1, QuietWrites
<1>3. \/ Commit(p, new) /\ Goto(p, "last_hash") /\ UNCHANGED <<frame, used>>
      \/ Raises(p, new, ok) /\ Leave(p)
  BY DEF EmitIncident
<1> HIDE DEF new, ok
<1> QED
  BY <1>1, <1>2, <1>3, WritingStatement

LEMMA RecordRaisesStatement ==
  ASSUME DecidedInv, NEW p \in Procs, RecordRaises(p)
  PROVE  Statement(p)
<1> DEFINE row == Row(Fields(frame[p].req, frame[p].code), frame[p].prev)
           new == WithRow(Image(p), row)
<1>1. IsImage(Image(p)) /\ TypeOK' /\ Leave(p) /\ Raises(p, new, TRUE)
  BY ImageType, RecordType DEF DecidedInv, Record, RecordRaises, Recorded
<1>2. Continues(Image(p).audit, new.audit)
  <2> HIDE DEF row
  <2> QED
    BY <1>1, RowContinues
<1> HIDE DEF row, new
<1>3. LogGrows
  BY <1>1, <1>2, RaisesGrows DEF DecidedInv
<1> QED
  BY <1>1, <1>3, LeavesQuietly

LEMMA StatementStep ==
  ASSUME DecidedInv, NEW p \in Procs, Proceeding(p)
  PROVE  Statement(p)
BY ReadingStatement, ChargeStatement, EmitStatement, RecordRaisesStatement DEF Proceeding

(* authorize() returns no decision before the row of it is committed, a row  *)
(* of its own.                                                               *)
LEMMA ReturnCommits ==
  ASSUME DecidedInv, NEW p \in Procs, Return(p)
  PROVE  /\ TypeOK' /\ LogGrows /\ \A q \in Procs \ {p} : frame'[q] = frame[q]
         /\ frame[p].code \in Codes
         /\ \E i \in DOMAIN db'.audit \ DOMAIN db.audit :
              db'.audit[i].fields = Fields(frame[p].req, frame[p].code)
<1> DEFINE row == Row(Fields(frame[p].req, frame[p].code), frame[p].prev)
           new == WithRow(Image(p), row)
           i   == Len(Image(p).audit) + 1
<1>1. /\ IsImage(Image(p)) /\ TypeOK' /\ frame[p].code \in Codes
      /\ Commit(p, new) /\ Leave(p)
  BY ImageType, RecordType DEF DecidedInv, TypeOK, FrameOK, Record, Return, Recorded
<1>2. row.fields = Fields(frame[p].req, frame[p].code)
  BY DEF Row
<1>3. Continues(Image(p).audit, new.audit) /\ i \in DOMAIN new.audit /\ new.audit[i] = row
  <2> HIDE DEF row
  <2> QED
    BY <1>1, RowContinues
<1> HIDE DEF row, new
<1>4. LogGrows /\ db' = new
  BY <1>1, <1>3, CommitGrows DEF DecidedInv, Commit
<1>5. i \notin DOMAIN db.audit
  <2>1. i \notin DOMAIN Image(p).audit
    BY <1>1 DEF IsImage
  <2>2. Continues(db.audit, Image(p).audit)
    BY SeenContinues DEF DecidedInv
  <2> QED
    BY <2>1, <2>2 DEF Continues
<1>6. \A q \in Procs \ {p} : frame'[q] = frame[q]
  BY <1>1 DEF Leave, DecidedInv, TypeOK
<1> QED
  BY <1>1, <1>2, <1>3, <1>4, <1>5, <1>6

(* The decision is due from here on. *)
LEMMA DecisionDue ==
  ASSUME DecidedInv, Typed', NEW p \in Procs, server[p].at = "authorize", Return(p),
         Answering(p, frame[p].code), UNCHANGED answers
  PROVE  DecidedInv'
<1> DEFINE given == Fields(frame[p].req, frame[p].code)
<1>1. /\ TypeOK' /\ LogGrows /\ \A q \in Procs \ {p} : frame'[q] = frame[q]
      /\ frame[p].code \in Codes
      /\ \E i \in DOMAIN db'.audit \ DOMAIN db.audit : db'.audit[i].fields = given
  BY ReturnCommits
<1>2. Moved(p)
  BY <1>1, Answered DEF DecidedInv, Statuses
<1>3. /\ server'[p].at = "respond" /\ server'[p].status = frame[p].code
      /\ server'[p].msg = server[p].msg
  <2>1. server[p] \in Serves
    BY DEF DecidedInv, Typed
  <2> QED
    BY <2>1 DEF Answering, DecidedInv, Typed, Serves
<1>4. \A q \in Procs : Sound(q)'
  BY <1>1, <1>2, <1>3 DEF DecidedInv, Moved, Sound
<1>5. Given(server'[p]) = {given}
  BY <1>1, <1>3 DEF DecidedInv, Sound, Given
<1> HIDE DEF given
<1>6. ASSUME NEW fields PROVE Accounted(fields)'
  <2>1. DecidedFor(fields)' = DecidedFor(fields) /\ Cardinality(DecidedFor(fields)) \in Nat
    BY DecidedFinite DEF DecidedInv, DecidedFor
  <2>2. IsFiniteSet(Due(fields)) /\ Cardinality(Due(fields)) \in Nat
    BY DueFinite
  <2>3. /\ RowsOf(fields) \subseteq RowsOf(fields)' /\ IsFiniteSet(RowsOf(fields)')
        /\ IsFiniteSet(RowsOf(fields))
        /\ Cardinality(RowsOf(fields)) <= Cardinality(RowsOf(fields)')
        /\ Cardinality(RowsOf(fields)) \in Nat /\ Cardinality(RowsOf(fields)') \in Nat
    BY <1>1, RowsGrow DEF DecidedInv
  <2>4. Cardinality(DecidedFor(fields)) + Cardinality(Due(fields)) <= Cardinality(RowsOf(fields))
    BY DEF DecidedInv, Accounted
  <2>5. CASE fields = given
    <3>1. Due(fields)' \subseteq Due(fields) \cup {p}
      BY <1>2 DEF Due, Moved
    <3>2. /\ IsFiniteSet(Due(fields) \cup {p})
          /\ Cardinality(Due(fields) \cup {p}) <= Cardinality(Due(fields)) + 1
      <4>1. /\ IsFiniteSet(Due(fields) \cup {p})
            /\ \/ Cardinality(Due(fields) \cup {p}) = Cardinality(Due(fields))
               \/ Cardinality(Due(fields) \cup {p}) = Cardinality(Due(fields)) + 1
        BY <2>2, FS_AddElement
      <4> QED
        BY <2>2, <4>1
    <3>3. Cardinality(Due(fields)') <= Cardinality(Due(fields)) + 1 /\ Cardinality(Due(fields)') \in Nat
      <4>1. /\ Cardinality(Due(fields)') <= Cardinality(Due(fields) \cup {p})
            /\ IsFiniteSet(Due(fields)')
        BY <3>1, <3>2, FS_Subset
      <4> QED
        BY <2>2, <3>2, <4>1, FS_CardinalityType
    <3>4. PICK i : i \in RowsOf(fields)' /\ i \notin RowsOf(fields)
      BY <1>1, <2>5 DEF RowsOf
    <3>5. Cardinality(RowsOf(fields)) + 1 <= Cardinality(RowsOf(fields)')
      <4>1. RowsOf(fields) \cup {i} \subseteq RowsOf(fields)'
        BY <2>3, <3>4
      <4>2. IsFiniteSet(RowsOf(fields) \cup {i})
            /\ Cardinality(RowsOf(fields) \cup {i}) = Cardinality(RowsOf(fields)) + 1
        BY <2>3, <3>4, FS_AddElement
      <4> QED
        BY <2>3, <4>1, <4>2, FS_Subset
    <3>6. Cardinality(DecidedFor(fields)') + Cardinality(Due(fields)') <= Cardinality(RowsOf(fields)')
      BY <2>1, <2>2, <2>3, <2>4, <3>3, <3>5
    <3> QED
      BY <3>6 DEF Accounted
  <2>6. CASE fields # given
    <3>1. Due(fields)' \subseteq Due(fields)
      BY <1>2, <1>5, <2>6 DEF Due, Moved
    <3>2. Cardinality(Due(fields)') <= Cardinality(Due(fields)) /\ Cardinality(Due(fields)') \in Nat
      BY <2>2, <3>1, FS_Subset, FS_CardinalityType
    <3>3. Cardinality(DecidedFor(fields)') + Cardinality(Due(fields)') <= Cardinality(RowsOf(fields)')
      BY <2>1, <2>2, <2>3, <2>4, <3>2
    <3> QED
      BY <3>3 DEF Accounted
  <2> QED
    BY <2>5, <2>6
<1>7. IsFiniteSet(answers)'
  BY DEF DecidedInv
<1> QED
  BY <1>1, <1>4, <1>6, <1>7 DEF DecidedInv, LogGrows

LEMMA AuthorizeDecides ==
  ASSUME DecidedInv, Typed', NEW p \in Procs, Authorize(p)
  PROVE  DecidedInv'
<1>1. server[p].at = "authorize" /\ UNCHANGED answers
  BY DEF Authorize
<1>2. CASE Return(p) /\ Answering(p, frame[p].code)
  BY <1>1, <1>2, DecisionDue
<1>3. CASE /\ Proceeding(p)
           /\ IF pc'[p] = "idle" THEN Answering(p, "isError") ELSE UNCHANGED server
  <2>1. Statement(p)
    BY <1>3, StatementStep
  <2>2. TypeOK' /\ LogGrows /\ \A q \in Procs \ {p} : frame'[q] = frame[q]
    BY <2>1 DEF Statement
  <2>3. CASE pc'[p] = "idle"
    BY <1>1, <1>3, <2>2, <2>3, AnswersElse, ErrorAnswer, NothingDecided
  <2>4. CASE pc'[p] # "idle"
    <3>1. server' = server /\ Moved(p)
      BY <1>3, <2>4 DEF Moved, Typed
    <3>2. Sound(p)' /\ \A fields : p \notin Due(fields)'
      BY <1>1, <2>1, <2>4, <3>1 DEF Statement, DecidedInv, Sound, Due
    <3> QED
      BY <1>1, <2>2, <3>1, <3>2, NothingDecided
  <2> QED
    BY <2>3, <2>4
<1> QED
  BY <1>2, <1>3 DEF Authorize

LEMMA DecidedStep == DecidedInv /\ McpInv /\ [McpNext]_<<vars, mcp_vars>> => DecidedInv'
<1> SUFFICES ASSUME DecidedInv, McpInv, [McpNext]_<<vars, mcp_vars>> PROVE DecidedInv'
  OBVIOUS
<1>1. Typed'
  BY McpInvStep DEF McpInv, DecidedInv
<1>2. CASE McpNext
  <2>1. PICK p \in Procs : (\E m \in Messages : Receive(p, m)) \/ Serving(p) \/ Restart(p)
    BY <1>2 DEF McpNext
  <2>2. CASE \E m \in Messages : Receive(p, m)
    BY <1>1, <2>2, ReceiveDecides
  <2>3. CASE Serving(p)
    BY <1>1, <2>3, RespondDecides, UncaughtDecides, LookDecides, CreateDecides,
       CreateFailsDecides, MiningDecides, MintRootDecides, VouchDecides, AuditQueryDecides, AuthorizeCallDecides,
       AuthorizeDecides, NoSuchTableDecides DEF Serving
  <2>4. CASE Restart(p)
    BY <1>1, <2>4, RestartDecides
  <2> QED
    BY <2>1, <2>2, <2>3, <2>4
<1>3. CASE UNCHANGED <<vars, mcp_vars>>
  <2>1. UNCHANGED vars /\ UNCHANGED <<server, answers, db>>
    BY <1>3 DEF mcp_vars, vars
  <2>2. TypeOK' /\ LogGrows /\ frame' = frame
    BY <2>1, StoreRests
  <2>3. \A fields : Accounted(fields)'
    BY <2>1 DEF DecidedInv, Accounted, DecidedFor, Due, RowsOf
  <2> QED
    BY <1>1, <2>1, <2>2, <2>3 DEF DecidedInv, LogGrows, Sound
<1> QED
  BY <1>2, <1>3

-----------------------------------------------------------------------------
(* The theorems *)

LEMMA McpInvAlways == McpSpec => [](McpInv /\ DecidedInv)
<1>1. DecidedInv => TypeOK
  BY DEF DecidedInv
<1> QED
  BY <1>1, InitMcp, InitDecided, McpInvStep, DecidedStep, PTL DEF McpSpec

(* However many servers open a new file at once, and wherever they are       *)
(* killed, at most one of them is past the first statement of the schema     *)
(* script, what exists is a beginning of it, and a schema that nobody        *)
(* completes is one whose creator was cut short.                             *)
THEOREM OneCreator == McpSpec => []SchemaHasOneCreator
<1>1. McpInv => SchemaHasOneCreator
  <2> SUFFICES ASSUME McpInv PROVE SchemaHasOneCreator
    OBVIOUS
  <2>1. PICK made \in 0..Size : Progress(made)
    BY DEF McpInv
  <2>2. Cardinality(schema) = made
    BY <2>1, BeginningSize DEF Progress
  <2> QED
    BY <2>1, <2>2, ScriptShape
       DEF SchemaHasOneCreator, Progress, Beginning, Creating, Scripting
<1> QED
  BY <1>1, McpInvAlways, PTL

(* A server loses the race for the schema once at most.                      *)
THEOREM SecondTryOpens == McpSpec => []OpensAtSecondTry
<1>1. McpInv => OpensAtSecondTry
  BY DEF McpInv, Warned, OpensAtSecondTry
<1> QED
  BY <1>1, McpInvAlways, PTL

(* A client that was given a decision finds it in the audit log: however     *)
(* messages, statements of other servers, failed commits and kills fall      *)
(* between authorize() and its answer, and however much of the schema there  *)
(* is, there are at least as many rows that say a thing as answers that do.  *)
THEOREM EveryAnswerHasItsRow == McpSpec => []AnsweredDecisionsAreAudited
<1>1. DecidedInv => AnsweredDecisionsAreAudited
  <2> SUFFICES ASSUME DecidedInv, NEW fields \in AllFields
               PROVE  Cardinality(DecidedFor(fields)) <= Cardinality(RowsOf(fields))
    BY DEF AnsweredDecisionsAreAudited
  <2>1. Cardinality(DecidedFor(fields)) + Cardinality(Due(fields)) <= Cardinality(RowsOf(fields))
    BY DEF DecidedInv, Accounted
  <2>2. Cardinality(DecidedFor(fields)) \in Nat /\ Cardinality(Due(fields)) \in Nat
    BY DecidedFinite, DueFinite DEF DecidedInv
  <2>3. Cardinality(RowsOf(fields)) \in Nat
    BY RowsFinite DEF DecidedInv
  <2> QED
    BY <2>1, <2>2, <2>3
<1> QED
  BY <1>1, McpInvAlways, PTL
=============================================================================
