------------------------------- MODULE McpServer ------------------------------
(****************************************************************************)
(* mcp_server.py: the control plane as processes, one for each MCP host,    *)
(* over the database file that store.py keeps (module Store, whose steps    *)
(* are taken here as the body of the authorize tool).                       *)
(*                                                                          *)
(* A server reads a line, dispatches it and writes the answer before it     *)
(* reads the next.  The first tool call that needs the store opens it, and  *)
(* makes the schema when the file has no principal table: statement by      *)
(* statement, each committed at once, while other servers look at the same  *)
(* file, find tables missing, or hold it locked.                            *)
(* A name with an underscore is a wrong form of the definition that follows *)
(* it, which the mutation runs put in its place.                            *)
(****************************************************************************)
EXTENDS Store

CONSTANTS
  OtherTools,      \* tools called without what Store's constants describe
  OtherMethods,    \* the messages [method, id] other than tools/call
  Undispatchable,  \* the messages that dispatch() cannot take apart: not an object,
                   \*   params that are not one, a tool name that is not hashable
  MaxDifficulty    \* the leading zero bits that some digest of a root has

ASSUME McpAssumption ==
  /\ Registered = {}                \* the file does not exist at the start
  /\ \A m \in OtherMethods : m.method # "tools/call"
  /\ MaxDifficulty \in 0..256       \* the digest is SHA-256

VARIABLES
  schema,       \* the objects of schema.sql that exist in the file
  opened,       \* [Procs -> is _store set?]
  server,       \* [Procs -> the message that is being served, and where it is]
  requests,     \* how many messages were read
  answers,      \* history: what was written to the clients
  collisions,   \* history: [Procs -> how often connect() found its first table made]
  interrupted,  \* history: was a schema script cut short past its first statement?
  lost          \* history: the messages whose server was killed

mcp_vars == <<schema, opened, server, requests, answers, collisions, interrupted, lost>>
file_vars == <<db, tx, conn>>

-----------------------------------------------------------------------------
(* Messages *)

ToolCalls ==
  [tool : {"mint_root"}, ident : Mints] \cup [tool : {"vouch"}, vouch : Vouches]
    \cup [tool : {"authorize"}, req : Requests] \cup [tool : OtherTools]
Messages == ToolCalls \cup OtherMethods \cup Undispatchable

TOOLS == {"mint_root", "attenuate", "vouch", "authorize", "verify", "audit_query"}

(* The arguments without which a handler raises before it needs the store.   *)
Required == [mint_root |-> "ident", vouch |-> "vouch", authorize |-> "req"]
Complete(m) == m.tool \in DOMAIN Required => Required[m.tool] \in DOMAIN m

NeedsStore(m) == m \in ToolCalls /\ m.tool \in TOOLS \ {"attenuate", "verify"} /\ Complete(m)

(* What dispatch() answers without the store.  A message without an id is    *)
(* answered only if its method is known.                                     *)
DirectAnswer(m) ==
  IF m \in ToolCalls
  THEN CASE m.tool \notin TOOLS -> "unknown tool" [] ~Complete(m) -> "isError" [] OTHER -> "result"
  ELSE IF m.method \in {"initialize", "tools/list"} THEN "result"
  ELSE IF m.method = "notifications/initialized" \/ m.id = None THEN "none"
  ELSE "method not found"

(* mine() tries one nonce after the other until a digest has the difficulty  *)
(* that the client asked for; for more bits than any has it never returns.   *)
Minable(ident) == ident.difficulty <= MaxDifficulty

-----------------------------------------------------------------------------
(* The schema: the objects that the tools touch, in the order of schema.sql. *)

\* the table that connect() looks for made among the others
Script_reordered == <<"provenance_source", "spend_ledger", "principal", "triage_incident",
                      "decision_audit", "append-only triggers">>
Script == <<"principal", "provenance_source", "spend_ledger", "triage_incident",
            "decision_audit", "append-only triggers">>

Idle == [at |-> "listen", next |-> 0, n |-> 0, msg |-> None, status |-> ""]

McpInit ==
  /\ Init
  /\ schema = {} /\ opened = [p \in Procs |-> FALSE]
  /\ server = [p \in Procs |-> Idle]
  /\ requests = 0 /\ answers = {}
  /\ collisions = [p \in Procs |-> 0] /\ interrupted = FALSE /\ lost = {}

GoAt(p, step) == server' = [server EXCEPT ![p].at = step]

Opens(p, yes) == opened' = [opened EXCEPT ![p] = yes]

\* the exception of a handler leaves main()
Answering_uncaught(p, outcome) ==
  server' = [server EXCEPT ![p] = IF outcome # "isError" THEN [@ EXCEPT !.at = "respond", !.status = outcome]
                                  ELSE Idle]
Answering(p, outcome) == server' = [server EXCEPT ![p].at = "respond", ![p].status = outcome]

-----------------------------------------------------------------------------
(* main() and dispatch() *)

(* A handler opens the store if no handler has before. *)
WithStore(p) == IF opened[p] THEN "handle" ELSE "connect"

Receive(p, m) ==
  /\ server[p].at = "listen" /\ requests < MaxCalls
  /\ requests' = requests + 1
  /\ server' = [server EXCEPT ![p] = [Idle EXCEPT
       !.msg = m, !.n = requests',
       !.at = IF m \in Undispatchable THEN "raise" ELSE IF ~NeedsStore(m) THEN "respond"
              ELSE IF m.tool = "mint_root" THEN "mine" ELSE WithStore(p),
       !.status = IF m \in Undispatchable \/ NeedsStore(m) THEN "" ELSE DirectAnswer(m)]]
  /\ UNCHANGED <<vars, schema, opened, answers, collisions, interrupted, lost>>

(* What an answer tells of a decision: its fields, if it carries one. *)
Given(served) ==
  IF served.status \in Codes THEN {Fields(served.msg.req, served.status)} ELSE {}

Respond(p) ==
  /\ server[p].at = "respond"
  /\ answers' = IF server[p].status = "none" THEN answers
                ELSE answers \cup {[n |-> server[p].n, given |-> Given(server[p])]}
  /\ server' = [server EXCEPT ![p] = Idle]
  /\ UNCHANGED <<vars, schema, opened, requests, collisions, interrupted, lost>>

(* An exception that dispatch() does not catch ends the process.  It may be  *)
(* started again: it then listens, and until then it receives nothing.       *)
Uncaught(p) ==
  /\ server[p].at = "raise"
  /\ Close(p)
  /\ server' = [server EXCEPT ![p] = Idle] /\ Opens(p, FALSE)
  /\ collisions' = [collisions EXCEPT ![p] = 0]
  /\ UNCHANGED <<pc, frame, used, schema, requests, answers, interrupted, lost>>

-----------------------------------------------------------------------------
(* store(): connect(), and the Store when it succeeds *)

HasSchema == "principal" \in schema

(* The exception leaves store() with _store unset; its connection is dropped.*)
ConnectFails(p) == Close(p) /\ Answering(p, "isError") /\ UNCHANGED opened

Look(p) ==
  /\ server[p].at = "connect"
  /\ \/ HasSchema /\ Read(p) /\ Opens(p, TRUE) /\ GoAt(p, "handle")
     \/ /\ ~HasSchema /\ Read(p) /\ UNCHANGED opened
        /\ server' = [server EXCEPT ![p].at = "script", ![p].next = 1]
     \/ ~CanRead(p) /\ ConnectFails(p)
  /\ UNCHANGED <<pc, frame, used, schema, requests, answers, collisions, interrupted, lost>>

CanCreate(p) == CanWrite(p) /\ CanCommit(p)

\* CREATE TABLE IF NOT EXISTS
Exists_ignored(k) == FALSE
Exists(k) == Script[k] \in schema

Create(p) ==
  LET k == server[p].next IN
  /\ server[p].at = "script" /\ CanCreate(p) /\ ~Exists(k)
  /\ schema' = schema \cup {Script[k]}
  /\ \/ /\ k < Len(Script) /\ UNCHANGED opened
        /\ server' = [server EXCEPT ![p].next = k + 1]
     \/ k = Len(Script) /\ Opens(p, TRUE) /\ GoAt(p, "handle")
  /\ UNCHANGED <<vars, requests, answers, collisions, interrupted, lost>>

CreateFails(p) ==
  LET exists == Exists(server[p].next) IN
  /\ server[p].at = "script" /\ (exists \/ ~CanCreate(p))
  /\ ConnectFails(p)
  /\ collisions' = [collisions EXCEPT ![p] = IF exists THEN @ + 1 ELSE @]
  /\ interrupted' = (interrupted \/ server[p].next > 1)
  /\ UNCHANGED <<pc, frame, used, schema, requests, answers, lost>>

-----------------------------------------------------------------------------
(* The handlers *)

(* One write and its commit; a statement on a missing table raises before it *)
(* opens a transaction.                                                      *)
WriteTable(p, table, new) ==
  /\ \/ table \in schema /\ Commit(p, new) /\ Answering(p, "result")
     \/ table \in schema /\ Raises(p, new, TRUE) /\ Answering(p, "isError")
     \/ table \notin schema /\ UNCHANGED file_vars /\ Answering(p, "isError")
  /\ UNCHANGED <<pc, frame, used, schema, opened, requests, answers, collisions, interrupted, lost>>

Handling(p, tool) == server[p].at = "handle" /\ server[p].msg.tool = tool

(* h_mint_root() mines the token before it asks for the store. *)
Mining(p) ==
  /\ server[p].at = "mine" /\ Minable(server[p].msg.ident)
  /\ GoAt(p, WithStore(p))
  /\ UNCHANGED <<vars, schema, opened, requests, answers, collisions, interrupted, lost>>

h_mint_root(p) ==
  /\ Handling(p, "mint_root")
  /\ WriteTable(p, "principal", WithPrincipal(Image(p), server[p].msg.ident))

h_vouch(p) ==
  /\ Handling(p, "vouch")
  /\ LET v == server[p].msg.vouch
     IN  WriteTable(p, "provenance_source", WithTier(Image(p), v[1], v[2]))

(* Both of its SELECTs read the same table, and neither changes it. *)
h_audit_query(p) ==
  /\ Handling(p, "audit_query")
  /\ \/ "decision_audit" \in schema /\ Read(p) /\ Answering(p, "result")
     \/ "decision_audit" \in schema /\ ReadBusy(p) /\ Answering(p, "isError")
     \/ "decision_audit" \notin schema /\ UNCHANGED file_vars /\ Answering(p, "isError")
  /\ UNCHANGED <<pc, frame, used, schema, opened, requests, answers, collisions, interrupted, lost>>

h_authorize(p) ==
  /\ Handling(p, "authorize")
  /\ Call(p, server[p].msg.req) /\ GoAt(p, "authorize")
  /\ UNCHANGED <<schema, opened, requests, answers, collisions, interrupted, lost>>

TableOf ==
  [resolve |-> "provenance_source", budget |-> "spend_ledger", charge |-> "spend_ledger",
   emit |-> "triage_incident", last_hash |-> "decision_audit", record |-> "decision_audit"]

HasTable(step) == step \in DOMAIN TableOf => TableOf[step] \in schema

(* A statement of Store.authorize().  The decision that it returns is what   *)
(* the client is given; an exception that leaves it is an error.             *)
Authorize(p) ==
  /\ server[p].at = "authorize" /\ HasTable(pc[p])
  /\ \/ Return(p) /\ Answering(p, frame[p].code)
     \/ Proceeding(p) /\ IF pc'[p] = "idle" THEN Answering(p, "isError") ELSE UNCHANGED server
  /\ UNCHANGED <<schema, opened, requests, answers, collisions, interrupted, lost>>

NoSuchTable(p) ==
  /\ server[p].at = "authorize" /\ ~HasTable(pc[p])
  /\ Leave(p) /\ Answering(p, "isError")
  /\ UNCHANGED <<file_vars, schema, opened, requests, answers, collisions, interrupted, lost>>

-----------------------------------------------------------------------------
(* A server is killed, wherever it is, and started again. *)
Restart(p) ==
  /\ used.crashes < MaxCrashes
  /\ server[p].at # "listen" \/ opened[p]
  /\ used' = [used EXCEPT !.crashes = @ + 1]
  /\ Close(p)
  /\ Goto(p, "idle") /\ frame' = [frame EXCEPT ![p] = EmptyFrame]
  /\ server' = [server EXCEPT ![p] = Idle] /\ Opens(p, FALSE)
  /\ collisions' = [collisions EXCEPT ![p] = 0]
  /\ interrupted' = (interrupted \/ (server[p].at = "script" /\ server[p].next > 1))
  /\ lost' = lost \cup {server[p].n}
  /\ UNCHANGED <<schema, requests, answers>>

Serving(p) ==
  \/ Respond(p) \/ Uncaught(p) \/ Look(p) \/ Create(p) \/ CreateFails(p)
  \/ Mining(p) \/ h_mint_root(p) \/ h_vouch(p) \/ h_audit_query(p) \/ h_authorize(p)
  \/ Authorize(p) \/ NoSuchTable(p)

McpNext ==
  \E p \in Procs :
    \/ \E m \in Messages : Receive(p, m)
    \/ Serving(p)
    \/ Restart(p)

McpSpec == McpInit /\ [][McpNext]_<<vars, mcp_vars>>

(* A server runs as long as it has a line to serve; every wait for a lock    *)
(* has its timeout.  (Mining is no step of a server whose mine() does not    *)
(* come to an end.)                                                          *)
McpFairSpec == McpSpec /\ \A p \in Procs : WF_<<vars, mcp_vars>>(Serving(p))

-----------------------------------------------------------------------------
(* Properties *)

Statuses == {"result", "isError", "unknown tool", "method not found", "none"} \cup Codes

(* The store and the servers have their types; a server is inside            *)
(* Store.authorize() exactly when it serves that tool, has a store when it   *)
(* handles a message, and knows its answer when it writes it.                *)
McpTypeOK ==
  /\ TypeOK
  /\ schema \subseteq ToSet(Script) /\ opened \in [Procs -> BOOLEAN]
  /\ server \in [Procs -> [at : {"listen", "raise", "mine", "connect", "script", "handle",
                                 "authorize", "respond"},
                           next : 0..Len(Script), n : 0..MaxCalls,
                           msg : Messages \cup {None}, status : Statuses \cup {""}]]
  /\ requests \in 0..MaxCalls
  /\ answers \subseteq [n : 1..MaxCalls, given : SUBSET AllFields]
  /\ \A p \in Procs :
       /\ pc[p] # "idle" <=> server[p].at = "authorize"
       /\ server[p].at \in {"handle", "authorize"} => opened[p]
       /\ server[p].at = "respond" => server[p].status # ""
       /\ opened[p] => "principal" \in schema

(* The schema of a file is made once, by one server: what exists of it is a  *)
(* beginning of the script, and as long as it is not all of it, one server   *)
(* is at the next statement, or the one that was has been cut short.         *)
SchemaHasOneCreator ==
  LET made == Cardinality(schema)
      Creating(p) == server[p].at = "script" /\ server[p].next > 1
  IN  /\ schema = {Script[i] : i \in 1..made}
      /\ \A p \in Procs : Creating(p) => server[p].next = made + 1
      /\ \A p, q \in Procs : Creating(p) /\ Creating(q) => p = q
      /\ made \in 1..(Len(Script) - 1) => interrupted \/ \E p \in Procs : Creating(p)

(* A server that loses the race for the schema fails one message with it and *)
(* opens the store at the next: a half-made schema never locks it out.       *)
OpensAtSecondTry == \A p \in Procs : collisions[p] <= 1

RowsOf(fields) == {i \in DOMAIN db.audit : db.audit[i].fields = fields}
DecidedFor(fields) == {a \in answers : fields \in a.given}

(* "log of EVERY decision" (schema.sql): each decision that was given to a   *)
(* client has an audit row of its own that says the same, on a file whose    *)
(* tables are still being made or were never all made as on a whole one.     *)
AnsweredDecisionsAreAudited ==
  \A fields \in AllFields : Cardinality(DecidedFor(fields)) <= Cardinality(RowsOf(fields))

(* A message that asks for an answer and does not keep its server from one:  *)
(* dispatch() can take it apart, and what it wants mined can be.             *)
Answerable(m) ==
  /\ m \notin Undispatchable
  /\ ~NeedsStore(m) => DirectAnswer(m) # "none"
  /\ NeedsStore(m) /\ m.tool = "mint_root" => Minable(m.ident)

(* Every such message that a server has read is answered, or its server is   *)
(* killed, whatever other servers do to the file and whatever went wrong in  *)
(* the messages before.                                                      *)
EveryRequestIsAnswered ==
  \A n \in 1..MaxCalls :
    (\E p \in Procs : server[p].n = n /\ Answerable(server[p].msg)) ~>
      (n \in lost \/ \E a \in answers : a.n = n)
=============================================================================
