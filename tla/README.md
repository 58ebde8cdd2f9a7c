# agentic-iam in TLA+

agentic-iam decides whether an AI agent may make a tool call. A *capability token* says what
the agent was delegated, a *provenance lattice* says how far the data it acts on can be trusted,
a *policy decision point* runs five checks and charges a budget, a *SQLite store* makes all of it
durable and auditable, a *gateway* is the only path to the real tool, a *containment tree* decides
how much rope an agent process has, a *detective layer* reads what happened afterwards, a *hook*
applies a small version of the same to a coding agent, and an *MCP server* serves the store to a
host. This directory holds the specifications of that code, the instances of them that TLC checks,
and the theorems that TLAPS proves.

Everything runs in this directory:

    tlc -workers 2 -config StoreShared.cfg MCStore    # check one instance
    tlapm StoreProofs.tla                             # check the proofs of one module

`PROJECT.json` is the index: components, runs, the source lines each definition stands for, for
each property a plausible bug that breaks it, the findings, the hazards and the theorems.


## 1. Inventory

| Component | State | Operations | What makes it correct |
|---|---|---|---|
| Capability token, `seam7_delegation.py` | none (tokens are values: identifier, caveat chain, signature) | `mint_root`, `attenuate`, `verify`, `mine`, `pow_valid` | a chain of caveats of any length and order only narrows; nothing verifies that the verifier's key did not sign |
| Provenance lattice, `provenance.py` | none | `Manifest.min_tier`, the resolver interface | a lineage is worth its weakest link, an empty one nothing |
| Decision point, `agent_iam.py` | spend per root, the sink's packets | `authorize`, `SpendLedger.spent/charge`, `TriageSink.emit` | the first failing check decides; the spend of a root stays within its ceiling; a refusal has its incident, a PENDING one a prerequisite that suffices |
| Store, `store.py` + `schema.sql` | tables `principal`, `provenance_source`, `spend_ledger`, `triage_incident`, `decision_audit`, `identity_attestation`, `tool_policy` (`issued_token` and `reputation` are in the schema and unused); one connection per process and its open transaction | `authorize`, `register_principal`, `vouch`, `enroll`, `svid_for`, `role_ceiling`, `register_tool`, `verify_chain`, `connect` | the same promises as the decision point, for the processes that share one file; the audit log is a chain |
| Containment, `containment.py` | a tree of nodes with level, streak and record; the runtime's processes | `spawn`, `reap`, `record_outcome`, `verdict_for`, `attenuate_to_level` | nothing outlives the box it was born in; trust is earned and capped; the irreversible is always gated |
| Gateway, `gateway.py` | the tool registry, a challenge counter, the event log | `register`, `invoke` | a tool runs only for an attested principal that proved its key, after an ALLOW that was charged; a refusal leaves its incident |
| SVID issuer, `issuer.py`; proof of possession, `authn.py` | a key pair | `issue_svid`, `verify_svid`, `prove`, `verify_pop` | only the holder of the bound key passes, and a proof is good once |
| Detective layer, `detective.py` | none between sweeps; a sweep's list of incidents | the triggers' `scan`, `ShadowMonitor.sweep` | a burst inside a window is reported, a loop once; nothing is reported that the log does not show |
| Hook, `hooks/pretooluse_gate.py` | an audit file that every hook process appends to | `classify`, `_audit`, `main` | the worst segment of a command decides; every decision is in the file; the file is a chain |
| MCP server, `mcp_server.py` | one `Store` per server process, opened at its first use | six tools over the operations above | a message that can be answered is, a failed one as such; a decision that was given is in the audit log; the schema is made once |
| Ed25519 reference, `ed25519_ref.py` | none | sign, verify | RFC 8032 |

How they interact. `Gateway.invoke` calls `verify`, the issuer and the proof of possession, then
`Store.authorize`, then `verdict_for`, then the tool. `Store.authorize` runs
`agent_iam.authorize` with the store's ledger, sink and resolver in the place of the in-memory
ones, and then appends the audit row. Every MCP server of a user opens the same
`control-plane.db`, so the store's tables are shared between *processes*; nothing in the code is
threaded. The containment manager calls a pluggable runtime. The detective layer reads the
gateway's event log after the fact and emits into the same sink. Hook processes share nothing
with the rest but the idea; they share one file with each other.

What is hard, and where each item is a hazard in `PROJECT.json`:

- *Interleaving.* `Store.authorize` is three transactions and several reads, none of which is
  protected from another process: spend is read and then charged, tiers are read one by one, the
  newest hash is read and then chained to. `invoke` reads a row twice that others may replace.
  Hooks read the last line and append later. `connect` looks for a table and makes it later.
- *Failure.* A process may die between two transactions. A statement may be refused by a foreign
  key or a lock, and then raises out of `authorize` with the implicit transaction still open:
  nothing in `store.py` calls `rollback()`, and the MCP server catches the exception and keeps the
  connection. A line of the hook's file may be cut short. A sweep's sink may raise.
- *Recursion cut short.* A runtime whose `kill()` raises leaves a reap half done.
- *Long sequences of legal calls.* Attenuation chains, two tokens of one root with different
  budgets, promotions and demotions up and down a tree, a name that is used twice, a proof kept
  and presented again.
- *Boundaries.* Equality in the budget, tier, promotion and window comparisons.


## 2. Modules

    Seam7 <- Decision <- AgentIAM <--------- Gateway <- MCGateway, GatewayProofs
                  ^          ^ (refined by)    | | (INSTANCE)        | (INSTANCE)
                  +------- Store <- MCStore ---+ |                   |
              Sqlite --------^  ^                |                   |
                                |                |                   |
                                +- McpServer <- MCMcpServer, McpServerProofs
                                |                |                   |
                                +- StoreProofs <- StoreLogProofs     |
                                                 |                   |
    Containment <- MCContainment <---------------+                   |
             ^---- ContainmentProofs <-------------------------------+
    Detective <- MCDetective, DetectiveProofs
    FoldProofs <- StoreProofs, GatewayProofs, DetectiveProofs
    HookAudit <- MCHookAudit, HookAuditProofs

**Seam7** is the token as pure operators. A capability mask is a set, so `&` is `\cap`. HMAC is
symbolic and collision free: `Hmac(key, msg)` appends, and two tags agree exactly when the same
key signed the same messages in the same order. The proof-of-work nonce remembers the root it was
mined for and the zero bits it reaches.

**Decision** is `agent_iam.authorize` without its state: the resolved tier, the five checks in
order (`Screen` is checks 1 to 4, `Decide` all five), the three access states and the incident
packet. Two refusals are one incident in the model when they are in the code (`INSERT OR IGNORE` on a
hash of the packet), so `TriagePacket` keeps every field that the hash reads, and of the wording of
`detail` what varies in it. AgentIAM and Store both use it, as `store.py` uses `agent_iam.authorize` unchanged.

**AgentIAM** is the decision point as a machine over its in-memory ledger, sink and resolver; one
`authorize` is one step (`Allow` or `DenyOrPend`). It is also the *abstract specification* of the
store ("satisfy the SAME interfaces, so agent_iam.authorize() runs unchanged", `store.py`) and the
decision step of the gateway.

**Sqlite** is the engine as `store.py` drives it, an external component: the committed content
`db`, the writer's uncommitted content `tx`, and what each connection holds (`conn`: nothing, a
transaction with no lock, a read lock, the write lock, the write lock with a commit refused).
Python's default isolation level opens a transaction at an `INSERT` and not at a `SELECT`.

**Store** is `Store.authorize` statement by statement for several processes. `pc[p]` is the
statement, `frame[p]` the local variables:

    idle -> resolve* -> screen -> budget -> charge ------> last_hash -> record -> idle
                           |         |                        ^
                           +---------+--------> emit ---------+

A statement that raises goes back to `idle` and leaves the connection as it is. Other actions:
`RegisterPrincipal`, `Vouch`, and `Crash`, which rolls the open transaction back.
`Narrowings` are the keyword arguments that holders give to `attenuate`; only the property about
delegation, `AttenuationNeverUnlocks`, reads them.
Actions and code: `ResolveSource` is `tier_of` in `min_tier`'s generator, `Check` checks 1-4,
`ReadSpent` check 5, `Charge` `ledger.charge`, `EmitIncident` `sink.emit`, `ReadLastHash` the first
half of `DecisionAuditLog.record`. Its second half ends the call: `Return` when the row is committed,
`RecordRaises` when it is refused. `Return` is the one way to leave `authorize` with a decision, and
what the MCP server answers with rests on it.

**Containment** is `ContainmentManager`. `Spawn` and `RecordOutcome` are one step each. `reap` is
recursive and calls the runtime once for every node, so it is taken call by call: `reaping` is its
stack, `ReapChild` a turn of the loop and `ReapSelf` the marking and killing of a node. `Faults`
says which of the runtime's calls may raise.

**Gateway** is `Gateway.invoke`, with `pc` at its statements:

    idle -> svid -> role -> pop -> authorize -> act -> log -> idle
      |      (only with a trust bundle)  |       |      ^
      +------------- any of them refuses-+-------+------+

It composes AgentIAM (whose `Authorize` is its decision) and Containment (whose `Next` is its
`Manage`, and whose `verdict_for` its verdict). `Prove` calls the client's signer, which may
answer with its key, with a signature it made before, with none, or raise. `Execute` is the tool,
which may raise. `Enroll` and `Vouch` are other processes and come between any two statements;
`Register` and `Manage` belong to the thread that calls `invoke`, and come between calls.
Every statement of the store may raise, and `invoke` catches none of it: the SELECTs of `ReadSvid`
and `ReadRole`, the `emit` of a refusal (`Reject`), `Store.authorize` before or after the write of
its decision (`AuthorizeRaises`), and the second resolution of the lineage for the event
(`LogRaises`), when the tool may already have run. `lost` is a history of what was charged for
calls that such an exception ended.
Signatures are symbolic: `Sign(key, msg)` is made by the key's owner alone.
`attenuate_to_level`, the one operation of `containment.py` on tokens, is here, where Seam7 and
Containment meet. That AgentIAM's one step may stand for the store's several is what the
refinement says for one process, and what the several-process properties of Store qualify.

**Detective** has the triggers as folds over an event log and `ShadowMonitor.sweep` as a machine:
a scan for each trigger over the log as it is then, then one `emit` at a time. `Step` is the turn
of the loop that the three windowed `scan`s share, with what each counts, keys and measures by
(`Counts`, `Key`, `Measure`, `Full`), and `Pass` the loop. A bucket, in the code a list of times, or
of times and costs, is the set of the positions of its events in the log: two events at one time
are two members, and what the code reads of a bucket (its length, its sum, the times) is read off
the log.

**HookAudit** is `main`, `classify` and `_audit` of the hook for several processes on one file.
A command is the sequence of its segments, each the set of pattern lists it matches. A write that
is cut short leaves nothing, a part of the line, or the line without its end.

**McpServer** is `main`, `dispatch`, the handlers and `store()` over the steps of Store: the
authorize tool *is* Store's `Proceeding` and `Return`, and its answer is what they come back with:
the decision on `Return`, `isError` when a statement raises out of `authorize` (`mcp_server.py:195-200`).
What a client was told (`Given`) is a history of the answer, not read off the tables. A
message that `dispatch` cannot take apart (`Undispatchable`: not an object, `params` that are not
one, a tool name that is not hashable, `mcp_server.py:175` and `189-192`) raises outside the `try`
and out of `main`: `Uncaught` ends the process, which answers nothing and reads no more until it is
started again. `mint_root` mines before it asks for the store (`Mining`); for a difficulty that no
digest has (`Minable`) `mine` never returns, and neither does the server. `Look`, `Create` and `CreateFails` are
`connect()`; each statement of the schema script is a step, for `executescript` commits first and
then runs each statement on its own.

The `*Proofs` modules hold the theorems, the `MC*` modules the small instances. A name with an
underscore (`Charged_absolute`) is a deliberately wrong form of the definition that follows it;
nothing uses it but the mutation runs, which put it in that definition's place and see that a
property notices. (`verdict_for`, `max_children`, `h_vouch` and the like are the code's own names.)

### Abstractions

- Costs, budgets and times are natural numbers (the times of events integers); the code has
  floats. Rounding is not modelled.
- HMAC, SHA-256, Ed25519 and the proof of work are symbolic. Forged tokens are the ones an
  instance lists (another key, a caveat cut off).
- Of an incident's wording only what varies is kept: why a token was refused, the capabilities a
  role lacks, which purpose test failed, the sources to vouch, the sums a BUDGET refusal quotes, the
  count or sum of a detective one. A BUDGET refusal reads the spend a second
  time for its text; the model takes both readings from one statement.
- The sources in the request hash are a set where the code has a sorted list.
- A source without a row is UNATTESTED, a root without a ledger row has spent 0, in the tables as
  in the code's defaults.
- An `INSERT` and its `commit()` are one step: a crash between them rolls back, and a writer that
  finds a healthy writer waits for it. The busy timeout is long compared with a healthy
  transaction, so what expires it is a connection that an earlier exception left in a transaction.
- The `killed` list of SimRuntime and a node's `name` are left out: nothing reads them.
- `PROMOTE_AFTER` is 5 in the code and a parameter here; so are the detective windows and
  thresholds.
- In Gateway every root is in the mint ledger (what happens to one that is not is Store's
  subject), and `authorize` is one step, which may raise before or after its one write. A
  transaction that an exception leaves open, and that a later statement commits or is refused by, is
  Store's subject too.
- In McpServer whether a difficulty can be reached is a bound on its zero bits. A message that
  `json.loads` itself cannot take (nested past the recursion limit, not UTF-8) is one of
  `Undispatchable`.
- Whether a payload carries an injection marker, and which patterns a segment matches, are facts
  about the payload and the segment. Regular expressions are data here.
- The script of the schema keeps the objects that the tools touch, in their order.


## 3. Runs

Twelve runs; each asks a different question. None checks for deadlock: calls are bounded, and the
systems come to rest after the last.

| Run | Instance | Shows |
|---|---|---|
| `store_shared` | three processes, three calls of two costs on one root and one refused, two sources and two vouches | `EveryChargeIsAudited` and `NoTransactionLeftOpen` under contention, `AllowedOnVouchedData` although tiers are read one at a time |
| `store_faults` | two processes, an unregistered root that may be registered, a crash, four calls, fairness | `OverspendBounded`, `AuditedAllowsAreCharged`, `AuditIsATree`, `RefusalsAreChronicled` although either of its two commits may fail, and `EveryCallEnds` with processes that hold locks against each other |
| `store_single` | one process, two roots, every reason for a refusal, tokens of two budgets, of another key and with a caveat cut off, tiers that rise and fall, a crash | `ImplementsInMemory` (refinement of AgentIAM), `BudgetCeiling`, `AllowsWithinBudget` (the budget of the call's own token, where the root has a larger one), `ChainIntact`; over every state reached, `PrerequisiteSuffices`, and `AttenuationNeverUnlocks` for each pair of added caveats, the widening attempts included |
| `store_race` | two processes, two calls | **violated**: `BudgetCeiling` |
| `store_fork` | two processes, two calls | **violated**: `ChainIntact` |
| `containment_life` | four nodes, four outcomes, a runtime whose `spawn()` and `kill()` may raise, every starting level of the top node | `NoOrphans`, `NoOrphanProcess`, `EarnedSlowly` |
| `containment_reap` | four nodes, a runtime that does not raise, names used twice | `RunningIsAlive` |
| `gateway` | two calls of eight kinds (signers that answer, retry, raise or are absent, a forged and an unbound token, a token shaped by `attenuate_to_level`), gateways with and without a trust bundle, a trusted node and its child, four attestation rows, two changes by others, any statement of the store raising | `EveryChargeHasItsCall`, `RunsAreAttested`, `BoundRunsAreProven`, `ProofsServeOnce`, `RefusalsHaveIncidents`, `RunsAreEarned` |
| `gateway_shadow` | the same, both tools registered | **violated**: `ShadowNeverExecutes` |
| `detective` | five events of three kinds at two times in any order, a log that has fired before, one restart | `SinkIsExplained`, `SweptIsReported`, `BurstsAreFound`, `OneLoopOneIncident` |
| `hook_audit` | two hooks at a time, three calls, a failed write, a kill, fairness | `AuditIsATree`, `ChainUnlessOverlapped`, `OnlyATornLineSilences`, `ChainingHidesNothing`, `AppendOnly`, `EveryCallIsAnswered` |
| `mcp_server` | two servers, a file that does not exist, three messages, among them one that cannot be dispatched, a method nobody knows with and without an id, a difficulty that cannot be mined; a kill, fairness | `SchemaHasOneCreator`, `OpensAtSecondTry`, `AnsweredDecisionsAreAudited`, `EveryRequestIsAnswered` |

### What the violated ones mean

- `store_race`. Two processes read the same spend, both pass check 5, both charge. The in-memory
  decision point cannot do this and one process cannot either; `OverspendBounded` says how bad it
  gets.
- `store_fork`. Two processes chain their rows to the same predecessor. `verify_chain()` then
  answers false for a log nobody touched, and goes on doing so. `AuditIsATree` is what is left.
- `gateway_shadow`. `verdict_for` answers GATE for an irreversible tool before it looks at the
  level, and `invoke` withholds only DENY and OBSERVE_ONLY, its GATE being the ALLOW it already
  has. A node in SHADOW therefore runs every irreversible tool its token allows and none of the
  reversible ones. `RunsAreEarned` says what is left.

### What else the specifications show

No run is spent on these; each follows from a definition that a run exercises.

- A process that dies between `charge` and `record` leaves a charged ALLOW without an audit row.
  `EveryChargeIsAudited` is checked where nothing crashes or raises; `AuditedAllowsAreCharged`,
  the direction that protects the budget, where it does.
- A call that cites no source is PENDING with a prerequisite nobody can fulfil;
  `PrerequisiteSuffices` is about the calls that cite one.
- A root that is minted and registered a second time with another budget keeps its first row
  (`INSERT OR IGNORE`, `store.py:48`): the recorded budget (`schema.sql:34`) is not the ceiling that
  check 5 applies.
- Demoting a node leaves its children above it: the cap at the parent's level is applied at a
  promotion only (`containment.py:191`). `RankIsInherited` says that nothing else does.
- Two children of one parent may have one name, hence one id, by which the runtime starts and
  kills (`containment.py:159`). `NoOrphanProcess` needs the names to be distinct.
- SHADOWED, CONTAINED_DENY and raising calls have been charged: "only executed calls spend"
  (`detective.py:143`) holds for what the trigger counts, not for the ledger.
  `EveryChargeHasItsCall` is the exact account. A tool or a signer that raises leaves no event, and
  neither does a call whose store raises: a tool that ran is missing from the event log when its
  lineage cannot be resolved once more (`gateway.py:97`).
- The challenge counter belongs to the gateway object and starts again with it.
- The SVID and the role grant are two SELECTs of one row. A row that was replaced between them
  gives a call the binding of one row and the grant of another, which is as much as
  `RunsAreAttested` states.
- A token that `attenuate_to_level` has shaped is not narrowed when its node is demoted.
- "Hash-chained" (`hooks/pretooluse_gate.py`) holds where no two hooks overlap; a line cut short
  ends the audit for good, for each later hook fails to parse the last line and swallows that.
- A `tool_input` that is not a mapping ends the hook before it audits or answers.
- A server killed while it makes the schema leaves a file on which every later `authorize` fails,
  after its charge when the ledger is one of the tables that exist; each retry charges again.
- A message that `dispatch` cannot take apart ends the server, unanswered, and with it what the host
  has already written behind it; a `mint_root` of 257 bits or more keeps the server mining for good
  (`seam7_delegation.py:96`). Of the hazards of the server's loop these two are real, and
  `EveryRequestIsAnswered` is about every other message.
- `BudgetCeiling` is about the largest budget that a root's tokens have. `AllowsWithinBudget` is
  about each token: the ledger is shared by the root, and the smaller token is refused first.
- `BurstsAreFound` is stated for logs in the order of time. The windows of a log that is not may
  drop events for good.

### Bounds

The `Max*` constants count what happens in a behaviour; they are the only bounds, next to the
sizes of the sets. Three processes with three calls are enough for two to be between check and
charge while a third charges; with four calls and two processes one of them comes back after a
refused row. Two vouches lift both sources of a lineage between its two reads. A reap needs a
chain and siblings to be cut short between, which four nodes have; with `PROMOTE_AFTER = 2` four
outcomes are two levels, an interrupted streak, or a demotion and a new start. Two calls through
the gateway are what a replayed proof needs; two changes by others are a rotated key and a
narrowed role within one call. Five events are two full windows and one event at the edge. Three
hooks are two that overlap and one that reads what they left. Three messages are two that race for
the schema and one that finds what was left. What holds beyond these sizes is what section 4
proves.

Symmetry is used where the interchanged values appear in no constant expression of the instance
(processes, spawned nodes) and never with a temporal property.

### Fairness

Weak fairness everywhere, and only of code that runs on by itself. `Store!FairSpec`:
`Authorizing(p)`, for `authorize` is straight-line code, and each statement either runs or raises
when the busy timeout expires, so a process that is in a call always has a step.
`McpServer!McpFairSpec`: `Serving(p)`, for the same reason, while a message is being served.
A server in a `mine` that cannot succeed has no step there, as in the code it takes none that ends.
`HookAudit!FairSpec`: `Running(p)`, a hook that has started. Calls, messages, administration, crashes
and kills are never fair.


## 4. Proofs

All theorems hold for every value of the constants that satisfies the modules' named
assumptions: `RequestAssumption` and `CeilingAssumption` (Decision: requests are well typed, and
`Ceiling` really is a bound on the budgets of a root's tokens), `StoreAssumption` (finitely many
processes, at least one; `MaxCost` bounds the costs), `TokenAssumption` (Store: a signature and a
caveat chain are finite sequences, times and sums natural numbers, floors tiers),
`ContainmentAssumption`, `GatewayAssumption`, `HookAssumption`, `McpAssumption` and
`DetectiveAssumption`. TLC evaluates them in the runs. What a theorem assumes beyond these stands
in its statement and is named below.

**FoldProofs** are the lemmas about the community modules' folds on which the sums and scans rest.
The induction theorems of the library take a predicate as a parameter, which the provers cannot
instantiate; here a predicate is the *set* of the values it holds for and induction is the
existence of minimal elements (`WFMin`) of well-founded subset orders. From it: `Induction` on the
naturals, `SubsetInduction`, the table of a fold (`FoldTableExists`), and of a left fold over a
sequence its type (`FoldType`), its first value (`FoldEmpty`) and what an appended element does to
it (`FoldAppend`); the same for sums over finite sets (`SumRemove`, `SumAdd`, `SumMonotone`). A fold
of the model is first shown to be the fold of a function on pairs (`FoldIs`), then these apply.

**StoreProofs**
- `TypeCorrect`: `Spec => []TypeOK`. `TypeOK` contains what each statement needs of its frame
  (`FrameOK`), which makes it inductive.
- `OverspendIsBounded`: if every root is registered at the start, `Spec => []OverspendBounded`.
  The bound alone is not inductive: what limits the spend to come is which processes have passed
  their check. The invariant `SpendInv` gives each root an *anchor*, the process that passed its
  check last. When it passed, the spend and its own cost were within the ceiling; since then only
  the others that had passed before have charged. `AnchoredAt` says that the spend, the anchor's
  cost and `MaxCost` for each other process at its charge are within the ceiling plus
  `(N - 1) * MaxCost`. When a process passes its check it becomes the anchor; when one charges, the
  anchor stays and its count falls.
- `NoOpenTransaction`: under the same assumption `Spec => []NoTransactionLeftOpen`, a conjunct of
  the same invariant.
- `NothingForFree` (`[]AuditedAllowsAreCharged`): the audited ALLOWs and the calls still to be
  recorded are covered by the spend, through crashes, refused rows and transactions left open.
  `AccountsInv` states it of both contents of the file, for a rollback returns to `db` what a
  commit would have made `tx`. It assumes `PricedTools`: the property reads a row's cost off its
  tool's name, so the name must tell it, as the tool registry sees to.
- `ChargesAreAudited` (`[]EveryChargeIsAudited`), the equality, by `ExactInv`. It assumes
  `PricedTools`, `AllRegistered` and `MaxCrashes = 0`, and these are needed: a process that dies or a row
  that is refused after its charge is exactly what breaks the equality (section 3).
- `PrerequisiteIsEnough` (`[]PrerequisiteSuffices`): in a state with `TypeOK` the minimum over the
  lifted tiers of a nonempty lineage is at least the floor, and a decision that meets the floor is
  not PENDING.
- `AttenuationOnlyNarrows` (`[]AttenuationNeverUnlocks`). `Reaches(u, t)` says that what the verifier
  accepts of `u` it accepts of `t`, with the same root, no fewer capabilities and no smaller
  budget. `OneHop`: a caveat more keeps it. The folded HMAC of the longer chain agrees with the
  longer signature, so that of the shorter chain agrees with the shorter one (`AppendAlike`: that is
  where the collision-freeness of the HMAC is used), and the claims are those before it
  narrowed once (`NarrowType`). `Attenuated` carries it over all the caveats that one call of
  `attenuate` adds, `ReachesOnward` over hops, for tokens that came with any number of caveats.

**StoreLogProofs**, for any number of processes, with crashes, refused rows and transactions left
open:
- `AuditIsTree` and `RefusalsHaveIncidents`. The invariant `LogInv` speaks of the row that is still
  to be written: the hash that a process holds, and the incident of its refusal, are in the
  content *that process sees* (`Ready`), which is the committed one or its own transaction. One
  process writes at a time (`OneWriter`), the transaction extends what is committed (`Grows`), and
  what one process commits only adds to what the others see; a rollback takes back what no one
  else has seen.
- `AllowedOnVouched`, if every source is only ever vouched at one tier (`OnlyLifts`) and a tool's
  name tells its floor (`NamedTools`). The invariant `VouchInv` carries, for a call at each
  statement, that its tier is no higher than that of any source it has read *has now* in the
  content it sees, and past check 4 that it has read them all and meets the floor (`Kept`); tiers
  only rise under it (`KeptRises`).
- For one process, `Procs = {solo}`, and no assumption on the mint ledger:
  `OneProcessWithinCeiling`, `OneProcessChain`, and `OneProcessIsInMemory`, the refinement: every
  step of the store is a step of AgentIAM or none. The invariant `SoloInv` says that the
  transaction is never ahead of the file, and at each statement what the atomic decision would
  be: at `charge` it is ALLOW, at `emit` it is the code the process holds.
- `OneProcessKeepsToBudgets` (`[]AllowsWithinBudget`, with `PricedTools`). `FitInv` adds to `SoloInv`
  that a call between its charge and its row has a spend within its token's budget (`Budgeted`),
  where nothing but its own charge has come since its check. When the row is written, what the log
  then shows as allowed is covered by that spend, by the invariant of `NothingForFree`.

**ContainmentProofs** use one inductive invariant `Inv`. `LoopOK` is the heart of it: a live child
of a node on the reap stack is still to come in that frame's loop or is the next frame. With
`TreeOK` (a child is in its parent's list) it gives that a node is marked only when no child of it
lives.
- `TypeCorrect`, `NoOrphanEver` (`[]NoOrphans`), `RankIsInherited` (`[]OutranksOnlyDemoted`).
- `TrustIsEarned` (`[]EarnedSlowly`), through `Earned`: a level and the streak towards the next
  are paid for by good outcomes.
- `FloorIsGated` (`[]UngatedIsEarned`), from the two.
- `ProcessesAreReaped` (`[]NoOrphanProcess`, if no parent gives a name twice), by `ProcessInv`:
  the loop's promise holds for processes as for nodes (`LoopKills`), since an id belongs to one
  node (`NamesOK`).
- `TheLivingRun` (`[]RunningIsAlive`, if the runtime does not raise), by `FaultlessInv`.

**GatewayProofs** rest on `GatewayInv`, in three parts about the call under way. `ProofsInv`: the
proof it holds is its holder's signature of the challenge with the present number, hence of none
that ran before. `RowsInv`: the row in force is among those the call may have read, and past
`svid` one of them binds, past `role` one grants. `IncidentsInv`: at `log` with a refusal, its
incident is in the chronicle. An exception of the store leaves no event and so owes no incident.
- `NoProofServesTwice`, `HolderProves`, `AttestedOnly`, `NoSilentRefusal`.
- `ChargesAddUp` (`[]EveryChargeHasItsCall`): the ledger is the sum over the event log, the raised
  runs, the calls that the store ended after their charge and the call under way, by `AccountInv`,
  which adds to `GatewayInv` that the events and runs have costs. `LosingStep` moves the cost of the
  call under way to `lost`.
- `RunnersHaveEarned` (`RunsAreEarned`, an action property) is compositional: the gateway moves the
  containment tree by `Containment!Next` alone, so `ContainmentProofs!Inv` is invariant here by
  the lemmas proved there, and what it says of level and liveness meets the verdict at the step
  that runs the tool.

**HookAuditProofs**
- `TypeCorrect`, and `LogIsAppendOnly` from it.
- `AuditIsTree` (`TreeInv`: what a hook is about to chain to is in the file, or was torn).
- `ChainWithoutOverlap` (`ChainInv`: as long as none overlapped, one hook at most is in `_audit`,
  the file has no torn line but its last, and the hash held is that of the last line).
- `SilenceHasATornLine` (`SilenceInv`), `SegmentsAreCounted` (`DecidedInv`; `classify` is monotone
  in the segments).

**McpServerProofs**
- `OneCreator` and `SecondTryOpens`, by `McpInv`. `Progress(made)` says that the file has the first
  `made` objects of the script, that a server within the script is at the next one, and that an
  unfinished script has its server or was cut short; `Warned` that a server which lost the race
  does not run the script again.
- `EveryAnswerHasItsRow` (`[]AnsweredDecisionsAreAudited`), by `McpInv` and `DecidedInv` together: for
  the fields of any row, the decisions with these fields that clients were given and those a server
  is about to give (`Due`) are together no more than the rows with them. A decision is due from
  the step in which `Store.authorize` returns it, and what has to be proved there is Store's: that
  `Return` has committed one row more (`ReturnCommits`), with the code it returns and the request of
  the message that is served (`Sound`), while every other step and every exception keeps the rows that are there
  (`StatementStep`).

**DetectiveProofs**, for logs of any length and every window and threshold:
- `SinkExplained` and `SweptReported`, by `SweepInv`. Its lemma is that a longer log shows what a
  shorter one showed: the fold of a trigger over the log with one more event is one `Step` from the
  fold over the log, and a step only appends to what was found. Then what a sweep has collected
  is shown by the log as it is now, and contains what the triggers it is done with showed when it
  began.
- `OneIncidentALoop` (`[]OneLoopOneIncident`): after every prefix of the log, `threshold` for each
  incident of an actor and tool, and the calls of them that are still in a bucket, add up to no
  more than their calls (`ReportsPaid`); firing pays with the bucket it empties, and buckets of
  different keys are disjoint.
- `BurstsFound` (`[]BurstsAreFound`): after every prefix of a sorted log, of the counted events of a
  key in the window that ends there, either an incident is dated within it or all of them are
  in the bucket and are not too many (`Watching`). An event fires, or joins the bucket, or
  is not of the key; in each case what was in the window before stays accounted for.

**Only model-checked.** Liveness under fairness (`EveryCallEnds`,
`EveryCallIsAnswered`, `EveryRequestIsAnswered`) is outside what the prover does, as it is about
`ENABLED`. Every invariant and every other action property that a run checks is a theorem. The
violated properties have none, and their runs show why.


## 5. Not modelled

- `ed25519_ref.py`: field and curve arithmetic over 255-bit integers is out of TLC's reach, and
  the file is a transcription of the public reference code. Signatures are symbolic instead.
- The search of the proof of work (`mine`): a nonce is what it returns.
- The regular expressions of the hook and of the injection trigger, and the splitting of a command
  into segments: text.
- JSON-RPC framing, the wording of answers, the demos and the tests.
- `issued_token` and `reputation`, tables that no code reads or writes.

What could still be added: the gateway over the statements of Store in the place of AgentIAM's one
step, and several gateways on one file; a bound on the overspend where roots are missing from the
mint ledger, by anchoring over the open transaction as well.
