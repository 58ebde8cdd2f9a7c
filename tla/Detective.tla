------------------------------ MODULE Detective -------------------------------
(****************************************************************************)
(* detective.py: the triggers as folds over the gateway's event log, and    *)
(* the ShadowMonitor that sweeps the log out of band while the gateway goes *)
(* on appending to it.                                                      *)
(*                                                                          *)
(* A sweep scans the log once for each trigger, whatever it holds by then,  *)
(* and hands the incidents to the sink one INSERT OR IGNORE at a time.  The *)
(* log is a Python list and is lost with the process; the sink is a table.  *)
(* Of an incident's detail the count or sum it quotes is kept, and equal    *)
(* incidents have equal ids.  That a payload matches one of the injection   *)
(* patterns is a fact about the payload, here Marked.  A bucket, the list   *)
(* of the times (and costs) of some events, is the set of their positions.  *)
(* A name with an underscore is a wrong form of the definition that follows *)
(* it, which the mutation runs put in its place.                            *)
(****************************************************************************)
EXTENDS Integers, SequencesExt

CONSTANTS
  Kinds,                        \* the events but for their time
  Times,                        \* the times of events, in any order
  EarlyLogs,                    \* the logs that may have grown before the first sweep
  Marked,                       \* the payloads that match an injection pattern
  loop_window, loop_threshold,  \* the triggers' parameters
  fan_window, fan_threshold,
  spend_window, max_spend,
  MaxEvents, MaxRestarts        \* bounds of the model: events and restarts in all

Event(kind, ts) ==
  [ts |-> ts, accountable_root |-> kind.accountable_root, actor |-> kind.actor,
   tool |-> kind.tool, payload |-> kind.payload, cost |-> kind.cost, decision |-> kind.decision]

Events == {Event(kind, ts) : kind \in Kinds, ts \in Times}

ASSUME DetectiveAssumption ==
  /\ Times \subseteq Int /\ EarlyLogs \subseteq Seq(Events)
  /\ \A kind \in Kinds : kind.cost \in Nat
  /\ loop_window \in Nat \ {0} /\ fan_window \in Nat \ {0} /\ spend_window \in Nat \ {0}
  /\ loop_threshold \in Nat \ {0} /\ fan_threshold \in Nat \ {0} /\ max_spend \in Nat
  /\ MaxEvents \in Nat /\ MaxRestarts \in Nat

VARIABLES
  event_log,   \* Gateway.event_log
  sink,        \* the detective incidents in the chronicle
  todo,        \* the triggers that the sweep under way has yet to scan with
  incidents,   \* what it has found and not yet emitted
  sweeping,    \* is one under way?
  begun,       \* history: the length of the log when that sweep began
  swept,       \* history: the longest prefix that a completed sweep had in front of it
  past,        \* history: what the logs of earlier processes would have shown
  lost         \* history: how long those logs were

vars == <<event_log, sink, todo, incidents, sweeping, begun, swept, past, lost>>

-----------------------------------------------------------------------------
(* The triggers *)

Incident(name, e, quoted) ==
  [code |-> name, accountable_root |-> e.accountable_root, actor |-> e.actor, tool |-> e.tool,
   quoted |-> quoted, now |-> e.ts]

Recent(events, bucket, now, window) == {i \in bucket : now - events[i].ts < window}

Reset_kept(bucket) == bucket
Reset(bucket) == {}

(* The events that a trigger counts, its bucket for each, what it measures of *)
(* a bucket and when that is too much.                                        *)
Spends(e) == e.decision = "EXECUTED"
Counts(trigger, e) == trigger = "BUDGET_VELOCITY" => Spends(e)

LoopKey(e) == <<e.actor, e.tool, e.payload>>
Key(trigger, e) == IF trigger = "LOOP_STUTTER" THEN LoopKey(e) ELSE e.accountable_root

Window ==
  [LOOP_STUTTER |-> loop_window, FAN_OUT |-> fan_window, BUDGET_VELOCITY |-> spend_window]

Spend(events, bucket) == MapThenSumSet(LAMBDA i : events[i].cost, bucket)
Measure(trigger, events, bucket) ==
  IF trigger = "BUDGET_VELOCITY" THEN Spend(events, bucket) ELSE Cardinality(bucket)

LoopFull_over(n) == n > loop_threshold
LoopFull(n) == n >= loop_threshold
Full(trigger, n) ==
  CASE trigger = "LOOP_STUTTER"    -> LoopFull(n)
    [] trigger = "FAN_OUT"         -> n >= fan_threshold
    [] trigger = "BUDGET_VELOCITY" -> n > max_spend

(* One pass over the log with a bucket of recent events for each key: an     *)
(* event joins its bucket, what has left the window is dropped, and when the *)
(* bucket is full the trigger fires and empties it.  (Pruning before or      *)
(* after the event joins is the same: it is in its own window.)              *)
Step(trigger, events, acc, i) ==
  LET e      == events[i]
      k      == Key(trigger, e)
      recent == Recent(events, acc.buckets[k] \cup {i}, e.ts, Window[trigger])
      n      == Measure(trigger, events, recent)
      fires  == Full(trigger, n)
  IN  IF ~Counts(trigger, e) THEN acc
      ELSE [buckets |-> [acc.buckets EXCEPT ![k] = IF fires THEN Reset(recent) ELSE recent],
            out |-> IF fires THEN Append(acc.out, Incident(trigger, e, n)) ELSE acc.out]

Start(trigger) ==
  [buckets |-> [k \in {Key(trigger, kind) : kind \in Kinds} |-> {}], out |-> <<>>]

Pass(trigger, events) ==
  FoldLeftDomain(LAMBDA acc, i : Step(trigger, events, acc, i), Start(trigger), events)

InjectionMarker(events) ==
  FoldLeft(LAMBDA out, e : IF e.payload \in Marked THEN Append(out, Incident("INJECTION_MARKER", e, 0))
                           ELSE out,
           <<>>, events)

Triggers == <<"INJECTION_MARKER", "LOOP_STUTTER", "FAN_OUT", "BUDGET_VELOCITY">>

Scan(trigger, events) ==
  IF trigger = "INJECTION_MARKER" THEN InjectionMarker(events)
  ELSE Pass(trigger, events).out

AllOf(events) == UNION {Range(Scan(t, events)) : t \in Range(Triggers)}

-----------------------------------------------------------------------------
(* ShadowMonitor *)

Init ==
  /\ event_log \in EarlyLogs /\ sink = {}
  /\ todo = <<>> /\ incidents = <<>> /\ sweeping = FALSE
  /\ begun = 0 /\ swept = 0 /\ past = {} /\ lost = <<>>

(* The gateway's _log(). *)
AppendEvent(kind, ts) ==
  /\ Len(event_log) + FoldLeft(+, 0, lost) < MaxEvents
  /\ event_log' = Append(event_log, Event(kind, ts))
  /\ UNCHANGED <<sink, todo, incidents, sweeping, begun, swept, past, lost>>

BeginSweep ==
  /\ ~sweeping /\ sweeping' = TRUE
  /\ incidents' = <<>> /\ todo' = Triggers /\ begun' = Len(event_log)
  /\ UNCHANGED <<event_log, sink, swept, past, lost>>

Deduped(found, more) == FoldLeft(LAMBDA all, inc : IF Contains(all, inc) THEN all ELSE Append(all, inc), found, more)

\* only what came after the last sweep
Scanned_new == SubSeq(event_log, swept + 1, Len(event_log))
Scanned == event_log

ScanNext ==
  /\ sweeping /\ todo # <<>>
  /\ incidents' = Deduped(incidents, Scan(Head(todo), Scanned))
  /\ todo' = Tail(todo)
  /\ UNCHANGED <<event_log, sink, sweeping, begun, swept, past, lost>>

Idle == sweeping' = FALSE /\ incidents' = <<>> /\ todo' = <<>> /\ begun' = 0

\* INSERT OR IGNORE of the first incident only
Emitted_first(incs) == <<>>
Emitted(incs) == Tail(incs)

EmitNext ==
  /\ sweeping /\ todo = <<>> /\ incidents # <<>>
  /\ sink' = sink \cup {Head(incidents)}
  /\ incidents' = Emitted(incidents)
  /\ UNCHANGED <<event_log, todo, sweeping, begun, swept, past, lost>>

(* The table is locked: sweep() raises, with the rest of it not emitted.     *)
EmitRaises ==
  /\ sweeping /\ todo = <<>> /\ incidents # <<>>
  /\ Idle
  /\ UNCHANGED <<event_log, sink, swept, past, lost>>

EndSweep ==
  /\ sweeping /\ incidents = <<>> /\ todo = <<>>
  /\ swept' = begun /\ Idle
  /\ UNCHANGED <<event_log, sink, past, lost>>

Restart ==
  /\ Len(lost) < MaxRestarts /\ lost' = Append(lost, Len(event_log))
  /\ past' = past \cup AllOf(event_log)
  /\ event_log' = <<>> /\ swept' = 0 /\ Idle
  /\ UNCHANGED sink

Next ==
  \/ \E kind \in Kinds, ts \in Times : AppendEvent(kind, ts)
  \/ BeginSweep \/ ScanNext \/ EmitNext \/ EmitRaises \/ EndSweep
  \/ Restart

Spec == Init /\ [][Next]_vars

-----------------------------------------------------------------------------
(* Properties *)

(* However sweeps overlap with the gateway's appends, fail half-way or are   *)
(* repeated, the chronicle holds only incidents that one undisturbed scan of *)
(* the whole log reports: no incident is taken back by a longer log.         *)
SinkIsExplained == sink \subseteq AllOf(event_log) \cup past

(* A sweep that ended has reported everything the log showed when it began.  *)
SweptIsReported == AllOf(SubSeq(event_log, 1, swept)) \subseteq sink

Sorted(events) == \A i, j \in DOMAIN events : i <= j => events[i].ts <= events[j].ts

Covered(events, trigger, e1, e2) ==
  \E inc \in Range(Scan(trigger, events)) :
    /\ IF trigger = "LOOP_STUTTER" THEN inc.actor = e2.actor /\ inc.tool = e2.tool
       ELSE inc.accountable_root = e2.accountable_root
    /\ e1.ts <= inc.now /\ inc.now <= e2.ts

(* Nothing gets past the windows: in a log in the order of time, wherever    *)
(* threshold identical calls, or threshold actions of a root, or a spend of  *)
(* more than max_spend fall in one window, an incident is dated within it,   *)
(* whatever fired and was reset before.                                      *)
BurstsAreFound ==
  Sorted(event_log) =>
    \A i, j \in DOMAIN event_log :
      i <= j =>
        LET first == event_log[i]
            last  == event_log[j]
            inWindow(window) == last.ts - first.ts < window
            same(trigger) ==
              {x \in i..j : /\ Counts(trigger, event_log[x])
                            /\ Key(trigger, event_log[x]) = Key(trigger, last)}
        IN  /\ inWindow(loop_window) /\ Cardinality(same("LOOP_STUTTER")) >= loop_threshold
                 => Covered(event_log, "LOOP_STUTTER", first, last)
            /\ inWindow(fan_window) /\ Cardinality(same("FAN_OUT")) >= fan_threshold
                 => Covered(event_log, "FAN_OUT", first, last)
            /\ inWindow(spend_window) /\ Spend(event_log, same("BUDGET_VELOCITY")) > max_spend
                 => Covered(event_log, "BUDGET_VELOCITY", first, last)

(* "reset so one loop = one incident": a loop of n calls is reported at most *)
(* n / threshold times, also in a log out of the order of time.              *)
OneLoopOneIncident ==
  \A e \in Range(event_log) :
    LET found     == Scan("LOOP_STUTTER", event_log)
        same(inc) == inc.actor = e.actor /\ inc.tool = e.tool
    IN  Cardinality({n \in DOMAIN found : same(found[n])}) * loop_threshold
          <= Cardinality({i \in DOMAIN event_log : same(event_log[i])})
=============================================================================
