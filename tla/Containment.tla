----------------------------- MODULE Containment ------------------------------
(****************************************************************************)
(* containment.py: a tree of agents born inside their parent's box, the     *)
(* depth-first reaping of a subtree, and the autonomy ladder that a node    *)
(* climbs by verified-good outcomes.                                        *)
(*                                                                          *)
(* The manager is called by one thread.  A reap is a recursion that calls   *)
(* the runtime once for each node, so it is taken call by call: `reaping`   *)
(* is its stack, each frame a node and the children it has yet to reap.     *)
(* The runtime is pluggable (Docker, a pod, a cgroup); its spawn() and      *)
(* kill() may raise where Faults says so, and SimRuntime is Faults = {}.    *)
(****************************************************************************)
EXTENDS Integers, Sequences, SequencesExt

CONSTANTS
  Nodes,          \* the Contained objects
  Top,            \* the one of them built without a parent
  Names,          \* the names given to spawn()
  ReuseNames,     \* may a parent give two children the same name?
  Faults,         \* the runtime's calls that may raise
  PROMOTE_AFTER,  \* 5 in the code
  MaxOutcomes     \* bound of the model: record_outcome() calls

NoParent == <<"no parent">>

ASSUME ContainmentAssumption ==
  /\ Top \in Nodes /\ NoParent \notin Nodes
  /\ ReuseNames \in BOOLEAN
  /\ Faults \subseteq {"spawn", "kill"}
  /\ PROMOTE_AFTER \in Nat \ {0}
  /\ MaxOutcomes \in Nat

AutonomyLevel == 0..3
SHADOW == 0
CONTAINED == 1
SUPERVISED == 2
TRUSTED == 3

VARIABLES
  parent, children, id, level, alive, streak, good, demotions,  \* of each node
  running,           \* SimRuntime: the ids of the processes it runs
  reaping,           \* the stack of reap()
  outcomes           \* how many outcomes have been recorded

tree    == <<parent, children, id>>
ladder  == <<level, streak, good, demotions, outcomes>>
vars    == <<tree, ladder, alive, running, reaping>>

-----------------------------------------------------------------------------
(* A name with an underscore is a wrong form of the definition that follows  *)
(* it, which the mutation runs put in its place.                             *)

max_children(l) ==
  CASE l = SHADOW -> 0 [] l = CONTAINED -> 1 [] l = SUPERVISED -> 3 [] l = TRUSTED -> 8

gating(l) ==
  CASE l = SHADOW     -> "observe"
    [] l = CONTAINED  -> "gate_each"
    [] l = SUPERVISED -> "sample"
    [] l = TRUSTED    -> "minimal"

verdict_for(n, reversible, sampled) ==
  IF n \notin alive THEN "deny"
  ELSE IF ~reversible THEN "gate"
  ELSE CASE gating(level[n]) = "observe"   -> "observe_only"
         [] gating(level[n]) = "gate_each" -> "gate"
         [] gating(level[n]) = "sample"    -> IF sampled THEN "gate" ELSE "execute"
         [] gating(level[n]) = "minimal"   -> "execute"

Born(n) == n = Top \/ parent[n] # NoParent

Init ==
  /\ parent = [n \in Nodes |-> NoParent]
  /\ children = [n \in Nodes |-> <<>>]
  /\ id = [n \in Nodes |-> <<>>]
  /\ level \in {[n \in Nodes |-> IF n = Top THEN l ELSE SHADOW] : l \in AutonomyLevel}
  /\ alive = {Top}
  /\ streak = [n \in Nodes |-> 0] /\ good = [n \in Nodes |-> 0]
  /\ demotions = [n \in Nodes |-> 0]
  /\ running = {} /\ reaping = <<>>
  /\ outcomes = 0

-----------------------------------------------------------------------------
(* spawn() *)

NameIsTaken(p, name) == \E m \in Nodes : parent[m] = p /\ id[m] = Append(id[p], name)

MaySpawn_undead(p) == Len(children[p]) < max_children(level[p])
MaySpawn(p) == p \in alive /\ Len(children[p]) < max_children(level[p])

(* The child is in its parent's list before the runtime is asked to start    *)
(* it, and stays there when the runtime raises.                              *)
Spawn(p, n, name) ==
  /\ reaping = <<>>
  /\ Born(p) /\ ~Born(n)
  /\ MaySpawn(p)
  /\ ReuseNames \/ ~NameIsTaken(p, name)
  /\ parent' = [parent EXCEPT ![n] = p]
  /\ id' = [id EXCEPT ![n] = Append(id[p], name)]
  /\ children' = [children EXCEPT ![p] = Append(@, n)]
  /\ alive' = alive \cup {n}
  /\ \/ running' = running \cup {Append(id[p], name)}
     \/ "spawn" \in Faults /\ UNCHANGED running
  /\ UNCHANGED <<ladder, reaping>>

-----------------------------------------------------------------------------
(* reap() *)

Enter(n) == [node |-> n, left |-> children[n]]

Reap(n) ==
  /\ reaping = <<>> /\ Born(n)
  /\ reaping' = <<Enter(n)>>
  /\ UNCHANGED <<tree, ladder, alive, running>>

Frame == Last(reaping)

(* The loop over the children calls reap() for the next of them. *)
ReapChild ==
  /\ reaping # <<>> /\ Frame.left # <<>>
  /\ reaping' = Append([reaping EXCEPT ![Len(reaping)].left = Tail(@)], Enter(Head(Frame.left)))
  /\ UNCHANGED <<tree, ladder, alive, running>>

\* a node whose children are still to be reaped is killed before them
Reaped_topdown == TRUE
Reaped == Frame.left = <<>>

\* only the leaves are marked
Marked_leaves(n) == IF children[n] = <<>> THEN alive \ {n} ELSE alive
Marked(n) == alive \ {n}

Killed(n) == running' = running \ {id[n]}

(* The loop is over: the node itself.  A kill() that raises, whether or not  *)
(* it took effect, unwinds the whole recursion; the node is marked already.  *)
ReapSelf ==
  /\ reaping # <<>> /\ Reaped
  /\ alive' = Marked(Frame.node)
  /\ \/ Killed(Frame.node) /\ reaping' = Front(reaping)
     \/ /\ "kill" \in Faults
        /\ Killed(Frame.node) \/ UNCHANGED running
        /\ reaping' = <<>>
  /\ UNCHANGED <<tree, ladder>>

-----------------------------------------------------------------------------
(* record_outcome() *)

ParentLevel(n) == IF parent[n] = NoParent THEN TRUSTED ELSE level[parent[n]]

Demote(n, to) ==
  /\ level' = [level EXCEPT ![n] = to]
  /\ streak' = [streak EXCEPT ![n] = 0]
  /\ demotions' = [demotions EXCEPT ![n] = @ + 1]
  /\ UNCHANGED good

FloorViolation(n) == Demote(n, SHADOW)

AfterBad_onestep(n) == level[n] - 1
AfterBad(n) == IF level[n] > CONTAINED THEN CONTAINED ELSE level[n]

BadOutcome(n) == Demote(n, AfterBad(n))

Promoted(n) == IF level[n] < ParentLevel(n) THEN level[n] + 1 ELSE level[n]

StreakAfter_kept(n) == streak[n] + 1
StreakAfter(n) ==
  IF streak[n] + 1 >= PROMOTE_AFTER /\ level[n] < TRUSTED THEN 0 ELSE streak[n] + 1

GoodOutcome(n) ==
  /\ good' = [good EXCEPT ![n] = @ + 1]
  /\ streak' = [streak EXCEPT ![n] = StreakAfter(n)]
  /\ level' = [level EXCEPT ![n] =
                 IF streak[n] + 1 >= PROMOTE_AFTER /\ level[n] < TRUSTED
                 THEN Promoted(n) ELSE @]
  /\ UNCHANGED demotions

RecordOutcome(n) ==
  /\ reaping = <<>> /\ Born(n)
  /\ outcomes < MaxOutcomes /\ outcomes' = outcomes + 1
  /\ FloorViolation(n) \/ BadOutcome(n) \/ GoodOutcome(n)
  /\ UNCHANGED <<tree, alive, running, reaping>>

-----------------------------------------------------------------------------
Reaping == ReapChild \/ ReapSelf

Next ==
  \/ \E p, n \in Nodes, name \in Names : Spawn(p, n, name)
  \/ \E n \in Nodes : Reap(n) \/ RecordOutcome(n)
  \/ Reaping

Spec == Init /\ [][Next]_vars

-----------------------------------------------------------------------------
(* Properties *)

Frames == [node : Nodes, left : Seq(Nodes)]

(* Every part of the state has its type.                                     *)
TypeOK ==
  /\ parent \in [Nodes -> Nodes \cup {NoParent}]
  /\ children \in [Nodes -> Seq(Nodes)]
  /\ id \in [Nodes -> Seq(Names)]
  /\ level \in [Nodes -> AutonomyLevel]
  /\ alive \in SUBSET Nodes
  /\ streak \in [Nodes -> Nat] /\ good \in [Nodes -> Nat] /\ demotions \in [Nodes -> Nat]
  /\ running \in SUBSET Seq(Names)
  /\ reaping \in Seq(Frames)
  /\ outcomes \in 0..MaxOutcomes

Spawned == {n \in Nodes : parent[n] # NoParent}

(* "A child cannot outlive the box it was born in": at no moment, not within *)
(* a reap nor after one that a failing runtime cut short, is a node alive    *)
(* under a dead parent.                                                      *)
NoOrphans == \A n \in Spawned : n \in alive => parent[n] \in alive

(* "There are no orphan processes": a process never runs under a node that    *)
(* has been marked dead, even when kill() raises half-way through a reap and *)
(* the reap is repeated.  It needs the ids to be distinct, see ReuseNames.   *)
NoOrphanProcess == \A n \in Spawned : id[n] \in running => parent[n] \in alive

(* With a runtime that does not raise, what runs is what is alive: a running *)
(* id is that of a live node, and a live node runs unless another node was   *)
(* given its id.                                                             *)
RunningIsAlive ==
  /\ reaping = <<>> => running \subseteq {id[n] : n \in alive}
  /\ \A n \in Spawned \cap alive :
       id[n] \in running \/ \E m \in Nodes \ {n} : id[m] = id[n]

(* Trust is earned slowly: whatever demotions came between, each level above *)
(* SHADOW that a node has costs it PROMOTE_AFTER good outcomes of its own.   *)
EarnedSlowly == \A n \in Spawned : level[n] * PROMOTE_AFTER <= good[n]

(* An action escapes the gate only if its node is alive and has earned two   *)
(* levels, and never an irreversible one (verdict_for, "the floor").         *)
UngatedIsEarned ==
  \A n \in Nodes, reversible, sampled \in BOOLEAN :
    verdict_for(n, reversible, sampled) = "execute" =>
      /\ n \in alive /\ reversible
      /\ n # Top => good[n] >= 2 * PROMOTE_AFTER

(* A child out-ranks its parent only if the parent has been demoted.         *)
OutranksOnlyDemoted ==
  \A n \in Spawned : level[n] > level[parent[n]] => demotions[parent[n]] > 0
=============================================================================
