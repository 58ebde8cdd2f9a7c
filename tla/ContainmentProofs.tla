-------------------------- MODULE ContainmentProofs ---------------------------
(****************************************************************************)
(* Theorems about Containment, for any set of nodes, any names, any runtime *)
(* and any length of the track record.                                      *)
(****************************************************************************)
EXTENDS Containment, SequenceTheorems, TLAPS

(* The tree.  A node is in its parent's list of children, so that the loop   *)
(* of reap() comes to it.                                                    *)
TreeOK ==
  /\ parent[Top] = NoParent
  /\ \A n \in alive : Born(n)
  /\ \A n \in Spawned : \E i \in DOMAIN children[parent[n]] : children[parent[n]][i] = n

(* Where a reap has got to: a child of a node on its stack that lives, or    *)
(* whose process runs, is still in the loop of that frame, or is the node of *)
(* the next frame.                                                           *)
Pending(i, n) ==
  \/ \E j \in DOMAIN reaping[i].left : reaping[i].left[j] = n
  \/ i < Len(reaping) /\ reaping[i + 1].node = n

Covered(n) == \A i \in DOMAIN reaping : parent[n] = reaping[i].node => Pending(i, n)

LoopOK == \A n \in alive : Covered(n)

LoopKills == \A n \in Spawned : id[n] \in running => Covered(n)

(* What a streak below the top of the ladder is worth counts as well.        *)
Earned ==
  \A n \in Nodes \ {Top} :
    level[n] * PROMOTE_AFTER + (IF level[n] < TRUSTED THEN streak[n] ELSE 0) <= good[n]

(* Everyone is born in shadow.                                               *)
BornInShadow == \A n \in Nodes : ~Born(n) => level[n] = SHADOW

Inv ==
  TypeOK /\ TreeOK /\ NoOrphans /\ LoopOK /\ Earned /\ BornInShadow /\ OutranksOnlyDemoted

-----------------------------------------------------------------------------
LEMMA InitInv == Init => Inv
<1> SUFFICES ASSUME Init PROVE Inv
  OBVIOUS
<1>1. TypeOK
  <2>1. level \in [Nodes -> AutonomyLevel]
    BY DEF Init, AutonomyLevel, SHADOW
  <2> QED
    BY <2>1, ContainmentAssumption DEF Init, TypeOK
<1>2. TreeOK /\ NoOrphans /\ OutranksOnlyDemoted
  BY ContainmentAssumption DEF Init, TreeOK, NoOrphans, OutranksOnlyDemoted, Spawned, Born
<1>5. BornInShadow
  BY DEF Init, BornInShadow, Born
<1>3. LoopOK
  BY DEF Init, LoopOK, Covered
<1>4. Earned
  <2>1. \A n \in Nodes \ {Top} : level[n] = 0 /\ streak[n] = 0 /\ good[n] = 0
    BY DEF Init, SHADOW
  <2> QED
    BY <2>1, ContainmentAssumption DEF Earned
<1> QED
  BY <1>1, <1>2, <1>3, <1>4, <1>5 DEF Inv

LEMMA SpawnInv ==
  ASSUME Inv, NEW p \in Nodes, NEW n \in Nodes, NEW name \in Names, Spawn(p, n, name)
  PROVE  Inv'
<1>1. TypeOK /\ p # NoParent /\ n # Top /\ parent[n] = NoParent /\ n \notin alive /\ p \in alive
  BY ContainmentAssumption DEF Inv, Spawn, Born, MaySpawn, TreeOK
<1>2. TypeOK'
  <2>1. Append(id[p], name) \in Seq(Names) /\ Append(children[p], n) \in Seq(Nodes)
    BY <1>1 DEF TypeOK
  <2>2. parent' \in [Nodes -> Nodes \cup {NoParent}] /\ alive' \in SUBSET Nodes
    BY <1>1 DEF TypeOK, Spawn
  <2>3. id' \in [Nodes -> Seq(Names)] /\ children' \in [Nodes -> Seq(Nodes)]
        /\ running' \in SUBSET Seq(Names)
    BY <1>1, <2>1 DEF TypeOK, Spawn
  <2> QED
    BY <1>1, <2>2, <2>3 DEF TypeOK, Spawn, ladder
<1>3. \A m \in Nodes : parent'[m] = IF m = n THEN p ELSE parent[m]
  BY <1>1 DEF TypeOK, Spawn
<1>4. alive' = alive \cup {n} /\ reaping' = <<>> /\ UNCHANGED ladder
  BY DEF Spawn
<1>5. TreeOK'
  <2>1. parent'[Top] = NoParent /\ \A m \in alive' : Born(m)'
    BY <1>1, <1>3, <1>4, ContainmentAssumption DEF Inv, TreeOK, TypeOK, Born
  <2>2. ASSUME NEW m \in Spawned'
        PROVE  \E i \in DOMAIN children'[parent'[m]] : children'[parent'[m]][i] = m
    <3>1. children' = [children EXCEPT ![p] = Append(children[p], n)]
          /\ children \in [Nodes -> Seq(Nodes)]
      BY <1>1 DEF Spawn, TypeOK
    <3>2. CASE m = n
      <4>1. children'[p] = Append(children[p], n) /\ parent'[m] = p
        BY <1>3, <3>1, <3>2
      <4>2. Len(children[p]) + 1 \in DOMAIN Append(children[p], n)
            /\ Append(children[p], n)[Len(children[p]) + 1] = n
        BY <3>1
      <4> QED
        BY <3>2, <4>1, <4>2
    <3>3. CASE m # n
      <4>1. m \in Spawned /\ parent'[m] = parent[m]
        BY <1>3, <3>3 DEF Spawned
      <4>2. PICK i \in DOMAIN children[parent[m]] : children[parent[m]][i] = m
        BY <4>1 DEF Inv, TreeOK
      <4>3. CASE parent[m] # p
        BY <3>1, <4>1, <4>2, <4>3 DEF Spawned
      <4>4. CASE parent[m] = p
        <5>1. i \in DOMAIN Append(children[p], n) /\ Append(children[p], n)[i] = m
          BY <3>1, <4>2, <4>4
        <5> QED
          BY <3>1, <4>1, <4>4, <5>1
      <4> QED
        BY <4>3, <4>4
    <3> QED
      BY <3>2, <3>3
  <2> QED
    BY <2>1, <2>2 DEF TreeOK
<1>6. NoOrphans'
  BY <1>1, <1>3, <1>4 DEF Inv, NoOrphans, Spawned
<1>7. LoopOK'
  BY <1>4 DEF LoopOK, Covered
<1>8. Earned'
  BY <1>4 DEF Inv, Earned, ladder
<1>9. OutranksOnlyDemoted'
  <2>1. level'[n] = level[n] /\ level' = level /\ demotions' = demotions
    BY <1>4 DEF ladder
  <2>2. ~(level[n] > level[p])
    <3>1. level[n] = 0
      BY <1>1 DEF Inv, BornInShadow, Born, SHADOW
    <3>2. level[p] \in 0..3
      BY <1>1 DEF TypeOK, AutonomyLevel
    <3> QED
      BY <3>1, <3>2
  <2> QED
    BY <1>3, <2>1, <2>2 DEF Inv, OutranksOnlyDemoted, Spawned
<1>10. BornInShadow'
  <2>1. ASSUME NEW m \in Nodes, m # Top, parent'[m] = NoParent PROVE parent[m] = NoParent
    BY <1>1, <1>3, <2>1
  <2>2. level' = level
    BY <1>4 DEF ladder
  <2> QED
    BY <2>1, <2>2 DEF Inv, BornInShadow, Born
<1> QED
  BY <1>2, <1>5, <1>6, <1>7, <1>8, <1>9, <1>10 DEF Inv

(* The steps of a reap.                                                      *)
LEMMA Replaced ==
  ASSUME NEW S, NEW s \in Seq(S), NEW k \in DOMAIN s, NEW e \in S
  PROVE  /\ [s EXCEPT ![k] = e] \in Seq(S)
         /\ Len([s EXCEPT ![k] = e]) = Len(s)
         /\ \A i \in DOMAIN s : [s EXCEPT ![k] = e][i] = IF i = k THEN e ELSE s[i]
OBVIOUS

LEMMA FrontOf ==
  ASSUME NEW S, NEW s \in Seq(S), s # <<>>
  PROVE  /\ Front(s) \in Seq(S)
         /\ Len(Front(s)) = Len(s) - 1
         /\ \A i \in 1..(Len(s) - 1) : Front(s)[i] = s[i]
<1>1. Len(s) \in Nat /\ Len(s) >= 1 /\ Len(s) - 1 \in Int /\ 1 \in Int
  OBVIOUS
<1>2. \A i \in 1..(Len(s) - 1) : s[i] \in S
  BY <1>1
<1>3. /\ Front(s) \in Seq(S)
      /\ Len(Front(s)) = IF 1 <= Len(s) - 1 THEN Len(s) - 1 - 1 + 1 ELSE 0
      /\ \A i \in 1..(Len(s) - 1 - 1 + 1) : Front(s)[i] = s[1 + i - 1]
  BY <1>1, <1>2, SubSeqProperties DEF Front
<1>4. \A n \in Nat : n >= 1 => /\ (IF 1 <= n - 1 THEN n - 1 - 1 + 1 ELSE 0) = n - 1
                                /\ n - 1 - 1 + 1 = n - 1
  OBVIOUS
<1>5. \A i \in Int : 1 + i - 1 = i
  OBVIOUS
<1>6. Len(Front(s)) = Len(s) - 1 /\ \A i \in 1..(Len(s) - 1) : Front(s)[i] = s[1 + i - 1]
  BY <1>1, <1>3, <1>4, Zenon
<1> QED
  BY <1>1, <1>3, <1>5, <1>6

LEMMA StackFrame ==
  ASSUME TypeOK, reaping # <<>>
  PROVE  /\ reaping \in Seq(Frames)
         /\ Len(reaping) \in DOMAIN reaping /\ DOMAIN reaping = 1..Len(reaping)
         /\ Len(reaping) \in Nat \ {0}
         /\ Frame = reaping[Len(reaping)]
         /\ Frame \in Frames
BY DEF TypeOK, Frame, Last

LEMMA TreeUnchanged ==
  ASSUME Inv, UNCHANGED <<tree, ladder>>, alive' \subseteq alive
  PROVE  TreeOK' /\ Earned' /\ BornInShadow' /\ OutranksOnlyDemoted'
<1>1. TreeOK'
  BY DEF Inv, TreeOK, Born, Spawned, tree
<1>2. Earned' /\ BornInShadow'
  BY DEF Inv, Earned, BornInShadow, Born, tree, ladder
<1>3. OutranksOnlyDemoted'
  BY DEF Inv, OutranksOnlyDemoted, Spawned, tree, ladder
<1> QED
  BY <1>1, <1>2, <1>3

LEMMA ReapCovered ==
  ASSUME Inv, NEW n \in Nodes, Reap(n), NEW m \in Nodes
  PROVE  Covered(m)'
<1>1. TypeOK /\ UNCHANGED tree /\ reaping' = <<Enter(n)>>
  BY DEF Inv, Reap
<1>2. ASSUME parent[m] = n PROVE \E j \in DOMAIN children[n] : children[n][j] = m
  BY <1>1, <1>2, ContainmentAssumption DEF Inv, TreeOK, Spawned, TypeOK
<1> QED
  BY <1>1, <1>2 DEF Covered, Pending, Enter, tree

LEMMA ReapInv ==
  ASSUME Inv, NEW n \in Nodes, Reap(n)
  PROVE  Inv'
<1>1. TypeOK /\ UNCHANGED <<tree, ladder, alive, running>> /\ reaping' = <<Enter(n)>>
  BY DEF Inv, Reap
<1>2. TypeOK'
  <2>1. Enter(n) \in Frames
    BY <1>1 DEF Enter, Frames, TypeOK
  <2> QED
    BY <1>1, <2>1 DEF TypeOK, tree, ladder
<1>3. NoOrphans'
  BY <1>1 DEF Inv, NoOrphans, Spawned, tree
<1>4. LoopOK'
  BY <1>1, ReapCovered DEF LoopOK, TypeOK
<1> QED
  BY <1>1, <1>2, <1>3, <1>4, TreeUnchanged DEF Inv

LEMMA ReapChildShape ==
  ASSUME Inv, ReapChild
  PROVE  /\ reaping' \in Seq(Frames)
         /\ \A n \in Nodes : Covered(n) => Covered(n)'
<1> DEFINE k      == Len(reaping)
           left   == Frame.left
           shrunk == [node |-> Frame.node, left |-> Tail(left)]
           rest   == [reaping EXCEPT ![k] = shrunk]
           next   == Enter(Head(left))
<1>1. TypeOK /\ UNCHANGED <<tree, ladder, alive, running>>
  BY DEF Inv, ReapChild
<1>2. /\ k \in DOMAIN reaping /\ k \in Nat \ {0} /\ DOMAIN reaping = 1..k
      /\ Frame = reaping[k] /\ Frame \in Frames /\ reaping \in Seq(Frames)
      /\ left \in Seq(Nodes) /\ left # <<>>
  <2>1. reaping # <<>> /\ left # <<>>
    BY DEF ReapChild
  <2>2. Frame \in Frames
    BY <1>1, <2>1, StackFrame
  <2>3. left \in Seq(Nodes)
    BY <2>2 DEF Frames
  <2> HIDE DEF left
  <2> QED
    BY <1>1, <2>1, <2>2, <2>3, StackFrame
<1>3. Head(left) \in Nodes /\ Tail(left) \in Seq(Nodes) /\ Head(left) = left[1]
  BY <1>2
<1>4. next \in Frames /\ next.node = Head(left) /\ next.left = children[Head(left)]
  BY <1>1, <1>3 DEF Enter, Frames, TypeOK
<1>5. shrunk \in Frames
  BY <1>2, <1>3 DEF Frames
<1>6. reaping' = Append(rest, next)
  <2>1. [reaping[k] EXCEPT !.left = Tail(@)] = shrunk
    <3>1. ASSUME NEW f \in Frames, NEW t \in Seq(Nodes)
          PROVE  [f EXCEPT !.left = t] = [node |-> f.node, left |-> t]
      BY DEF Frames
    <3> QED
      BY <1>2, <1>3, <3>1
  <2>2. [reaping EXCEPT ![k].left = Tail(@)] = [reaping EXCEPT ![k] = [reaping[k] EXCEPT !.left = Tail(@)]]
    OBVIOUS
  <2> HIDE DEF shrunk
  <2> QED
    BY <2>1, <2>2 DEF ReapChild
<1>7. /\ rest \in Seq(Frames) /\ Len(rest) = k
      /\ \A i \in 1..k : rest[i] = IF i = k THEN shrunk ELSE reaping[i]
  <2> HIDE DEF shrunk, k
  <2> QED
    BY <1>2, <1>5, Replaced DEF k
<1>8. /\ reaping' \in Seq(Frames) /\ Len(reaping') = k + 1 /\ DOMAIN reaping' = 1..(k + 1)
      /\ \A i \in 1..k : reaping'[i] = IF i = k THEN shrunk ELSE reaping[i]
      /\ reaping'[k + 1] = next
  <2> HIDE DEF rest, next, k, shrunk
  <2> QED
    BY <1>2, <1>4, <1>6, <1>7
<1>11. shrunk.node = reaping[k].node /\ shrunk.left = Tail(left) /\ reaping[k].left = left
      /\ Len(reaping) = k
  BY <1>2
<1> HIDE DEF next, shrunk, rest, left, k
<1>12. ASSUME NEW n \in Nodes, Covered(n), NEW i \in 1..(k + 1), parent[n] = reaping'[i].node
       PROVE  Pending(i, n)'
  <2>1. CASE i = k + 1
    <3>1. parent[n] = Head(left) /\ parent[n] # NoParent /\ n \in Nodes
      BY <1>1, <1>3, <1>4, <1>8, <1>12, <2>1, ContainmentAssumption DEF TypeOK
    <3>2. \E j \in DOMAIN children[Head(left)] : children[Head(left)][j] = n
      BY <3>1 DEF Inv, TreeOK, Spawned
    <3> QED
      BY <1>4, <1>8, <2>1, <3>2 DEF Pending
  <2>2. CASE i \in 1..(k - 1)
    <3>1. i \in 1..k /\ i + 1 \in 1..k /\ i < k /\ i # k
      BY <1>2, <2>2
    <3>2. Pending(i, n)
      BY <1>2, <1>8, <1>12, <3>1 DEF Covered
    <3>3. reaping'[i + 1].node = reaping[i + 1].node /\ reaping'[i] = reaping[i]
      BY <1>8, <1>11, <3>1
    <3>4. i < Len(reaping')
      BY <1>2, <1>8, <3>1
    <3> QED
      BY <3>2, <3>3, <3>4 DEF Pending
  <2>3. CASE i = k
    <3>1. reaping'[i] = shrunk /\ reaping'[i].left = Tail(left) /\ parent[n] = reaping[i].node
      BY <1>2, <1>8, <1>11, <1>12, <2>3
    <3>2. PICK j \in DOMAIN left : left[j] = n
      BY <1>2, <1>11, <1>12, <2>3, <3>1 DEF Covered, Pending
    <3>3. CASE j = 1
      <4>1. reaping'[i + 1].node = n
        BY <1>3, <1>4, <1>8, <2>3, <3>2, <3>3
      <4>2. i < Len(reaping')
        BY <1>2, <1>8, <2>3
      <4> QED
        BY <4>1, <4>2 DEF Pending
    <3>4. CASE j # 1
      <4>1. j - 1 \in DOMAIN Tail(left) /\ Tail(left)[j - 1] = n
        BY <1>2, <3>2, <3>4, HeadTailProperties
      <4> QED
        BY <3>1, <4>1 DEF Pending
    <3> QED
      BY <3>3, <3>4
  <2> QED
    BY <1>2, <1>12, <2>1, <2>2, <2>3
<1> QED
  BY <1>1, <1>8, <1>12 DEF Covered, tree

LEMMA ReapChildInv ==
  ASSUME Inv, ReapChild
  PROVE  Inv'
<1>1. TypeOK /\ UNCHANGED <<tree, ladder, alive, running>>
  BY DEF Inv, ReapChild
<1>2. reaping' \in Seq(Frames)
  BY ReapChildShape
<1>3. TypeOK'
  BY <1>1, <1>2 DEF TypeOK, tree, ladder
<1>4. NoOrphans'
  BY <1>1 DEF Inv, NoOrphans, Spawned, tree
<1>5. LoopOK'
  BY <1>1, ReapChildShape DEF Inv, LoopOK, TypeOK
<1> QED
  BY <1>1, <1>3, <1>4, <1>5, TreeUnchanged DEF Inv

LEMMA ReapSelfCovered ==
  ASSUME Inv, ReapSelf, NEW n \in Nodes, n # Frame.node, Covered(n)
  PROVE  Covered(n)'
<1> DEFINE k == Len(reaping)
<1>1. TypeOK /\ UNCHANGED tree /\ Frame.left = <<>>
  BY DEF Inv, ReapSelf, Reaped
<1>2. k \in DOMAIN reaping /\ DOMAIN reaping = 1..k /\ k \in Nat \ {0} /\ Frame = reaping[k]
  BY <1>1, StackFrame DEF ReapSelf
<1>f. /\ Front(reaping) \in Seq(Frames) /\ Len(Front(reaping)) = k - 1
      /\ \A i \in 1..(k - 1) : Front(reaping)[i] = reaping[i]
  BY <1>1, FrontOf DEF ReapSelf, TypeOK
<1>3. /\ Len(Front(reaping)) = k - 1 /\ DOMAIN Front(reaping) = 1..(k - 1)
      /\ \A i \in 1..(k - 1) : Front(reaping)[i] = reaping[i]
  BY <1>f
<1>4. CASE reaping' = <<>>
  BY <1>4 DEF Covered
<1>5. CASE reaping' = Front(reaping)
  <2> SUFFICES ASSUME NEW i \in 1..(k - 1), parent[n] = reaping[i].node
               PROVE  Pending(i, n)'
    BY <1>1, <1>3, <1>5 DEF Covered, tree
  <2>1. i \in DOMAIN reaping
    BY <1>2
  <2>2. Pending(i, n)
    BY <2>1 DEF Covered
  <2>3. CASE i + 1 = k
    <3>1. reaping[i + 1].node # n
      BY <1>2, <2>3
    <3>2. reaping'[i].left = reaping[i].left
      BY <1>3, <1>5
    <3> QED
      BY <2>2, <3>1, <3>2 DEF Pending
  <2>4. CASE i + 1 < k
    BY <1>2, <1>3, <1>5, <2>2, <2>4 DEF Pending
  <2>5. i + 1 = k \/ i + 1 < k
    <3>1. k \in Nat
      BY <1>2
    <3> HIDE DEF k
    <3> QED
      BY <3>1
  <2> QED
    BY <2>3, <2>4, <2>5
<1> QED
  BY <1>4, <1>5 DEF ReapSelf

LEMMA ReapSelfInv ==
  ASSUME Inv, ReapSelf
  PROVE  Inv'
<1> DEFINE k == Len(reaping)
           node == Frame.node
<1>1. TypeOK /\ UNCHANGED <<tree, ladder>> /\ alive' = alive \ {node} /\ Frame.left = <<>>
  BY DEF Inv, ReapSelf, Reaped, Marked
<1>2. k \in DOMAIN reaping /\ k \in Nat \ {0} /\ Frame = reaping[k] /\ node \in Nodes
  BY <1>1, StackFrame DEF ReapSelf, Frames
<1>3. /\ Front(reaping) \in Seq(Frames) /\ Len(Front(reaping)) = k - 1
      /\ \A i \in 1..(k - 1) : Front(reaping)[i] = reaping[i]
  BY <1>1, FrontOf DEF ReapSelf, TypeOK
<1>4. reaping' = Front(reaping) \/ reaping' = <<>>
  BY DEF ReapSelf
<1>5. TypeOK'
  <2>1. running' \in SUBSET Seq(Names)
    BY <1>1 DEF ReapSelf, Killed, TypeOK
  <2>2. reaping' \in Seq(Frames)
    <3>1. <<>> \in Seq(Frames)
      OBVIOUS
    <3> QED
      BY <1>3, <1>4, <3>1
  <2> QED
    BY <1>1, <2>1, <2>2 DEF TypeOK, tree, ladder
<1>6. \A n \in alive : parent[n] # node
  BY <1>1, <1>2 DEF Inv, LoopOK, Covered, Pending
<1>7. NoOrphans'
  BY <1>1, <1>6 DEF Inv, NoOrphans, Spawned, tree
<1>8. LoopOK'
  BY <1>1, ReapSelfCovered DEF Inv, LoopOK, TypeOK
<1> QED
  BY <1>1, <1>5, <1>7, <1>8, TreeUnchanged DEF Inv
-----------------------------------------------------------------------------
(* The ladder *)

LEMMA LevelTypes ==
  ASSUME TypeOK, NEW n \in Nodes
  PROVE  /\ level[n] \in 0..3 /\ streak[n] \in Nat /\ good[n] \in Nat /\ demotions[n] \in Nat
         /\ PROMOTE_AFTER \in Nat /\ PROMOTE_AFTER >= 1
BY ContainmentAssumption DEF TypeOK, AutonomyLevel

(* An outcome of n touches n's standing and nothing else.                    *)
LEMMA LadderInv ==
  ASSUME Inv, NEW n \in Nodes, RecordOutcome(n),
         NEW l \in 0..3, NEW s \in Nat, NEW g \in Nat, NEW d \in Nat,
         level' = [level EXCEPT ![n] = l], streak' = [streak EXCEPT ![n] = s],
         good' = [good EXCEPT ![n] = g], demotions' = [demotions EXCEPT ![n] = d],
         n # Top => l * PROMOTE_AFTER + (IF l < TRUSTED THEN s ELSE 0) <= g,
         l > level[n] => l <= ParentLevel(n),
         l < level[n] => d > 0,
         d >= demotions[n]
  PROVE  Inv'
<1>1. /\ TypeOK /\ Born(n) /\ UNCHANGED <<tree, alive, running, reaping>>
      /\ outcomes' = outcomes + 1 /\ outcomes < MaxOutcomes
  BY DEF Inv, RecordOutcome
<1>2. TypeOK'
  <2>1. /\ level' \in [Nodes -> AutonomyLevel] /\ streak' \in [Nodes -> Nat]
        /\ good' \in [Nodes -> Nat] /\ demotions' \in [Nodes -> Nat]
    BY <1>1 DEF TypeOK, AutonomyLevel
  <2>2. outcomes' \in 0..MaxOutcomes
    BY <1>1, ContainmentAssumption DEF TypeOK
  <2> QED
    BY <1>1, <2>1, <2>2 DEF TypeOK, tree
<1>3. TreeOK' /\ NoOrphans' /\ LoopOK'
  BY <1>1 DEF Inv, TreeOK, NoOrphans, LoopOK, Covered, Pending, Born, Spawned, tree
<1>4. \A m \in Nodes : /\ level'[m] = IF m = n THEN l ELSE level[m]
                       /\ streak'[m] = IF m = n THEN s ELSE streak[m]
                       /\ good'[m] = IF m = n THEN g ELSE good[m]
                       /\ demotions'[m] = IF m = n THEN d ELSE demotions[m]
  BY <1>1 DEF TypeOK
<1>5. Earned'
  BY <1>4 DEF Inv, Earned
<1>6. BornInShadow'
  BY <1>1, <1>4 DEF Inv, BornInShadow, Born, tree
<1>7. OutranksOnlyDemoted'
  <2> SUFFICES ASSUME NEW m \in Spawned, level'[m] > level'[parent[m]]
               PROVE  demotions'[parent[m]] > 0
    BY <1>1 DEF OutranksOnlyDemoted, Spawned, tree
  <2>1. m \in Nodes /\ parent[m] \in Nodes /\ parent[m] # NoParent
    BY <1>1 DEF Spawned, TypeOK
  <2>2. level[m] > level[parent[m]] => demotions[parent[m]] > 0
    BY DEF Inv, OutranksOnlyDemoted
  <2>3. /\ level[m] \in 0..3 /\ level[parent[m]] \in 0..3 /\ level[n] \in 0..3
        /\ demotions[parent[m]] \in Nat /\ demotions[n] \in Nat
    BY <1>1, <2>1, LevelTypes
  <2>4. m # parent[m]
    <3>1. level'[m] \in 0..3
      BY <1>2, <2>1 DEF TypeOK, AutonomyLevel
    <3>2. parent[m] = m => level'[parent[m]] = level'[m]
      OBVIOUS
    <3> QED
      BY <3>1, <3>2
  <2>5. CASE m = n
    <3>1. ParentLevel(n) = level[parent[m]]
      BY <2>1, <2>5 DEF ParentLevel
    <3> QED
      BY <1>4, <2>1, <2>2, <2>3, <2>4, <2>5, <3>1
  <2>6. CASE parent[m] = n
    BY <1>4, <2>1, <2>2, <2>3, <2>4, <2>6
  <2>7. CASE m # n /\ parent[m] # n
    BY <1>4, <2>1, <2>2, <2>7
  <2> QED
    BY <2>5, <2>6, <2>7
<1> QED
  BY <1>2, <1>3, <1>5, <1>6, <1>7 DEF Inv

LEMMA Multiples ==
  ASSUME NEW a \in Nat, NEW l \in 0..3
  PROVE  /\ l * a \in Nat
         /\ \A k \in 0..3 : k <= l => k * a <= l * a
         /\ (l + 1) * a = l * a + a
<1>1. a * 0 = 0 /\ 0 * a = 0 /\ 1 * a = a /\ 2 * a = a + a /\ 3 * a = a + a + a
      /\ 4 * a = a + a + a + a
  OBVIOUS
<1>2. l = 0 \/ l = 1 \/ l = 2 \/ l = 3
  OBVIOUS
<1>3. ASSUME NEW k \in 0..3 PROVE k = 0 \/ k = 1 \/ k = 2 \/ k = 3
  OBVIOUS
<1> QED
  BY <1>1, <1>2, <1>3

LEMMA DemoteInv ==
  ASSUME Inv, NEW n \in Nodes, RecordOutcome(n), NEW l \in 0..3, l <= level[n], Demote(n, l)
  PROVE  Inv'
<1>1. TypeOK /\ level[n] \in 0..3 /\ streak[n] \in Nat /\ good[n] \in Nat
      /\ demotions[n] \in Nat /\ PROMOTE_AFTER \in Nat
  BY LevelTypes DEF Inv
<1>2. /\ level' = [level EXCEPT ![n] = l] /\ streak' = [streak EXCEPT ![n] = 0]
      /\ good' = [good EXCEPT ![n] = good[n]]
      /\ demotions' = [demotions EXCEPT ![n] = demotions[n] + 1]
  BY <1>1 DEF Demote, TypeOK
<1>3. n # Top => l * PROMOTE_AFTER + (IF l < TRUSTED THEN 0 ELSE 0) <= good[n]
  <2> SUFFICES ASSUME n # Top PROVE l * PROMOTE_AFTER <= good[n]
    BY <1>1, Multiples
  <2>1. level[n] * PROMOTE_AFTER + (IF level[n] < TRUSTED THEN streak[n] ELSE 0) <= good[n]
    BY DEF Inv, Earned
  <2>2. l * PROMOTE_AFTER <= level[n] * PROMOTE_AFTER /\ l * PROMOTE_AFTER \in Nat
        /\ level[n] * PROMOTE_AFTER \in Nat
    BY <1>1, Multiples
  <2> QED
    BY <1>1, <2>1, <2>2
<1>4. /\ 0 \in Nat /\ demotions[n] + 1 \in Nat /\ demotions[n] + 1 >= demotions[n]
      /\ demotions[n] + 1 > 0 /\ ~(l > level[n])
  BY <1>1
<1> QED
  BY <1>1, <1>2, <1>3, <1>4, LadderInv

LEMMA GoodInv ==
  ASSUME Inv, NEW n \in Nodes, RecordOutcome(n), GoodOutcome(n)
  PROVE  Inv'
<1> DEFINE rises == streak[n] + 1 >= PROMOTE_AFTER /\ level[n] < TRUSTED
           l == IF rises THEN Promoted(n) ELSE level[n]
           s == StreakAfter(n)
<1>1. TypeOK /\ level[n] \in 0..3 /\ streak[n] \in Nat /\ good[n] \in Nat
      /\ demotions[n] \in Nat /\ PROMOTE_AFTER \in Nat
  BY LevelTypes DEF Inv
<1>2. /\ level' = [level EXCEPT ![n] = l] /\ streak' = [streak EXCEPT ![n] = s]
      /\ good' = [good EXCEPT ![n] = good[n] + 1]
      /\ demotions' = [demotions EXCEPT ![n] = demotions[n]]
  BY <1>1 DEF GoodOutcome, TypeOK
<1>3. /\ l = level[n] \/ (rises /\ l = level[n] + 1 /\ level[n] < ParentLevel(n))
      /\ s = IF rises THEN 0 ELSE streak[n] + 1
  BY DEF Promoted, StreakAfter
<1>4. ParentLevel(n) \in 0..3
  BY <1>1 DEF ParentLevel, TypeOK, AutonomyLevel, TRUSTED
<1>5. l \in 0..3 /\ s \in Nat /\ l >= level[n] /\ (l > level[n] => l <= ParentLevel(n))
  <2> HIDE DEF l, s
  <2> QED
    BY <1>1, <1>3, <1>4 DEF TRUSTED
<1>6. n # Top => l * PROMOTE_AFTER + (IF l < TRUSTED THEN s ELSE 0) <= good[n] + 1
  <2> SUFFICES ASSUME n # Top PROVE l * PROMOTE_AFTER + (IF l < TRUSTED THEN s ELSE 0) <= good[n] + 1
    OBVIOUS
  <2>1. level[n] * PROMOTE_AFTER + (IF level[n] < TRUSTED THEN streak[n] ELSE 0) <= good[n]
    BY DEF Inv, Earned
  <2>2. level[n] * PROMOTE_AFTER \in Nat
        /\ (level[n] + 1) * PROMOTE_AFTER = level[n] * PROMOTE_AFTER + PROMOTE_AFTER
    BY <1>1, Multiples
  <2> HIDE DEF l, s
  <2>3. CASE rises /\ l = level[n] + 1
    <3>1. l * PROMOTE_AFTER = level[n] * PROMOTE_AFTER + PROMOTE_AFTER /\ s = 0
      BY <1>3, <2>2, <2>3
    <3> QED
      BY <1>1, <2>1, <2>2, <2>3, <3>1 DEF TRUSTED
  <2>4. CASE l = level[n]
    BY <1>1, <1>3, <2>1, <2>2, <2>4 DEF TRUSTED
  <2> QED
    BY <1>3, <2>3, <2>4
<1> HIDE DEF l, s
<1>7. (l < level[n] => demotions[n] > 0) /\ good[n] + 1 \in Nat /\ demotions[n] >= demotions[n]
  BY <1>1, <1>5
<1> HIDE DEF rises
<1> QED
  BY <1>1, <1>2, <1>5, <1>6, <1>7, LadderInv

LEMMA RecordOutcomeInv ==
  ASSUME Inv, NEW n \in Nodes, RecordOutcome(n)
  PROVE  Inv'
<1>1. level[n] \in 0..3
  BY LevelTypes DEF Inv
<1>2. CASE FloorViolation(n)
  BY <1>1, <1>2, DemoteInv DEF FloorViolation, SHADOW
<1>3. CASE BadOutcome(n)
  <2>1. AfterBad(n) \in 0..3 /\ AfterBad(n) <= level[n]
    BY <1>1 DEF AfterBad, CONTAINED
  <2> QED
    BY <1>3, <2>1, DemoteInv DEF BadOutcome
<1>4. CASE GoodOutcome(n)
  BY <1>4, GoodInv
<1> QED
  BY <1>2, <1>3, <1>4 DEF RecordOutcome

LEMMA StepInv == Inv /\ [Next]_vars => Inv'
<1> SUFFICES ASSUME Inv, [Next]_vars PROVE Inv'
  OBVIOUS
<1>1. CASE UNCHANGED vars
  BY <1>1 DEF vars, tree, ladder, Inv, TypeOK, TreeOK, NoOrphans, LoopOK, Covered, Pending, Earned,
     BornInShadow, OutranksOnlyDemoted, Spawned, Born
<1>2. CASE Next
  BY <1>2, SpawnInv, ReapInv, RecordOutcomeInv, ReapChildInv, ReapSelfInv DEF Next, Reaping
<1> QED
  BY <1>1, <1>2

-----------------------------------------------------------------------------
(* Processes *)

(* A node's id is its parent's and a name of its own, so that no two nodes   *)
(* share one as long as a parent gives no name twice.                        *)
NamesOK ==
  /\ id[Top] = <<>>
  /\ \A n \in Spawned : Born(parent[n]) /\ \E name \in Names : id[n] = Append(id[parent[n]], name)
  /\ \A m, n \in Nodes : Born(m) /\ Born(n) /\ id[m] = id[n] => m = n

ProcessInv == NamesOK /\ NoOrphanProcess /\ LoopKills

LEMMA SpawnProcess ==
  ASSUME ~ReuseNames, Inv, ProcessInv,
         NEW p \in Nodes, NEW n \in Nodes, NEW name \in Names, Spawn(p, n, name)
  PROVE  ProcessInv'
<1> DEFINE new == Append(id[p], name)
<1>1. TypeOK /\ Born(p) /\ p \in alive /\ n # Top /\ parent[n] = NoParent /\ p # NoParent
  BY ContainmentAssumption DEF Inv, Spawn, Born, MaySpawn
<1>2. /\ \A m \in Nodes : parent'[m] = IF m = n THEN p ELSE parent[m]
      /\ \A m \in Nodes : id'[m] = IF m = n THEN new ELSE id[m]
      /\ running' \subseteq running \cup {new} /\ alive' = alive \cup {n} /\ reaping' = <<>>
  BY <1>1 DEF Spawn, TypeOK
<1>3. p # n
  BY <1>1, ContainmentAssumption DEF Born
<1>4. \A m \in Nodes : (Born(m)' <=> Born(m) \/ m = n)
      /\ (m \in Spawned' <=> m \in Spawned \/ m = n)
  BY <1>1, <1>2 DEF Born, Spawned
<1>5. ASSUME NEW m \in Nodes, Born(m), id[m] = new PROVE FALSE
  <2>1. id[p] \in Seq(Names) /\ new # <<>>
    <3>1. id[p] \in Seq(Names)
      BY <1>1 DEF TypeOK
    <3> QED
      BY <3>1, AppendProperties
  <2>2. m \in Spawned /\ m # Top
    BY <1>5, <2>1 DEF ProcessInv, NamesOK, Born, Spawned
  <2>3. PICK other \in Names : id[m] = Append(id[parent[m]], other)
    BY <2>2 DEF ProcessInv, NamesOK
  <2>4. parent[m] \in Nodes /\ Born(parent[m])
    BY <1>1, <2>2 DEF ProcessInv, NamesOK, Spawned, TypeOK
  <2>5. id[parent[m]] \in Seq(Names)
    BY <1>1, <2>4 DEF TypeOK
  <2>6. id[parent[m]] = id[p]
    <3>1. Append(id[parent[m]], other) = Append(id[p], name)
      BY <1>5, <2>3
    <3>2. \A s, t \in Seq(Names), e, f \in Names : Append(s, e) = Append(t, f) => s = t
      BY AppendInjective
    <3> QED
      BY <2>1, <2>5, <3>1, <3>2, Zenon
  <2>7. parent[m] = p
    BY <1>1, <2>4, <2>6 DEF ProcessInv, NamesOK
  <2> QED
    BY <1>5, <2>7 DEF Spawn, NameIsTaken
<1> HIDE DEF new
<1>6. NamesOK'
  <2>1. id'[Top] = <<>>
    BY <1>1, <1>2, ContainmentAssumption DEF ProcessInv, NamesOK
  <2>2. ASSUME NEW m \in Spawned'
        PROVE  Born(parent[m])' /\ \E x \in Names : id'[m] = Append(id'[parent'[m]], x)
    <3>1. CASE m = n
      BY <1>1, <1>2, <1>3, <1>4, <3>1 DEF new
    <3>2. CASE m # n
      <4>1. m \in Spawned /\ parent'[m] = parent[m] /\ parent[m] \in Nodes /\ id'[m] = id[m]
        BY <1>1, <1>2, <1>4, <3>2 DEF Spawned, TypeOK
      <4>2. Born(parent[m]) /\ parent[m] # n
        BY <1>1, <4>1 DEF ProcessInv, NamesOK, Born
      <4> QED
        BY <1>2, <1>4, <4>1, <4>2 DEF ProcessInv, NamesOK, Born
    <3> QED
      BY <3>1, <3>2
  <2>3. ASSUME NEW l \in Nodes, NEW m \in Nodes, Born(l)', Born(m)', id'[l] = id'[m]
        PROVE  l = m
    BY <1>2, <1>4, <1>5, <2>3 DEF ProcessInv, NamesOK
  <2> QED
    BY <2>1, <2>2, <2>3 DEF NamesOK
<1>7. NoOrphanProcess'
  <2> SUFFICES ASSUME NEW m \in Spawned', id'[m] \in running' PROVE parent'[m] \in alive'
    BY DEF NoOrphanProcess
  <2>1. CASE m = n
    BY <1>1, <1>2, <2>1
  <2>2. CASE m # n
    <3>1. m \in Nodes /\ m \in Spawned /\ Born(m)
      BY <1>4, <2>2 DEF Spawned, Born
    <3>2. id[m] \in running
      BY <1>2, <1>5, <2>2, <3>1
    <3> QED
      BY <1>2, <2>2, <3>1, <3>2 DEF ProcessInv, NoOrphanProcess
  <2> QED
    BY <2>1, <2>2
<1>8. LoopKills'
  BY <1>2 DEF LoopKills, Covered
<1> QED
  BY <1>6, <1>7, <1>8 DEF ProcessInv

LEMMA ReapSelfProcess ==
  ASSUME Inv, ProcessInv, ReapSelf
  PROVE  ProcessInv'
<1> DEFINE node == Frame.node
<1>1. TypeOK /\ UNCHANGED tree /\ alive' = alive \ {node} /\ Frame.left = <<>>
      /\ running' \subseteq running
  BY DEF Inv, ReapSelf, Reaped, Marked, Killed
<1>2. Len(reaping) \in DOMAIN reaping /\ Frame = reaping[Len(reaping)] /\ node \in Nodes
  BY <1>1, StackFrame DEF ReapSelf, Frames
<1>3. NamesOK'
  BY <1>1 DEF ProcessInv, NamesOK, Born, Spawned, tree
<1>4. ASSUME NEW m \in Spawned, id[m] \in running PROVE parent[m] # node
  BY <1>1, <1>2, <1>4 DEF ProcessInv, LoopKills, Covered, Pending
<1>5. NoOrphanProcess'
  BY <1>1, <1>4 DEF ProcessInv, NoOrphanProcess, Spawned, tree
<1>6. LoopKills'
  <2> SUFFICES ASSUME NEW m \in Spawned, id[m] \in running' PROVE Covered(m)'
    BY <1>1 DEF LoopKills, Spawned, tree
  <2>1. m \in Nodes /\ Covered(m)
    BY <1>1 DEF ProcessInv, LoopKills, Spawned
  <2>2. CASE m = node
    <3>1. ~Killed(node)
      BY <2>2 DEF Killed
    <3>2. reaping' = <<>>
      BY <3>1 DEF ReapSelf
    <3> QED
      BY <3>2 DEF Covered
  <2>3. CASE m # node
    BY <2>1, <2>3, ReapSelfCovered
  <2> QED
    BY <2>2, <2>3
<1> QED
  BY <1>3, <1>5, <1>6 DEF ProcessInv

(* Between the calls of a reap, and at an outcome, no process comes or goes. *)
LEMMA OtherProcess ==
  ASSUME Inv, ProcessInv, UNCHANGED <<tree, alive, running>>,
         \A n \in Nodes : Covered(n) => Covered(n)'
  PROVE  ProcessInv'
<1>1. NamesOK' /\ NoOrphanProcess'
  BY DEF ProcessInv, NamesOK, NoOrphanProcess, Born, Spawned, tree
<1>2. LoopKills'
  BY DEF ProcessInv, LoopKills, Spawned, tree
<1> QED
  BY <1>1, <1>2 DEF ProcessInv

LEMMA ProcessStep ==
  ASSUME ~ReuseNames
  PROVE  Inv /\ ProcessInv /\ [Next]_vars => ProcessInv'
<1> SUFFICES ASSUME Inv, ProcessInv, [Next]_vars PROVE ProcessInv'
  OBVIOUS
<1>1. CASE UNCHANGED vars
  BY <1>1, OtherProcess DEF vars, tree, Covered, Pending
<1>2. ASSUME NEW p \in Nodes, NEW n \in Nodes, NEW name \in Names, Spawn(p, n, name)
      PROVE  ProcessInv'
  BY <1>2, SpawnProcess
<1>3. ASSUME NEW n \in Nodes, Reap(n) PROVE ProcessInv'
  <2>1. UNCHANGED <<tree, alive, running>> /\ \A m \in Nodes : Covered(m)'
    BY <1>3, ReapCovered DEF Reap
  <2> QED
    BY <2>1, OtherProcess
<1>4. ASSUME NEW n \in Nodes, RecordOutcome(n) PROVE ProcessInv'
  <2>1. UNCHANGED <<tree, alive, running, reaping>>
    BY <1>4 DEF RecordOutcome
  <2> QED
    BY <2>1, OtherProcess DEF Covered, Pending, tree
<1>5. CASE ReapChild
  <2>1. UNCHANGED <<tree, alive, running>>
    BY <1>5 DEF ReapChild
  <2> QED
    BY <1>5, <2>1, ReapChildShape, OtherProcess
<1>6. CASE ReapSelf
  BY <1>6, ReapSelfProcess
<1> QED
  BY <1>1, <1>2, <1>3, <1>4, <1>5, <1>6 DEF Next, Reaping

LEMMA InitProcess == Init => ProcessInv
<1> SUFFICES ASSUME Init PROVE ProcessInv
  OBVIOUS
<1>1. Spawned = {} /\ \A n \in Nodes : Born(n) => n = Top
  BY DEF Init, Spawned, Born
<1>2. id[Top] = <<>>
  BY ContainmentAssumption DEF Init
<1> QED
  BY <1>1, <1>2 DEF ProcessInv, NamesOK, NoOrphanProcess, LoopKills

(* With a runtime that does not raise, a node is marked and its process ends *)
(* in one step, so that they can differ only where an id is shared.          *)
IdsGiven == \A n \in Nodes : id[n] = <<>> <=> n \notin Spawned

RunsWhatLives == running \subseteq {id[n] : n \in alive}

LivesOrShares ==
  \A n \in Spawned \cap alive : id[n] \in running \/ \E m \in Nodes \ {n} : id[m] = id[n]

FaultlessInv == IdsGiven /\ RunsWhatLives /\ LivesOrShares

LEMMA SpawnFaultless ==
  ASSUME Faults = {}, Inv, FaultlessInv,
         NEW p \in Nodes, NEW n \in Nodes, NEW name \in Names, Spawn(p, n, name)
  PROVE  FaultlessInv'
<1> DEFINE new == Append(id[p], name)
<1>1. TypeOK /\ parent[n] = NoParent /\ p # NoParent /\ n \notin alive
  BY ContainmentAssumption DEF Inv, TreeOK, Spawn, Born
<1>2. /\ \A m \in Nodes : parent'[m] = IF m = n THEN p ELSE parent[m]
      /\ \A m \in Nodes : id'[m] = IF m = n THEN new ELSE id[m]
      /\ running' = running \cup {new} /\ alive' = alive \cup {n}
  BY <1>1 DEF Spawn, TypeOK
<1>3. new # <<>>
  <2>1. id[p] \in Seq(Names)
    BY <1>1 DEF TypeOK
  <2> QED
    BY <2>1, AppendProperties
<1>4. \A m \in Nodes : m \in Spawned' <=> m \in Spawned \/ m = n
  BY <1>1, <1>2 DEF Spawned
<1> HIDE DEF new
<1>5. IdsGiven'
  BY <1>2, <1>3, <1>4 DEF FaultlessInv, IdsGiven
<1>6. RunsWhatLives'
  <2>1. ASSUME NEW m \in alive PROVE m \in Nodes /\ id'[m] = id[m]
    BY <1>1, <1>2, <2>1 DEF TypeOK
  <2> QED
    BY <1>2, <2>1 DEF FaultlessInv, RunsWhatLives
<1>7. LivesOrShares'
  <2> SUFFICES ASSUME NEW m \in Spawned', m \in alive'
               PROVE  id'[m] \in running' \/ \E l \in Nodes \ {m} : id'[l] = id'[m]
    BY DEF LivesOrShares
  <2>1. CASE m = n
    BY <1>2, <2>1
  <2>2. CASE m # n
    <3>1. m \in Spawned \cap alive /\ m \in Nodes /\ id'[m] = id[m]
      BY <1>2, <1>4, <2>2 DEF Spawned
    <3>2. CASE id[m] \in running
      BY <1>2, <3>1, <3>2
    <3>3. ASSUME NEW l \in Nodes \ {m}, id[l] = id[m]
          PROVE  id'[l] = id'[m]
      <4>1. n \notin Spawned
        BY <1>1 DEF Spawned
      <4>2. l # n
        BY <3>1, <3>3, <4>1 DEF FaultlessInv, IdsGiven
      <4> QED
        BY <1>2, <3>1, <3>3, <4>2
    <3> QED
      BY <3>1, <3>2, <3>3 DEF FaultlessInv, LivesOrShares
  <2> QED
    BY <2>1, <2>2
<1> QED
  BY <1>5, <1>6, <1>7 DEF FaultlessInv

LEMMA ReapSelfFaultless ==
  ASSUME Faults = {}, Inv, FaultlessInv, ReapSelf
  PROVE  FaultlessInv'
<1> DEFINE node == Frame.node
<1>1. UNCHANGED tree /\ alive' = alive \ {node} /\ running' = running \ {id[node]}
  BY DEF ReapSelf, Marked, Killed
<1>2. TypeOK /\ node \in Nodes
  BY StackFrame DEF Inv, ReapSelf, Frames
<1>3. IdsGiven' /\ Spawned' = Spawned
  BY <1>1 DEF FaultlessInv, IdsGiven, Spawned, tree
<1>4. RunsWhatLives'
  BY <1>1 DEF FaultlessInv, RunsWhatLives, tree
<1>5. LivesOrShares'
  <2> SUFFICES ASSUME NEW m \in Spawned \cap alive, m # node
               PROVE  id[m] \in running' \/ \E l \in Nodes \ {m} : id[l] = id[m]
    BY <1>1, <1>3 DEF LivesOrShares, tree
  <2>1. CASE id[m] = id[node]
    BY <1>2, <2>1
  <2>2. CASE id[m] # id[node]
    BY <1>1, <2>2 DEF FaultlessInv, LivesOrShares
  <2> QED
    BY <2>1, <2>2
<1> QED
  BY <1>3, <1>4, <1>5 DEF FaultlessInv

LEMMA FaultlessStep ==
  ASSUME Faults = {}
  PROVE  Inv /\ FaultlessInv /\ [Next]_vars => FaultlessInv'
<1> SUFFICES ASSUME Inv, FaultlessInv, [Next]_vars PROVE FaultlessInv'
  OBVIOUS
<1>1. CASE UNCHANGED <<tree, alive, running>>
  BY <1>1 DEF FaultlessInv, IdsGiven, RunsWhatLives, LivesOrShares, Spawned, tree
<1>2. ASSUME NEW p \in Nodes, NEW n \in Nodes, NEW name \in Names, Spawn(p, n, name)
      PROVE  FaultlessInv'
  BY <1>2, SpawnFaultless
<1>3. CASE ReapSelf
  BY <1>3, ReapSelfFaultless
<1>4. CASE ReapChild \/ (\E n \in Nodes : Reap(n) \/ RecordOutcome(n)) \/ UNCHANGED vars
  BY <1>1, <1>4 DEF ReapChild, Reap, RecordOutcome, vars
<1> QED
  BY <1>2, <1>3, <1>4 DEF Next, Reaping

LEMMA InitFaultless == Init => FaultlessInv
BY DEF Init, FaultlessInv, IdsGiven, RunsWhatLives, LivesOrShares, Spawned

-----------------------------------------------------------------------------
(* The theorems *)

(* No process runs under a node that has been marked dead, however a runtime *)
(* whose kill() raises cuts reaps short and however they are repeated, as    *)
(* long as no parent gives a name twice: ids are what the runtime kills by.  *)
THEOREM ProcessesAreReaped == ASSUME ~ReuseNames PROVE Spec => []NoOrphanProcess
<1>1. ProcessInv => NoOrphanProcess
  BY DEF ProcessInv
<1>2. Inv /\ ProcessInv /\ [Next]_vars => ProcessInv'
  BY ProcessStep
<1> QED
  BY <1>1, <1>2, InitInv, StepInv, InitProcess, PTL DEF Spec

(* With a runtime that does not raise, what runs is what is alive, also      *)
(* where names are used twice and however the reaps nest.                    *)
THEOREM TheLivingRun == ASSUME Faults = {} PROVE Spec => []RunningIsAlive
<1>1. FaultlessInv => RunningIsAlive
  BY DEF FaultlessInv, RunsWhatLives, LivesOrShares, RunningIsAlive
<1>2. Inv /\ FaultlessInv /\ [Next]_vars => FaultlessInv'
  BY FaultlessStep
<1> QED
  BY <1>1, <1>2, InitInv, StepInv, InitFaultless, PTL DEF Spec

(* Every part of the state keeps its type.                                   *)
THEOREM TypeCorrect == Spec => []TypeOK
<1>1. Inv => TypeOK
  BY DEF Inv
<1> QED
  BY <1>1, InitInv, StepInv, PTL DEF Spec

(* No child outlives the box it was born in, at any moment of any reap, with *)
(* any runtime: "no orphan processes" (containment.py, rule 1).              *)
THEOREM NoOrphanEver == Spec => []NoOrphans
<1>1. Inv => NoOrphans
  BY DEF Inv
<1> QED
  BY <1>1, InitInv, StepInv, PTL DEF Spec

(* Each level of a spawned node has cost it PROMOTE_AFTER good outcomes, in  *)
(* whatever order outcomes, demotions and births came (rule 2).              *)
THEOREM TrustIsEarned == Spec => []EarnedSlowly
<1>1. Inv => EarnedSlowly
  <2> SUFFICES ASSUME Inv, NEW n \in Spawned PROVE level[n] * PROMOTE_AFTER <= good[n]
    BY DEF EarnedSlowly
  <2>1. n \in Nodes \ {Top}
    BY DEF Inv, TreeOK, Spawned
  <2>2. level[n] * PROMOTE_AFTER + (IF level[n] < TRUSTED THEN streak[n] ELSE 0) <= good[n]
    BY <2>1 DEF Inv, Earned
  <2>3. /\ level[n] \in 0..3 /\ streak[n] \in Nat /\ good[n] \in Nat /\ PROMOTE_AFTER \in Nat
        /\ level[n] * PROMOTE_AFTER \in Nat
    BY <2>1, LevelTypes, Multiples DEF Inv
  <2> QED
    BY <2>2, <2>3
<1> QED
  BY <1>1, InitInv, StepInv, PTL DEF Spec

(* Nothing irreversible escapes the gate, and nothing else does without two  *)
(* earned levels: "the irreversible floor is ALWAYS gated" (rule 2).         *)
THEOREM FloorIsGated == Spec => []UngatedIsEarned
<1>1. Inv => UngatedIsEarned
  <2> SUFFICES ASSUME Inv, NEW n \in Nodes, NEW reversible \in BOOLEAN, NEW sampled \in BOOLEAN,
                      verdict_for(n, reversible, sampled) = "execute"
               PROVE  /\ n \in alive /\ reversible
                      /\ n # Top => good[n] >= 2 * PROMOTE_AFTER
    BY DEF UngatedIsEarned
  <2>1. level[n] \in 0..3 /\ streak[n] \in Nat /\ good[n] \in Nat /\ PROMOTE_AFTER \in Nat
    BY LevelTypes DEF Inv
  <2>2. n \in alive /\ reversible
    BY DEF verdict_for
  <2>3. level[n] >= 2
    BY <2>1 DEF verdict_for, gating, SHADOW, CONTAINED, SUPERVISED, TRUSTED
  <2>4. ASSUME n # Top PROVE good[n] >= 2 * PROMOTE_AFTER
    <3>1. level[n] * PROMOTE_AFTER + (IF level[n] < TRUSTED THEN streak[n] ELSE 0) <= good[n]
      BY <2>4 DEF Inv, Earned
    <3>2. 2 * PROMOTE_AFTER <= level[n] * PROMOTE_AFTER /\ level[n] * PROMOTE_AFTER \in Nat
      BY <2>1, <2>3, Multiples
    <3> QED
      BY <2>1, <3>1, <3>2
  <2> QED
    BY <2>2, <2>4
<1> QED
  BY <1>1, InitInv, StepInv, PTL DEF Spec

(* A child out-ranks its parent only after a demotion of the parent.         *)
THEOREM RankIsInherited == Spec => []OutranksOnlyDemoted
<1>1. Inv => OutranksOnlyDemoted
  BY DEF Inv
<1> QED
  BY <1>1, InitInv, StepInv, PTL DEF Spec
=============================================================================
