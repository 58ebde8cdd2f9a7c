--------------------------- MODULE DetectiveProofs ----------------------------
(****************************************************************************)
(* Theorems about the detective layer: what the triggers find by an event   *)
(* at a time, and what the chronicle then holds.                            *)
(****************************************************************************)
EXTENDS Detective, FoldProofs

-----------------------------------------------------------------------------
(* The events *)

Keys(trigger) == {Key(trigger, kind) : kind \in Kinds}

LEMMA KeyType ==
  ASSUME NEW e \in Events, NEW trigger
  PROVE  Key(trigger, e) \in Keys(trigger)
<1>1. PICK kind \in Kinds, ts \in Times : e = Event(kind, ts)
  BY DEF Events
<1>2. Key(trigger, e) = Key(trigger, kind)
  BY <1>1 DEF Event, Key, LoopKey
<1> QED
  BY <1>2 DEF Keys

LEMMA EventType == \A e \in Events : e.ts \in Int /\ e.cost \in Nat
BY DetectiveAssumption DEF Events, Event

-----------------------------------------------------------------------------
(* A pass of a trigger over a log, by an event at a time *)

Logs == Seq(Events)
Quotes(trigger) == {Measure(trigger, events, S) : events \in Logs, S \in SUBSET Nat}
Incidents(trigger) == {Incident(trigger, e, n) : e \in Events, n \in Quotes(trigger)}

(* What a pass has kept and found after n events. *)
Accs(trigger, n) ==
  [buckets : [Keys(trigger) -> SUBSET (1..n)], out : Seq(Incidents(trigger))]

LEMMA StartType == ASSUME NEW trigger, NEW n PROVE Start(trigger) \in Accs(trigger, n)
BY DEF Start, Accs, Keys

LEMMA StepType ==
  ASSUME NEW trigger, NEW events \in Logs, NEW n \in Nat, n <= Len(events),
         NEW acc \in Accs(trigger, n), NEW i \in 1..n
  PROVE  Step(trigger, events, acc, i) \in Accs(trigger, n)
<1> DEFINE e == events[i]
           k == Key(trigger, e)
           recent == Recent(events, acc.buckets[k] \cup {i}, e.ts, Window[trigger])
           m == Measure(trigger, events, recent)
           fires == Full(trigger, m)
           left == IF fires THEN Reset(recent) ELSE recent
           found == IF fires THEN Append(acc.out, Incident(trigger, e, m)) ELSE acc.out
<1>1. e \in Events /\ k \in Keys(trigger)
  BY KeyType DEF Logs
<1>2. recent \subseteq 1..n
  BY <1>1 DEF Recent, Accs
<1>3. m \in Quotes(trigger)
  <2>1. recent \in SUBSET Nat
    <3>1. 1..n \subseteq Nat
      OBVIOUS
    <3> HIDE DEF recent
    <3> QED
      BY <1>2, <3>1
  <2> HIDE DEF recent
  <2> QED
    BY <2>1 DEF Quotes
<1>4. left \in SUBSET (1..n)
  BY <1>2 DEF Reset
<1>5. found \in Seq(Incidents(trigger))
  <2>1. Incident(trigger, e, m) \in Incidents(trigger)
    <3> HIDE DEF e, m
    <3> QED
      BY <1>1, <1>3 DEF Incidents
  <2> HIDE DEF m, fires
  <2> QED
    BY <2>1 DEF Accs
<1>6. [buckets |-> [acc.buckets EXCEPT ![k] = left], out |-> found] \in Accs(trigger, n)
  <2> HIDE DEF left, found, k
  <2> QED
    BY <1>1, <1>4, <1>5 DEF Accs
<1>7. Step(trigger, events, acc, i) =
        IF ~Counts(trigger, e) THEN acc
        ELSE [buckets |-> [acc.buckets EXCEPT ![k] = left], out |-> found]
  BY DEF Step
<1> HIDE DEF left, found, k, e
<1> QED
  BY <1>6, <1>7

Positions(events) == [i \in DOMAIN events |-> i]
StepFun(trigger, events, n) ==
  [x \in Accs(trigger, n) \X (1..n) |-> Step(trigger, events, x[1], x[2])]

LEMMA PassFolds ==
  ASSUME NEW trigger, NEW events \in Logs, NEW n \in Nat, n <= Len(events),
         NEW seq \in Seq(1..n)
  PROVE  Folds(Accs(trigger, n), 1..n, StepFun(trigger, events, n), Start(trigger), seq)
BY StartType, StepType DEF Folds, StepFun

LEMMA PassIsFold ==
  ASSUME NEW trigger, NEW events \in Logs
  PROVE  Pass(trigger, events) = Fold(StepFun(trigger, events, Len(events)), Start(trigger), Positions(events))
<1> DEFINE n == Len(events)
           s == Positions(events)
           g == StepFun(trigger, events, n)
           A == Accs(trigger, n)
<1>1. n \in Nat /\ DOMAIN events = 1..n
  BY DEF Logs
<1>2. s \in Seq(1..n)
  BY <1>1 DEF Positions
<1>3. Folds(A, 1..n, g, Start(trigger), s)
  BY <1>1, <1>2, PassFolds
<1>4. PICK it : FoldTable(it, A, g, Start(trigger), s)
  <2> HIDE DEF g, A, s, n
  <2> QED
    BY <1>3, FoldTableExists
<1> DEFINE Rec(jt) == jt = [t \in SUBSET DOMAIN s |->
                              IF t = {} THEN Start(trigger)
                              ELSE Step(trigger, events, jt[t \ {Max(t)}], s[Max(t)])]
<1>5. \A t \in SUBSET DOMAIN s : t # {} => Max(t) \in DOMAIN s /\ s[Max(t)] \in 1..n
  <2> DEFINE E == 1..n
  <2>1. s \in Seq(E)
    BY <1>2
  <2> HIDE DEF s, n, E
  <2>2. \A t \in SUBSET DOMAIN s : t # {} => Max(t) \in DOMAIN s
    BY <2>1, MaxChooses
  <2>3. \A x \in DOMAIN s : s[x] \in E
    BY <2>1
  <2> QED
    BY <2>2, <2>3 DEF E
<1>6. Rec(it)
  <2>1. \A t \in SUBSET DOMAIN s : t # {} => it[t] = Step(trigger, events, it[t \ {Max(t)}], s[Max(t)])
    <3>1. \A t \in SUBSET DOMAIN s : t \ {Max(t)} \in SUBSET DOMAIN s /\ it[t \ {Max(t)}] \in A
      BY <1>4 DEF FoldTable
    <3>2. \A a \in A, x \in 1..n : g[<<a, x>>] = Step(trigger, events, a, x)
      BY DEF StepFun
    <3> HIDE DEF g, A, s, n
    <3> QED
      BY <1>4, <1>5, <3>1, <3>2 DEF FoldTable
  <2> HIDE DEF s
  <2> QED
    BY <1>4, <2>1 DEF FoldTable
<1>7. PICK jt : Rec(jt) /\ Pass(trigger, events) = jt[DOMAIN s]
  BY <1>6 DEF Pass, FoldLeftDomain, FoldLeft, MapThenFoldSet, Positions
<1>8. GoesOn(jt, A, g, Start(trigger), s)
  <2>1. \A a \in A, x \in 1..n : g[<<a, x>>] = Step(trigger, events, a, x)
    BY DEF StepFun
  <2> HIDE DEF g, A, s, n
  <2> QED
    BY <1>5, <1>7, <2>1 DEF GoesOn
<1>9. jt[DOMAIN s] = Fold(g, Start(trigger), s)
  <2> HIDE DEF g, Rec, A, s, n
  <2> QED
    BY <1>3, <1>8, FoldIs
<1> QED
  BY <1>7, <1>9

LEMMA LogAppend ==
  ASSUME NEW events \in Logs, NEW e \in Events
  PROVE  /\ Append(events, e) \in Logs /\ Len(events) \in Nat
         /\ Len(Append(events, e)) = Len(events) + 1
         /\ DOMAIN events = 1..Len(events) /\ DOMAIN Append(events, e) = 1..(Len(events) + 1)
         /\ \A i \in 1..Len(events) : Append(events, e)[i] = events[i]
         /\ Append(events, e)[Len(events) + 1] = e
BY DEF Logs

LEMMA PassType ==
  ASSUME NEW trigger, NEW events \in Logs
  PROVE  Pass(trigger, events) \in Accs(trigger, Len(events))
<1> DEFINE n == Len(events)
           s == Positions(events)
<1>1. n \in Nat /\ s \in Seq(1..n)
  BY DEF Positions, Logs
<1>2. Folds(Accs(trigger, n), 1..n, StepFun(trigger, events, n), Start(trigger), s)
  <2>1. n <= Len(events)
    BY <1>1
  <2> HIDE DEF s, n
  <2> QED
    BY <1>1, <2>1, PassFolds
<1> HIDE DEF s, n
<1>3. Fold(StepFun(trigger, events, n), Start(trigger), s) \in Accs(trigger, n)
  BY <1>2, FoldType
<1> QED
  BY <1>3, PassIsFold DEF s, n

LEMMA PassEmpty == ASSUME NEW trigger PROVE Pass(trigger, <<>>) = Start(trigger)
<1> DEFINE none == <<>>
           n == Len(none)
<1>1. none \in Logs /\ n \in Nat /\ n <= Len(none) /\ none \in Seq(1..n) /\ Positions(none) = none
  BY DEF Logs, Positions
<1> HIDE DEF n, none
<1>2. Folds(Accs(trigger, n), 1..n, StepFun(trigger, none, n), Start(trigger), none)
  BY <1>1, PassFolds
<1>3. Fold(StepFun(trigger, none, n), Start(trigger), none) = Start(trigger)
  BY <1>2, FoldEmpty DEF none
<1> QED
  BY <1>1, <1>3, PassIsFold DEF n, none

Costs(events) == [i \in DOMAIN events |-> events[i].cost]

LEMMA SpendIsSum ==
  ASSUME NEW events \in Logs, NEW S \in SUBSET DOMAIN events
  PROVE  Sums(Costs(events), S) /\ Spend(events, S) = SumOver(Costs(events), S)
<1> DEFINE f == Costs(events)
<1>1. Sums(f, S)
  <2>1. DOMAIN events = 1..Len(events) /\ Len(events) \in Nat
    BY DEF Logs
  <2>2. IsFiniteSet(1..Len(events))
    BY <2>1, FS_Interval
  <2>3. IsFiniteSet(S)
    BY <2>1, <2>2, FS_Subset
  <2> QED
    BY <2>3, EventType DEF Sums, Costs, Logs
<1>2. PICK it : SumTable(it, f, S)
  BY <1>1, SumTableExists
<1> DEFINE Rec(jt) == jt = [s \in SUBSET S |->
                              IF s = {} THEN 0
                              ELSE events[Picked(s)].cost + jt[s \ {Picked(s)}]]
<1>3. \A s \in SUBSET S : s # {} => Picked(s) \in S /\ f[Picked(s)] = events[Picked(s)].cost
  BY DEF Picked, Costs
<1>4. Rec(it)
  BY <1>2, <1>3 DEF SumTable
<1>5. PICK jt : Rec(jt) /\ Spend(events, S) = jt[S]
  BY <1>4 DEF Spend, MapThenSumSet, MapThenFoldSet, Picked
<1>6. jt[{}] = 0 /\ \A s \in SUBSET S : s # {} => jt[s] = f[Picked(s)] + jt[s \ {Picked(s)}]
  BY <1>3, <1>5
<1>7. jt[S] = SumOver(f, S)
  <2> HIDE DEF f, Rec
  <2> QED
    BY <1>1, <1>6, SumIs
<1> QED
  BY <1>1, <1>5, <1>7

LEMMA MeasureSame ==
  ASSUME NEW trigger, NEW events \in Logs, NEW e \in Events, NEW T \in SUBSET (1..Len(events))
  PROVE  Measure(trigger, Append(events, e), T) = Measure(trigger, events, T)
<1> DEFINE n == Len(events)
           longer == Append(events, e)
<1>1. /\ longer \in Logs /\ DOMAIN events = 1..n /\ DOMAIN longer = 1..(n + 1) /\ n \in Nat
      /\ \A j \in 1..n : longer[j] = events[j]
  BY LogAppend
<1>2. CASE trigger # "BUDGET_VELOCITY"
  BY <1>2 DEF Measure
<1>3. CASE trigger = "BUDGET_VELOCITY"
  <2> HIDE DEF longer, n
  <2>1. /\ T \subseteq DOMAIN events /\ T \subseteq DOMAIN longer
        /\ \A j \in T : Costs(longer)[j] = Costs(events)[j]
    BY <1>1 DEF Costs, n
  <2>2. Sums(Costs(events), T) /\ Spend(events, T) = SumOver(Costs(events), T)
        /\ Spend(longer, T) = SumOver(Costs(longer), T)
    BY <1>1, <2>1, SpendIsSum
  <2>3. SumOver(Costs(longer), T) = SumOver(Costs(events), T)
    BY <2>1, <2>2, SumSame
  <2>4. Measure(trigger, longer, T) = Measure(trigger, events, T)
    BY <1>3, <2>2, <2>3 DEF Measure
  <2> QED
    BY <2>4 DEF longer
<1> QED
  BY <1>2, <1>3

LEMMA StepSame ==
  ASSUME NEW trigger, NEW events \in Logs, NEW e \in Events,
         NEW acc \in Accs(trigger, Len(events)), NEW i \in 1..Len(events)
  PROVE  Step(trigger, Append(events, e), acc, i) = Step(trigger, events, acc, i)
<1> DEFINE n == Len(events)
           longer == Append(events, e)
           k == Key(trigger, events[i])
           S == acc.buckets[k] \cup {i}
<1>1. longer[i] = events[i] /\ events[i] \in Events /\ \A j \in 1..n : longer[j] = events[j]
  BY LogAppend DEF Logs
<1>2. k \in Keys(trigger)
  BY <1>1, KeyType
<1>3. S \subseteq 1..n
  BY <1>2 DEF Accs
<1>4. \A now, window : Recent(longer, S, now, window) = Recent(events, S, now, window)
  <2> HIDE DEF S, longer, n
  <2> QED
    BY <1>1, <1>3 DEF Recent
<1>5. \A T \in SUBSET (1..n) : Measure(trigger, longer, T) = Measure(trigger, events, T)
  BY MeasureSame
<1>6. \A now, window : Recent(events, S, now, window) \in SUBSET (1..n)
  BY <1>3 DEF Recent
<1> HIDE DEF S, n, longer
<1> QED
  BY <1>1, <1>4, <1>5, <1>6 DEF Step, k, S, n, longer

LEMMA PassAppend ==
  ASSUME NEW trigger, NEW events \in Logs, NEW e \in Events
  PROVE  Pass(trigger, Append(events, e)) =
           Step(trigger, Append(events, e), Pass(trigger, events), Len(events) + 1)
<1> DEFINE n == Len(events)
           m == Len(events) + 1
           longer == Append(events, e)
           s == Positions(events)
           g == StepFun(trigger, events, n)
           h == StepFun(trigger, longer, m)
           A == Accs(trigger, n)
           B == Accs(trigger, m)
           base == Start(trigger)
<1>1. n \in Nat /\ m \in Nat /\ longer \in Logs /\ Len(longer) = m /\ m \in 1..m /\ 1..n \subseteq 1..m
  BY LogAppend
<1>2. s \in Seq(1..n) /\ s \in Seq(1..m) /\ Positions(longer) = Append(s, m)
  BY LogAppend DEF Positions
<1>3. A \subseteq B
  BY <1>1 DEF Accs
<1>4. Folds(A, 1..n, g, base, s) /\ Folds(B, 1..m, h, base, s)
  <2> n <= Len(events) /\ m <= Len(longer)
    BY <1>1
  <2> HIDE DEF n, m, longer, s
  <2> QED
    BY <1>1, <1>2, PassFolds
<1>5. \A a \in A, i \in 1..n : h[<<a, i>>] = g[<<a, i>>]
  BY <1>1, <1>3, StepSame DEF StepFun
<1>6. Fold(h, base, s) = Fold(g, base, s)
  <2> HIDE DEF n, m, longer, s, g, h, A, B, base
  <2> QED
    BY <1>1, <1>3, <1>4, <1>5, FoldSame
<1>7. Fold(h, base, Append(s, m)) = h[<<Fold(h, base, s), m>>]
  <2> HIDE DEF n, m, longer, s, g, h, A, B, base
  <2> QED
    BY <1>1, <1>4, FoldAppend
<1>8. Pass(trigger, events) = Fold(g, base, s) /\ Pass(trigger, longer) = Fold(h, base, Append(s, m))
  <2>1. Pass(trigger, longer) = Fold(StepFun(trigger, longer, Len(longer)), base, Positions(longer))
    <3> HIDE DEF longer
    <3> QED
      BY <1>1, PassIsFold
  <2> QED
    BY <1>1, <1>2, <2>1, PassIsFold
<1>9. Pass(trigger, events) \in B
  BY <1>3, PassType
<1> QED
  BY <1>1, <1>6, <1>7, <1>8, <1>9 DEF StepFun

-----------------------------------------------------------------------------
(* The injection markers and the removal of what is equal, by an event and by *)
(* an incident at a time                                                      *)

Marks == {Incident("INJECTION_MARKER", e, 0) : e \in Events}

MarkFun ==
  [x \in Seq(Marks) \X Events |->
     IF x[2].payload \in Marked THEN Append(x[1], Incident("INJECTION_MARKER", x[2], 0)) ELSE x[1]]

LEMMA MarkFolds == ASSUME NEW events \in Logs PROVE Folds(Seq(Marks), Events, MarkFun, <<>>, events)
<1>1. MarkFun \in [Seq(Marks) \X Events -> Seq(Marks)]
  <2> SUFFICES ASSUME NEW out \in Seq(Marks), NEW e \in Events
               PROVE  MarkFun[<<out, e>>] \in Seq(Marks)
    BY DEF MarkFun
  <2>1. Incident("INJECTION_MARKER", e, 0) \in Marks
    BY DEF Marks
  <2> QED
    BY <2>1, AppendProperties DEF MarkFun
<1> QED
  BY <1>1 DEF Folds, Logs

LEMMA MarkIsFold ==
  ASSUME NEW events \in Logs
  PROVE  InjectionMarker(events) = Fold(MarkFun, <<>>, events)
<1> DEFINE A == Seq(Marks)
           base == <<>>
           Next1(a, e) == IF e.payload \in Marked THEN Append(a, Incident("INJECTION_MARKER", e, 0)) ELSE a
<1>1. Folds(A, Events, MarkFun, base, events)
  BY MarkFolds
<1>2. PICK it : FoldTable(it, A, MarkFun, base, events)
  <2> HIDE DEF A, base
  <2> QED
    BY <1>1, FoldTableExists
<1>3. \A a \in A, e \in Events : MarkFun[<<a, e>>] = Next1(a, e)
  BY DEF MarkFun
<1>4. \A t \in SUBSET DOMAIN events : t # {} => Max(t) \in DOMAIN events /\ events[Max(t)] \in Events
  BY MaxChooses DEF Logs
<1> DEFINE Rec(jt) == jt = [t \in SUBSET DOMAIN events |->
                              IF t = {} THEN base ELSE Next1(jt[t \ {Max(t)}], events[Max(t)])]
<1>5. Rec(it)
  <2>1. \A t \in SUBSET DOMAIN events : t \ {Max(t)} \in SUBSET DOMAIN events /\ it[t \ {Max(t)}] \in A
    BY <1>2 DEF FoldTable
  <2> HIDE DEF A, base, Next1
  <2> QED
    BY <1>2, <1>3, <1>4, <2>1 DEF FoldTable
<1>6. PICK jt : Rec(jt) /\ InjectionMarker(events) = jt[DOMAIN events]
  BY <1>5 DEF InjectionMarker, FoldLeft, MapThenFoldSet
<1>7. GoesOn(jt, A, MarkFun, base, events)
  <2> HIDE DEF A, base, Next1
  <2> QED
    BY <1>3, <1>4, <1>6 DEF GoesOn
<1>8. jt[DOMAIN events] = Fold(MarkFun, base, events)
  <2> HIDE DEF A, base, Rec
  <2> QED
    BY <1>1, <1>7, FoldIs
<1> QED
  BY <1>6, <1>8

LEMMA MarkType ==
  ASSUME NEW events \in Logs
  PROVE  InjectionMarker(<<>>) = <<>> /\ InjectionMarker(events) \in Seq(Marks)
<1> DEFINE A == Seq(Marks)
           base == <<>>
<1>1. base \in Logs
  BY DEF Logs
<1> HIDE DEF A, base
<1>2. Folds(A, Events, MarkFun, base, events) /\ Folds(A, Events, MarkFun, base, base)
  BY <1>1, MarkFolds DEF A, base
<1>3. Fold(MarkFun, base, events) \in A /\ Fold(MarkFun, base, base) = base
  BY <1>2, FoldType, FoldEmpty DEF base
<1>4. InjectionMarker(events) = Fold(MarkFun, base, events)
      /\ InjectionMarker(base) = Fold(MarkFun, base, base)
  BY <1>1, MarkIsFold DEF base
<1> QED
  BY <1>3, <1>4 DEF A, base

LEMMA MarkAppend ==
  ASSUME NEW events \in Logs, NEW e \in Events
  PROVE  InjectionMarker(Append(events, e)) =
           IF e.payload \in Marked
           THEN Append(InjectionMarker(events), Incident("INJECTION_MARKER", e, 0))
           ELSE InjectionMarker(events)
<1> DEFINE A == Seq(Marks)
           base == <<>>
           longer == Append(events, e)
<1>1. Folds(A, Events, MarkFun, base, events) /\ longer \in Logs
  <2> longer \in Logs
    BY DEF Logs
  <2> QED
    BY MarkFolds
<1>2. Fold(MarkFun, base, events) \in A
      /\ Fold(MarkFun, base, longer) = MarkFun[<<Fold(MarkFun, base, events), e>>]
  <2> HIDE DEF A
  <2> QED
    BY <1>1, FoldType, FoldAppend
<1>3. InjectionMarker(events) = Fold(MarkFun, base, events)
      /\ InjectionMarker(longer) = Fold(MarkFun, base, longer)
  <2> HIDE DEF longer
  <2> QED
    BY <1>1, MarkIsFold
<1> QED
  BY <1>2, <1>3 DEF MarkFun

DedupFun(I) == [x \in Seq(I) \X I |-> IF Contains(x[1], x[2]) THEN x[1] ELSE Append(x[1], x[2])]

LEMMA RangeAppend ==
  ASSUME NEW I, NEW s \in Seq(I), NEW x \in I
  PROVE  Range(Append(s, x)) = Range(s) \cup {x}
<1>1. DOMAIN s = 1..Len(s) /\ DOMAIN Append(s, x) = 1..(Len(s) + 1) /\ Len(s) \in Nat
      /\ Append(s, x)[Len(s) + 1] = x /\ \A i \in 1..Len(s) : Append(s, x)[i] = s[i]
  OBVIOUS
<1>2. DOMAIN Append(s, x) = DOMAIN s \cup {Len(s) + 1}
  BY <1>1
<1> QED
  BY <1>1, <1>2 DEF Range

LEMMA DedupOne ==
  ASSUME NEW I, NEW s \in Seq(I), NEW x \in I
  PROVE  DedupFun(I)[<<s, x>>] \in Seq(I) /\ Range(DedupFun(I)[<<s, x>>]) = Range(s) \cup {x}
<1>1. CASE Contains(s, x)
  <2>1. x \in Range(s)
    BY <1>1 DEF Contains, Range
  <2> QED
    BY <1>1, <2>1 DEF DedupFun
<1>2. CASE ~Contains(s, x)
  BY <1>2, RangeAppend, AppendProperties DEF DedupFun
<1> QED
  BY <1>1, <1>2

LEMMA DedupedRange ==
  ASSUME NEW I, NEW found \in Seq(I), NEW more \in Seq(I)
  PROVE  Deduped(found, more) \in Seq(I) /\ Range(Deduped(found, more)) = Range(found) \cup Range(more)
<1> DEFINE A == Seq(I)
           g == DedupFun(I)
           Next1(all, inc) == IF Contains(all, inc) THEN all ELSE Append(all, inc)
<1>1. Folds(A, I, g, found, more)
  <2>1. g \in [A \X I -> A]
    <3> SUFFICES ASSUME NEW s \in A, NEW x \in I PROVE g[<<s, x>>] \in A
      BY DEF DedupFun
    <3> QED
      BY DedupOne
  <2> QED
    BY <2>1 DEF Folds
<1>2. PICK it : FoldTable(it, A, g, found, more)
  <2> HIDE DEF A, g
  <2> QED
    BY <1>1, FoldTableExists
<1>3. \A a \in A, e \in I : g[<<a, e>>] = Next1(a, e)
  BY DEF DedupFun
<1>4. \A t \in SUBSET DOMAIN more : t # {} => Max(t) \in t /\ Max(t) \in DOMAIN more /\ more[Max(t)] \in I
  <2>1. Choice(MaxOf(more), DOMAIN more)
        /\ \A t \in SUBSET DOMAIN more : t # {} => MaxOf(more)[t] = Max(t) /\ Max(t) \in DOMAIN more
    BY MaxChooses
  <2> QED
    BY <2>1 DEF Choice
<1> DEFINE Rec(jt) == jt = [t \in SUBSET DOMAIN more |->
                              IF t = {} THEN found ELSE Next1(jt[t \ {Max(t)}], more[Max(t)])]
<1>5. Rec(it)
  <2>1. \A t \in SUBSET DOMAIN more : t \ {Max(t)} \in SUBSET DOMAIN more /\ it[t \ {Max(t)}] \in A
    BY <1>2 DEF FoldTable
  <2> HIDE DEF A, g, Next1
  <2> QED
    BY <1>2, <1>3, <1>4, <2>1 DEF FoldTable
<1>6. PICK jt : Rec(jt) /\ Deduped(found, more) = jt[DOMAIN more]
  BY <1>5 DEF Deduped, FoldLeft, MapThenFoldSet
<1>7. GoesOn(jt, A, g, found, more)
  <2> HIDE DEF A, g, Next1
  <2> QED
    BY <1>3, <1>4, <1>6 DEF GoesOn
<1>8. jt[DOMAIN more] = Fold(g, found, more)
  <2> HIDE DEF A, g, Rec
  <2> QED
    BY <1>1, <1>7, FoldIs
<1> DEFINE Of(s) == {more[i] : i \in s}
           G == {s \in SUBSET DOMAIN more : jt[s] \in A /\ Range(jt[s]) = Range(found) \cup Of(s)}
<1>9. ASSUME NEW T \in SUBSET DOMAIN more, \A U \in SUBSET T : U # T => U \in G
      PROVE  T \in G
  <2>1. CASE T = {}
    BY <1>6, <2>1
  <2>2. CASE T # {}
    <3> DEFINE m == Max(T)
               U == T \ {m}
    <3>1. m \in T /\ m \in DOMAIN more /\ more[m] \in I /\ U \in SUBSET T /\ U # T
      BY <1>4, <2>2
    <3>2. jt[U] \in A /\ Range(jt[U]) = Range(found) \cup Of(U)
      <4>1. U \in G
        <5> HIDE DEF U, G
        <5> QED
          BY <1>9, <3>1
      <4> QED
        BY <4>1
    <3>3. jt[T] = g[<<jt[U], more[m]>>]
      BY <1>3, <1>6, <2>2, <3>1, <3>2
    <3>4. jt[T] \in A /\ Range(jt[T]) = Range(jt[U]) \cup {more[m]}
      <4> DEFINE s == jt[U]
                 x == more[m]
      <4>1. s \in Seq(I) /\ x \in I
        BY <3>1, <3>2
      <4>2. DedupFun(I)[<<s, x>>] \in Seq(I) /\ Range(DedupFun(I)[<<s, x>>]) = Range(s) \cup {x}
        <5> HIDE DEF s, x
        <5> QED
          BY <4>1, DedupOne
      <4> HIDE DEF m, U, Rec, G, Of
      <4> QED
        BY <3>3, <4>2
    <3>5. Of(T) = Of(U) \cup {more[m]}
      <4>1. T = U \cup {m}
        BY <3>1
      <4> HIDE DEF U, m
      <4> QED
        BY <4>1
    <3> QED
      BY <3>2, <3>4, <3>5
  <2> QED
    BY <2>1, <2>2
<1>10. DOMAIN more \in G
  <2>1. IsFiniteSet(DOMAIN more)
    BY MaxChooses
  <2> HIDE DEF G
  <2> QED
    BY <1>9, <2>1, SubsetInduction
<1>11. Of(DOMAIN more) = Range(more)
  BY DEF Range
<1> HIDE DEF Of
<1> QED
  BY <1>6, <1>10, <1>11

-----------------------------------------------------------------------------
(* A longer log shows what a shorter one showed                             *)

Found == Marks \cup UNION {Incidents(t) : t \in Range(Triggers)}

LEMMA TriggersType ==
  /\ Range(Triggers) = {"INJECTION_MARKER", "LOOP_STUTTER", "FAN_OUT", "BUDGET_VELOCITY"}
  /\ Triggers \in Seq(Range(Triggers)) /\ Triggers # <<>>
<1>1. DOMAIN Triggers = 1..4 /\ Triggers[1] = "INJECTION_MARKER" /\ Triggers[2] = "LOOP_STUTTER"
      /\ Triggers[3] = "FAN_OUT" /\ Triggers[4] = "BUDGET_VELOCITY" /\ Len(Triggers) = 4
  BY DEF Triggers
<1>2. Range(Triggers) = {Triggers[1], Triggers[2], Triggers[3], Triggers[4]}
  <2>1. 1..4 = {1, 2, 3, 4}
    OBVIOUS
  <2> QED
    BY <1>1, <2>1 DEF Range
<1>3. Range(Triggers) = {"INJECTION_MARKER", "LOOP_STUTTER", "FAN_OUT", "BUDGET_VELOCITY"}
  BY <1>1, <1>2
<1> QED
  BY <1>3 DEF Triggers

LEMMA LogInduction ==
  ASSUME NEW G, <<>> \in G,
         \A events \in Logs, e \in Events : events \in G => Append(events, e) \in G
  PROVE  \A events \in Logs : events \in G
<1> DEFINE T == {n \in Nat : \A events \in Logs : Len(events) = n => events \in G}
<1>1. 0 \in T
  <2>1. \A events \in Logs : Len(events) = 0 => events = <<>>
    BY DEF Logs
  <2> QED
    BY <2>1
<1>2. ASSUME NEW n \in Nat, n \in T PROVE n + 1 \in T
  <2> SUFFICES ASSUME NEW events \in Logs, Len(events) = n + 1
               PROVE  events \in G
    OBVIOUS
  <2>1. PICK front \in Logs, e \in Events : events = Append(front, e)
    <3> DEFINE front == SubSeq(events, 1, n)
               e == events[n + 1]
    <3>1. front \in Logs /\ e \in Events /\ Len(front) = n /\ \A i \in 1..n : front[i] = events[i]
      BY DEF Logs
    <3>2. Append(front, e) \in Logs /\ Len(Append(front, e)) = n + 1
          /\ \A i \in 1..(n + 1) : Append(front, e)[i] = events[i]
      <4> HIDE DEF front
      <4> QED
        BY <3>1 DEF Logs
    <3>3. Append(front, e) = events
      <4> DEFINE l == Append(front, e)
      <4>1. l \in Seq(Events) /\ events \in Seq(Events) /\ Len(l) = Len(events)
            /\ \A i \in 1..Len(events) : l[i] = events[i]
        BY <3>2 DEF Logs
      <4> HIDE DEF l
      <4> QED
        BY <4>1, SeqEqual DEF l
    <3> QED
      BY <3>1, <3>3
  <2>2. Len(front) = n
    BY <2>1, LogAppend
  <2> QED
    BY <1>2, <2>1, <2>2
<1>3. \A n \in Nat : n \in T
  <2> HIDE DEF T
  <2> QED
    BY <1>1, <1>2, Induction
<1> QED
  BY <1>3 DEF Logs

LEMMA PassOut ==
  ASSUME NEW trigger, NEW events \in Logs, NEW e \in Events
  PROVE  \/ Pass(trigger, Append(events, e)).out = Pass(trigger, events).out
         \/ \E x \in Incidents(trigger) :
              Pass(trigger, Append(events, e)).out = Append(Pass(trigger, events).out, x)
<1> DEFINE m == Len(events) + 1
           longer == Append(events, e)
           acc == Pass(trigger, events)
           now == Pass(trigger, longer)
<1>1. acc.out \in Seq(Incidents(trigger)) /\ now.out \in Seq(Incidents(trigger))
  BY PassType, LogAppend DEF Accs
<1>2. now.out = acc.out \/ \E x : now.out = Append(acc.out, x)
  <2>1. now = Step(trigger, longer, acc, m)
    BY PassAppend
  <2> HIDE DEF acc, now, longer, m
  <2> QED
    BY <2>1 DEF Step
<1>3. \A x : Append(acc.out, x) \in Seq(Incidents(trigger)) => x \in Incidents(trigger)
  <2> HIDE DEF acc
  <2> TAKE x
  <2>1. Len(acc.out) \in Nat /\ Append(acc.out, x)[Len(acc.out) + 1] = x
        /\ DOMAIN Append(acc.out, x) = 1..(Len(acc.out) + 1)
    BY <1>1
  <2> QED
    BY <2>1
<1> HIDE DEF acc, now, longer
<1> QED
  BY <1>1, <1>2, <1>3 DEF acc, now, longer

LEMMA ScanType ==
  ASSUME NEW trigger \in Range(Triggers), NEW events \in Logs
  PROVE  Scan(trigger, <<>>) = <<>> /\ Scan(trigger, events) \in Seq(Found)
<1>1. CASE trigger = "INJECTION_MARKER"
  <2>1. Seq(Marks) \subseteq Seq(Found)
    <3>1. Marks \subseteq Found
      BY DEF Found
    <3> QED
      BY <3>1
  <2>2. \A l : Scan(trigger, l) = InjectionMarker(l)
    BY <1>1 DEF Scan
  <2> QED
    BY <2>1, <2>2, MarkType
<1>2. CASE trigger # "INJECTION_MARKER"
  <2>1. Incidents(trigger) \subseteq Found
    BY DEF Found
  <2>2. Seq(Incidents(trigger)) \subseteq Seq(Found)
    BY <2>1
  <2>3. \A l : Scan(trigger, l) = Pass(trigger, l).out
    BY <1>2 DEF Scan
  <2>4. Pass(trigger, events).out \in Seq(Incidents(trigger))
    BY PassType DEF Accs
  <2>5. Pass(trigger, <<>>).out = <<>>
    <3>1. Pass(trigger, <<>>) = Start(trigger)
      BY PassEmpty
    <3>2. Start(trigger).out = <<>>
      BY DEF Start
    <3> QED
      BY <3>1, <3>2
  <2> QED
    BY <2>2, <2>3, <2>4, <2>5
<1> QED
  BY <1>1, <1>2

LEMMA ScanAppend ==
  ASSUME NEW trigger \in Range(Triggers), NEW events \in Logs, NEW e \in Events
  PROVE  \/ Scan(trigger, Append(events, e)) = Scan(trigger, events)
         \/ \E x \in Found : Scan(trigger, Append(events, e)) = Append(Scan(trigger, events), x)
<1>1. CASE trigger = "INJECTION_MARKER"
  <2>1. Incident("INJECTION_MARKER", e, 0) \in Found
    BY DEF Found, Marks
  <2>2. \A l : Scan(trigger, l) = InjectionMarker(l)
    BY <1>1 DEF Scan
  <2> QED
    BY <2>1, <2>2, MarkAppend
<1>2. CASE trigger # "INJECTION_MARKER"
  <2> DEFINE a == Pass(trigger, events).out
             b == Pass(trigger, Append(events, e)).out
  <2>1. Incidents(trigger) \subseteq Found
    BY DEF Found
  <2>2. b = a \/ \E x \in Incidents(trigger) : b = Append(a, x)
    BY PassOut
  <2>3. Scan(trigger, events) = a /\ Scan(trigger, Append(events, e)) = b
    BY <1>2 DEF Scan
  <2> HIDE DEF a, b
  <2> QED
    BY <2>1, <2>2, <2>3
<1> QED
  BY <1>1, <1>2

LEMMA ScanGrows ==
  ASSUME NEW trigger \in Range(Triggers), NEW events \in Logs, NEW e \in Events
  PROVE  Range(Scan(trigger, events)) \subseteq Range(Scan(trigger, Append(events, e)))
<1> DEFINE found == Scan(trigger, events)
           more == Scan(trigger, Append(events, e))
<1>1. found \in Seq(Found) /\ (more = found \/ \E x \in Found : more = Append(found, x))
  BY ScanType, ScanAppend
<1>2. Range(found) \subseteq Range(more)
  <2> HIDE DEF found, more
  <2>1. CASE more = found
    BY <2>1
  <2>2. ASSUME NEW x \in Found, more = Append(found, x) PROVE Range(found) \subseteq Range(more)
    <3>1. Range(Append(found, x)) = Range(found) \cup {x}
      BY <1>1, RangeAppend
    <3> QED
      BY <2>2, <3>1
  <2> QED
    BY <1>1, <2>1, <2>2
<1> QED
  BY <1>2

LEMMA ScanPrefix ==
  ASSUME NEW trigger \in Range(Triggers), NEW events \in Logs, NEW m \in 0..Len(events)
  PROVE  SubSeq(events, 1, m) \in Logs
         /\ Range(Scan(trigger, SubSeq(events, 1, m))) \subseteq Range(Scan(trigger, events))
<1> DEFINE P(l, k) == Range(Scan(trigger, SubSeq(l, 1, k))) \subseteq Range(Scan(trigger, l))
           G == {l \in Logs : \A k \in 0..Len(l) : P(l, k)}
<1>1. \A l \in Logs : SubSeq(l, 1, Len(l)) = l /\ P(l, Len(l))
  <2> SUFFICES ASSUME NEW l \in Logs PROVE SubSeq(l, 1, Len(l)) = l
    OBVIOUS
  <2>1. l \in Seq(Events) /\ SubSeq(l, 1, Len(l)) \in Seq(Events)
        /\ Len(SubSeq(l, 1, Len(l))) = Len(l)
        /\ \A i \in 1..Len(l) : SubSeq(l, 1, Len(l))[i] = l[i]
    BY DEF Logs
  <2> DEFINE t == SubSeq(l, 1, Len(l))
  <2> HIDE DEF t
  <2>2. t = l
    BY <2>1, SeqEqual DEF t
  <2> QED
    BY <2>2 DEF t
<1>2. <<>> \in G
  <2>1. <<>> \in Logs /\ Len(<<>>) = 0
    BY DEF Logs
  <2>2. 0..0 = {0}
    OBVIOUS
  <2> HIDE DEF P
  <2> QED
    BY <1>1, <2>1, <2>2
<1>3. ASSUME NEW l \in Logs, NEW e \in Events, l \in G PROVE Append(l, e) \in G
  <2> DEFINE longer == Append(l, e)
  <2>1. longer \in Logs /\ Len(l) \in Nat /\ Len(longer) = Len(l) + 1
    BY LogAppend
  <2>2. ASSUME NEW k \in 0..Len(l) PROVE P(longer, k)
    <3>1. SubSeq(longer, 1, k) = SubSeq(l, 1, k)
      BY DEF Logs
    <3>2. P(l, k)
      BY <1>3
    <3> HIDE DEF longer
    <3> QED
      BY <3>1, <3>2, ScanGrows DEF longer
  <2>3. \A k \in 0..Len(longer) : k = Len(longer) \/ k \in 0..Len(l)
    BY <2>1
  <2> HIDE DEF longer, P
  <2> QED
    BY <1>1, <2>1, <2>2, <2>3 DEF longer
<1>4. events \in G
  <2> HIDE DEF G
  <2> QED
    BY <1>2, <1>3, LogInduction
<1> QED
  BY <1>4 DEF Logs

LEMMA AllEmpty == AllOf(<<>>) = {}
<1>1. <<>> \in Logs
  BY DEF Logs
<1>2. \A t \in Range(Triggers) : Scan(t, <<>>) = <<>>
  BY <1>1, ScanType
<1>3. Range(<<>>) = {}
  BY DEF Range
<1> QED
  BY <1>2, <1>3 DEF AllOf

LEMMA AllOfGrows ==
  ASSUME NEW events \in Logs, NEW e \in Events
  PROVE  AllOf(events) \subseteq AllOf(Append(events, e))
BY ScanGrows DEF AllOf

LEMMA AllOfPrefix ==
  ASSUME NEW events \in Logs, NEW m \in 0..Len(events)
  PROVE  AllOf(SubSeq(events, 1, m)) \subseteq AllOf(events)
BY ScanPrefix DEF AllOf

LEMMA PrefixAppend ==
  ASSUME NEW events \in Logs, NEW e \in Events, NEW m \in 0..Len(events)
  PROVE  SubSeq(Append(events, e), 1, m) = SubSeq(events, 1, m) /\ m \in 0..Len(Append(events, e))
BY DEF Logs

LEMMA WholePrefix == ASSUME NEW events \in Logs PROVE SubSeq(events, 1, Len(events)) = events
<1> DEFINE l == SubSeq(events, 1, Len(events))
<1>1. events \in Seq(Events) /\ l \in Seq(Events) /\ Len(l) = Len(events)
      /\ \A i \in 1..Len(events) : l[i] = events[i]
  BY DEF Logs
<1> HIDE DEF l
<1>2. l = events
  BY <1>1, SeqEqual
<1> QED
  BY <1>2 DEF l

LEMMA RangeHeadTail ==
  ASSUME NEW I, NEW s \in Seq(I), s # <<>>
  PROVE  Head(s) \in I /\ Tail(s) \in Seq(I) /\ Range(s) = {Head(s)} \cup Range(Tail(s))
<1>1. /\ Head(s) \in I /\ Tail(s) \in Seq(I) /\ Len(Tail(s)) = Len(s) - 1 /\ Len(s) \in Nat /\ Len(s) > 0
      /\ Head(s) = s[1] /\ DOMAIN s = 1..Len(s) /\ DOMAIN Tail(s) = 1..(Len(s) - 1)
      /\ \A i \in 1..(Len(s) - 1) : Tail(s)[i] = s[i + 1]
  BY HeadTailProperties
<1>2. Range(s) \subseteq {Head(s)} \cup Range(Tail(s))
  <2> SUFFICES ASSUME NEW i \in DOMAIN s PROVE s[i] = Head(s) \/ s[i] \in Range(Tail(s))
    BY DEF Range
  <2>1. CASE i = 1
    BY <1>1, <2>1
  <2>2. CASE i # 1
    <3>1. i - 1 \in 1..(Len(s) - 1) /\ (i - 1) + 1 = i
      BY <1>1, <2>2
    <3>2. Tail(s)[i - 1] = s[i] /\ i - 1 \in DOMAIN Tail(s)
      BY <1>1, <3>1
    <3> QED
      BY <3>2 DEF Range
  <2> QED
    BY <2>1, <2>2
<1>3. {Head(s)} \cup Range(Tail(s)) \subseteq Range(s)
  <2>1. \A i \in 1..(Len(s) - 1) : i + 1 \in DOMAIN s
    BY <1>1
  <2>2. 1 \in DOMAIN s
    BY <1>1
  <2> QED
    BY <1>1, <2>1, <2>2 DEF Range
<1> QED
  BY <1>1, <1>2, <1>3

-----------------------------------------------------------------------------
(* The sweeps                                                               *)

SweepTypes ==
  /\ event_log \in Logs /\ todo \in Seq(Range(Triggers)) /\ incidents \in Seq(Found)
  /\ begun \in 0..Len(event_log) /\ swept \in 0..Len(event_log)

(* What a sweep has found so far, the log it has in front of it shows; and   *)
(* it has found what the triggers it is done with showed when it began.      *)
FoundIsShown == Range(incidents) \subseteq AllOf(event_log)

ShownIsFound ==
  sweeping =>
    \A t \in Range(Triggers) :
      t \in Range(todo) \/ Range(Scan(t, SubSeq(event_log, 1, begun))) \subseteq Range(incidents) \cup sink

SweepInv == SweepTypes /\ FoundIsShown /\ ShownIsFound /\ SinkIsExplained /\ SweptIsReported

LEMMA NothingSwept ==
  ASSUME NEW events \in Logs
  PROVE  AllOf(SubSeq(events, 1, 0)) = {} /\ 0 \in 0..Len(events)
<1>1. SubSeq(events, 1, 0) = <<>> /\ 0 \in 0..Len(events)
  BY DEF Logs
<1>2. AllOf(<<>>) = {}
  BY AllEmpty
<1> QED
  BY <1>1, <1>2

LEMMA SweepInit == Init => SweepInv
<1> SUFFICES ASSUME Init PROVE SweepInv
  OBVIOUS
<1>1. event_log \in Logs
  BY DetectiveAssumption DEF Init, Logs
<1>2. todo \in Seq(Range(Triggers)) /\ incidents \in Seq(Found) /\ Range(incidents) = {}
  BY DEF Init, Range
<1>3. AllOf(SubSeq(event_log, 1, swept)) = {} /\ begun \in 0..Len(event_log) /\ swept \in 0..Len(event_log)
  BY <1>1, NothingSwept DEF Init
<1> QED
  BY <1>1, <1>2, <1>3 DEF Init, SweepInv, SweepTypes, FoundIsShown, ShownIsFound, SinkIsExplained,
                          SweptIsReported

LEMMA IdleKeeps ==
  ASSUME SweepInv, Idle, event_log' \in Logs
  PROVE  /\ todo' \in Seq(Range(Triggers)) /\ incidents' \in Seq(Found) /\ begun' \in 0..Len(event_log')
         /\ FoundIsShown' /\ ShownIsFound'
<1>1. 0 \in 0..Len(event_log')
  BY NothingSwept
<1>2. Range(incidents') = {}
  BY DEF Idle, Range
<1> QED
  BY <1>1, <1>2 DEF Idle, FoundIsShown, ShownIsFound

LEMMA SweepAppend ==
  ASSUME SweepInv, NEW kind \in Kinds, NEW ts \in Times, AppendEvent(kind, ts)
  PROVE  SweepInv'
<1> DEFINE e == Event(kind, ts)
<1>1. e \in Events
  BY DEF Events
<1>2. event_log' = Append(event_log, Event(kind, ts))
  BY Zenon DEF AppendEvent
<1>3. event_log' = Append(event_log, e)
  BY <1>2 DEF e
<1> HIDE DEF e
<1>4. e \in Events /\ event_log \in Logs /\ event_log' = Append(event_log, e)
      /\ begun \in 0..Len(event_log) /\ swept \in 0..Len(event_log)
  BY <1>1, <1>3 DEF SweepInv, SweepTypes
<1>5. event_log' \in Logs /\ AllOf(event_log) \subseteq AllOf(event_log')
  BY <1>4, LogAppend, AllOfGrows
<1>6. /\ SubSeq(event_log', 1, begun) = SubSeq(event_log, 1, begun) /\ begun \in 0..Len(event_log')
      /\ SubSeq(event_log', 1, swept) = SubSeq(event_log, 1, swept) /\ swept \in 0..Len(event_log')
  BY <1>4, PrefixAppend
<1>7. UNCHANGED <<sink, todo, incidents, sweeping, begun, swept, past, lost>>
  BY DEF AppendEvent
<1>8. SweepTypes'
  BY <1>5, <1>6, <1>7 DEF SweepInv, SweepTypes
<1>9. FoundIsShown' /\ SinkIsExplained'
  BY <1>5, <1>7 DEF SweepInv, FoundIsShown, SinkIsExplained
<1>10. ShownIsFound' /\ SweptIsReported'
  BY <1>6, <1>7 DEF SweepInv, ShownIsFound, SweptIsReported
<1> QED
  BY <1>8, <1>9, <1>10 DEF SweepInv

LEMMA SweepScan == ASSUME SweepInv, ScanNext PROVE SweepInv'
<1> DEFINE t0 == Head(todo)
           found == Scan(t0, event_log)
<1>1. /\ event_log \in Logs /\ incidents \in Seq(Found) /\ begun \in 0..Len(event_log)
      /\ todo \in Seq(Range(Triggers)) /\ todo # <<>> /\ sweeping
      /\ incidents' = Deduped(incidents, found) /\ todo' = Tail(todo)
      /\ UNCHANGED <<event_log, sink, sweeping, begun, swept, past, lost>>
  BY DEF ScanNext, Scanned, SweepInv, SweepTypes
<1>2. t0 \in Range(Triggers) /\ todo' \in Seq(Range(Triggers)) /\ Range(todo) = {t0} \cup Range(todo')
  BY <1>1, RangeHeadTail
<1>3. found \in Seq(Found)
  BY <1>1, <1>2, ScanType
<1>4. incidents' \in Seq(Found) /\ Range(incidents') = Range(incidents) \cup Range(found)
  <2> HIDE DEF found
  <2> QED
    BY <1>1, <1>3, DedupedRange
<1>5. Range(found) \subseteq AllOf(event_log)
  BY <1>2 DEF AllOf
<1>6. Range(Scan(t0, SubSeq(event_log, 1, begun))) \subseteq Range(found)
  BY <1>1, <1>2, ScanPrefix
<1> HIDE DEF t0, found
<1>7. SweepTypes'
  BY <1>1, <1>2, <1>4 DEF SweepInv, SweepTypes
<1>8. FoundIsShown' /\ SinkIsExplained' /\ SweptIsReported'
  BY <1>1, <1>4, <1>5 DEF SweepInv, FoundIsShown, SinkIsExplained, SweptIsReported
<1>9. ShownIsFound'
  BY <1>1, <1>2, <1>4, <1>6 DEF SweepInv, ShownIsFound
<1> QED
  BY <1>7, <1>8, <1>9 DEF SweepInv

LEMMA SweepEmit == ASSUME SweepInv, EmitNext PROVE SweepInv'
<1>1. /\ incidents \in Seq(Found) /\ incidents # <<>>
      /\ sink' = sink \cup {Head(incidents)} /\ incidents' = Tail(incidents)
      /\ UNCHANGED <<event_log, todo, sweeping, begun, swept, past, lost>>
  BY DEF EmitNext, Emitted, SweepInv, SweepTypes
<1>2. incidents' \in Seq(Found) /\ Range(incidents) = {Head(incidents)} \cup Range(incidents')
  BY <1>1, RangeHeadTail
<1>3. SweepTypes'
  BY <1>1, <1>2 DEF SweepInv, SweepTypes
<1>4. FoundIsShown' /\ SinkIsExplained' /\ SweptIsReported'
  BY <1>1, <1>2 DEF SweepInv, FoundIsShown, SinkIsExplained, SweptIsReported
<1>5. Range(incidents') \cup sink' = Range(incidents) \cup sink
  BY <1>1, <1>2
<1>6. ShownIsFound'
  BY <1>1, <1>5 DEF SweepInv, ShownIsFound
<1> QED
  BY <1>3, <1>4, <1>6 DEF SweepInv

LEMMA SweepStep == SweepInv /\ [Next]_vars => SweepInv'
<1> SUFFICES ASSUME SweepInv, [Next]_vars PROVE SweepInv'
  OBVIOUS
<1>1. CASE \E kind \in Kinds, ts \in Times : AppendEvent(kind, ts)
  BY <1>1, SweepAppend
<1>2. CASE BeginSweep
  <2>1. /\ UNCHANGED <<event_log, sink, swept, past, lost>>
        /\ incidents' = <<>> /\ todo' = Triggers /\ begun' = Len(event_log)
    BY <1>2 DEF BeginSweep
  <2>2. Range(incidents') = {} /\ todo' \in Seq(Range(Triggers)) /\ incidents' \in Seq(Found)
        /\ Range(todo') = Range(Triggers)
    BY <2>1, TriggersType DEF Range
  <2>3. begun' \in 0..Len(event_log)
    BY <2>1 DEF SweepInv, SweepTypes, Logs
  <2> QED
    BY <2>1, <2>2, <2>3 DEF SweepInv, SweepTypes, FoundIsShown, ShownIsFound, SinkIsExplained,
                            SweptIsReported
<1>3. CASE ScanNext
  BY <1>3, SweepScan
<1>4. CASE EmitNext
  BY <1>4, SweepEmit
<1>5. CASE EmitRaises
  <2>1. Idle /\ event_log' \in Logs /\ UNCHANGED <<event_log, sink, swept, past, lost>>
    BY <1>5 DEF EmitRaises, SweepInv, SweepTypes
  <2>2. /\ todo' \in Seq(Range(Triggers)) /\ incidents' \in Seq(Found) /\ begun' \in 0..Len(event_log')
        /\ FoundIsShown' /\ ShownIsFound'
    BY <2>1, IdleKeeps
  <2> QED
    BY <2>1, <2>2 DEF SweepInv, SweepTypes, SinkIsExplained, SweptIsReported
<1>6. CASE EndSweep
  <2>1. /\ Idle /\ event_log' \in Logs /\ UNCHANGED <<event_log, sink, past, lost>>
        /\ swept' = begun /\ sweeping /\ Range(incidents) = {} /\ Range(todo) = {}
    BY <1>6 DEF EndSweep, SweepInv, SweepTypes, Range
  <2>2. /\ todo' \in Seq(Range(Triggers)) /\ incidents' \in Seq(Found) /\ begun' \in 0..Len(event_log')
        /\ FoundIsShown' /\ ShownIsFound'
    BY <2>1, IdleKeeps
  <2>3. \A t \in Range(Triggers) : Range(Scan(t, SubSeq(event_log, 1, begun))) \subseteq sink
    BY <2>1 DEF SweepInv, ShownIsFound
  <2>4. SweptIsReported'
    BY <2>1, <2>3 DEF SweptIsReported, AllOf
  <2> QED
    BY <2>1, <2>2, <2>4 DEF SweepInv, SweepTypes, SinkIsExplained
<1>7. CASE Restart
  <2>1. Idle /\ event_log' = <<>> /\ past' = past \cup AllOf(event_log) /\ swept' = 0 /\ UNCHANGED sink
    BY <1>7 DEF Restart
  <2>2. event_log' \in Logs
    BY <2>1 DEF Logs
  <2>3. /\ todo' \in Seq(Range(Triggers)) /\ incidents' \in Seq(Found) /\ begun' \in 0..Len(event_log')
        /\ FoundIsShown' /\ ShownIsFound'
    BY <2>1, <2>2, IdleKeeps
  <2>4. AllOf(SubSeq(event_log', 1, swept')) = {} /\ swept' \in 0..Len(event_log')
    BY <2>1, <2>2, NothingSwept
  <2>5. SinkIsExplained'
    BY <2>1 DEF SweepInv, SinkIsExplained
  <2>6. SweptIsReported'
    BY <2>4 DEF SweptIsReported
  <2> QED
    BY <2>2, <2>3, <2>4, <2>5, <2>6 DEF SweepInv, SweepTypes
<1>8. CASE UNCHANGED vars
  BY <1>8 DEF vars, SweepInv, SweepTypes, FoundIsShown, ShownIsFound, SinkIsExplained, SweptIsReported
<1> QED
  BY <1>1, <1>2, <1>3, <1>4, <1>5, <1>6, <1>7, <1>8 DEF Next

LEMMA SweepAlways == Spec => []SweepInv
<1> QED
  BY SweepInit, SweepStep, PTL DEF Spec

(* The chronicle holds only incidents that one undisturbed scan of the log   *)
(* of some process reports, however sweeps overlap with the gateway's        *)
(* appends, raise half-way, are repeated or end with the process.            *)
THEOREM SinkExplained == Spec => []SinkIsExplained
<1>1. SweepInv => SinkIsExplained
  BY DEF SweepInv
<1> QED
  BY <1>1, SweepAlways, PTL

(* When a sweep has ended, whatever any trigger shows of the log that it had *)
(* in front of it when it began is in the chronicle.                         *)
THEOREM SweptReported == Spec => []SweptIsReported
<1>1. SweepInv => SweptIsReported
  BY DEF SweepInv
<1> QED
  BY <1>1, SweepAlways, PTL

-----------------------------------------------------------------------------
(* What an event changes of a pass                                          *)

RecentAt(trigger, events, e) ==
  Recent(Append(events, e), Pass(trigger, events).buckets[Key(trigger, e)] \cup {Len(events) + 1},
         e.ts, Window[trigger])

MeasureAt(trigger, events, e) == Measure(trigger, Append(events, e), RecentAt(trigger, events, e))
FiresAt(trigger, events, e) == Full(trigger, MeasureAt(trigger, events, e))

Bucket(trigger, events, k) == Pass(trigger, events).buckets[k]

LEMMA BucketType ==
  ASSUME NEW trigger, NEW events \in Logs, NEW k \in Keys(trigger)
  PROVE  Bucket(trigger, events, k) \subseteq 1..Len(events)
BY PassType DEF Accs, Bucket

LEMMA BucketAppend ==
  ASSUME NEW trigger, NEW events \in Logs, NEW e \in Events, NEW k \in Keys(trigger)
  PROVE  Bucket(trigger, Append(events, e), k) =
           IF ~Counts(trigger, e) \/ k # Key(trigger, e) THEN Bucket(trigger, events, k)
           ELSE IF FiresAt(trigger, events, e) THEN {} ELSE RecentAt(trigger, events, e)
<1> DEFINE longer == Append(events, e)
           m == Len(events) + 1
           acc == Pass(trigger, events)
           ke == Key(trigger, e)
           recent == RecentAt(trigger, events, e)
           fires == FiresAt(trigger, events, e)
           left == IF fires THEN Reset(recent) ELSE recent
           found == IF fires THEN Append(acc.out, Incident(trigger, e, MeasureAt(trigger, events, e))) ELSE acc.out
<1>1. longer[m] = e /\ ke \in Keys(trigger)
  BY LogAppend, KeyType
<1>2. acc.buckets \in [Keys(trigger) -> SUBSET (1..Len(events))]
  BY PassType DEF Accs
<1>3. Pass(trigger, longer) = IF ~Counts(trigger, e) THEN acc
                              ELSE [buckets |-> [acc.buckets EXCEPT ![ke] = left], out |-> found]
  <2>1. Pass(trigger, longer) = Step(trigger, longer, acc, m)
    BY PassAppend
  <2>2. recent = Recent(longer, acc.buckets[ke] \cup {m}, e.ts, Window[trigger])
    BY DEF RecentAt
  <2>3. fires = Full(trigger, Measure(trigger, longer, recent))
        /\ MeasureAt(trigger, events, e) = Measure(trigger, longer, recent)
    BY DEF FiresAt, MeasureAt
  <2> HIDE DEF longer, m, acc, recent, fires
  <2> QED
    BY <1>1, <2>1, <2>2, <2>3 DEF Step
<1>4. left = IF fires THEN {} ELSE recent
  BY DEF Reset
<1>5. CASE ~Counts(trigger, e)
  BY <1>3, <1>5 DEF Bucket
<1>6. CASE Counts(trigger, e)
  <2>1. Pass(trigger, longer).buckets = [acc.buckets EXCEPT ![ke] = left]
    <3> HIDE DEF left, found, acc, longer, ke
    <3> QED
      BY <1>3, <1>6
  <2>2. Pass(trigger, longer).buckets[k] = IF k = ke THEN left ELSE acc.buckets[k]
    <3> HIDE DEF left, found, acc, longer, ke
    <3> QED
      BY <1>1, <1>2, <2>1
  <2> HIDE DEF left
  <2> QED
    BY <1>4, <1>6, <2>2 DEF Bucket
<1> QED
  BY <1>5, <1>6

LEMMA OutAppend ==
  ASSUME NEW trigger, NEW events \in Logs, NEW e \in Events
  PROVE  Pass(trigger, Append(events, e)).out =
           IF Counts(trigger, e) /\ FiresAt(trigger, events, e)
           THEN Append(Pass(trigger, events).out, Incident(trigger, e, MeasureAt(trigger, events, e)))
           ELSE Pass(trigger, events).out
<1> DEFINE longer == Append(events, e)
           m == Len(events) + 1
           acc == Pass(trigger, events)
           ke == Key(trigger, e)
           recent == RecentAt(trigger, events, e)
<1>1. longer[m] = e
  BY LogAppend
<1>2. Pass(trigger, longer) = Step(trigger, longer, acc, m)
  BY PassAppend
<1>3. recent = Recent(longer, acc.buckets[ke] \cup {m}, e.ts, Window[trigger])
  BY DEF RecentAt
<1>4. MeasureAt(trigger, events, e) = Measure(trigger, longer, recent)
      /\ FiresAt(trigger, events, e) = Full(trigger, Measure(trigger, longer, recent))
  BY DEF FiresAt, MeasureAt
<1> HIDE DEF longer, m, acc, recent
<1>5. Pass(trigger, longer).out =
        IF Counts(trigger, e) /\ FiresAt(trigger, events, e)
        THEN Append(acc.out, Incident(trigger, e, MeasureAt(trigger, events, e))) ELSE acc.out
  BY <1>1, <1>2, <1>3, <1>4 DEF Step
<1> QED
  BY <1>5 DEF acc, longer

LEMMA RecentIn ==
  ASSUME NEW trigger, NEW events \in Logs, NEW e \in Events
  PROVE  /\ RecentAt(trigger, events, e) \subseteq
              Bucket(trigger, events, Key(trigger, e)) \cup {Len(events) + 1}
         /\ RecentAt(trigger, events, e) \subseteq 1..(Len(events) + 1)
<1>1. RecentAt(trigger, events, e) \subseteq
        Bucket(trigger, events, Key(trigger, e)) \cup {Len(events) + 1}
  BY DEF RecentAt, Recent, Bucket
<1>2. Bucket(trigger, events, Key(trigger, e)) \subseteq 1..Len(events) /\ Len(events) \in Nat
  BY KeyType, BucketType DEF Logs
<1> HIDE DEF Bucket
<1> QED
  BY <1>1, <1>2

-----------------------------------------------------------------------------
(* A loop is reported at most once for each threshold of its calls          *)

Where(s, C) == {i \in DOMAIN s : s[i] \in C}

LEMMA WhereAppend ==
  ASSUME NEW I, NEW s \in Seq(I), NEW x \in I, NEW C
  PROVE  /\ Cardinality(Where(s, C)) \in Nat
         /\ Cardinality(Where(Append(s, x), C)) =
              IF x \in C THEN Cardinality(Where(s, C)) + 1 ELSE Cardinality(Where(s, C))
<1> DEFINE w == Where(s, C)
           n == Len(s)
<1>1. n \in Nat /\ DOMAIN s = 1..n /\ DOMAIN Append(s, x) = 1..(n + 1)
      /\ Append(s, x)[n + 1] = x /\ \A i \in 1..n : Append(s, x)[i] = s[i]
  OBVIOUS
<1>2. w \subseteq 1..n
  BY <1>1 DEF Where
<1>3. IsFiniteSet(w)
  <2>1. IsFiniteSet(1..n)
    BY <1>1, FS_Interval
  <2> HIDE DEF n, w
  <2> QED
    BY <1>2, <2>1, FS_Subset
<1>4. Where(Append(s, x), C) = IF x \in C THEN w \cup {n + 1} ELSE w
  BY <1>1 DEF Where
<1>5. n + 1 \notin w
  BY <1>1, <1>2
<1> HIDE DEF w, n
<1>6. Cardinality(w) \in Nat /\ Cardinality(w \cup {n + 1}) = Cardinality(w) + 1
  BY <1>3, <1>5, FS_CardinalityType, FS_AddElement
<1> QED
  BY <1>4, <1>6 DEF w

SameTool(C, e0) == {x \in C : x.actor = e0.actor /\ x.tool = e0.tool}

Reports(events, e0) == Where(Pass("LOOP_STUTTER", events).out, SameTool(Found, e0))
Calls(events, e0) == Where(events, SameTool(Events, e0))

(* The calls that are still in a bucket.                                    *)
Open(events, e0) ==
  {p \in Calls(events, e0) : p \in Bucket("LOOP_STUTTER", events, LoopKey(events[p]))}

KeysKept(events) ==
  \A k \in Keys("LOOP_STUTTER") : \A p \in Bucket("LOOP_STUTTER", events, k) : LoopKey(events[p]) = k

ReportsPaid(events, e0) ==
  Cardinality(Reports(events, e0)) * loop_threshold + Cardinality(Open(events, e0))
    <= Cardinality(Calls(events, e0))

LEMMA Sizes ==
  ASSUME NEW n \in Nat, NEW S \in SUBSET (1..n)
  PROVE  IsFiniteSet(S) /\ Cardinality(S) \in Nat
<1>1. IsFiniteSet(1..n)
  BY FS_Interval
<1>2. IsFiniteSet(S)
  BY <1>1, FS_Subset
<1> QED
  BY <1>2, FS_CardinalityType

LEMMA OpenType ==
  ASSUME NEW events \in Logs, NEW e0
  PROVE  Open(events, e0) \subseteq 1..Len(events) /\ Calls(events, e0) \subseteq 1..Len(events)
         /\ Len(events) \in Nat
BY DEF Open, Calls, Where, Logs

LEMMA KeysStay ==
  ASSUME NEW events \in Logs, NEW e \in Events, KeysKept(events)
  PROVE  KeysKept(Append(events, e))
<1> DEFINE L == "LOOP_STUTTER"
           longer == Append(events, e)
           m == Len(events) + 1
<1> SUFFICES ASSUME NEW k \in Keys(L), NEW p \in Bucket(L, longer, k)
             PROVE  LoopKey(longer[p]) = k
  BY DEF KeysKept
<1>1. longer[m] = e /\ \A i \in 1..Len(events) : longer[i] = events[i]
  BY LogAppend
<1>2. \A q \in Bucket(L, events, k) : q \in 1..Len(events) /\ LoopKey(events[q]) = k
  BY BucketType DEF KeysKept
<1>3. CASE p \in Bucket(L, events, k)
  BY <1>1, <1>2, <1>3
<1>4. CASE p \notin Bucket(L, events, k)
  <2>1. k = Key(L, e) /\ p \in RecentAt(L, events, e)
    BY <1>4, BucketAppend
  <2>2. p = m
    BY <1>4, <2>1, RecentIn
  <2> QED
    BY <1>1, <2>1, <2>2 DEF Key
<1> QED
  BY <1>3, <1>4

LEMMA CountLeft ==
  ASSUME NEW n \in Nat, NEW S \in SUBSET (1..n), NEW R \in SUBSET (1..(n + 1)),
         R \subseteq S \cup {n + 1}, NEW T \in SUBSET ((S \cup {n + 1}) \ R)
  PROVE  Cardinality(T) + Cardinality(R) <= Cardinality(S) + 1
<1> DEFINE U == S \cup {n + 1}
<1>1. IsFiniteSet(S) /\ Cardinality(S) \in Nat
  BY Sizes
<1>2. n + 1 \notin S
  OBVIOUS
<1>3. IsFiniteSet(U) /\ Cardinality(U) = Cardinality(S) + 1
  BY <1>1, <1>2, FS_AddElement
<1>4. U \cap R = R
  OBVIOUS
<1> HIDE DEF U
<1>5. IsFiniteSet(U \ R) /\ Cardinality(U \ R) = Cardinality(U) - Cardinality(R)
  BY <1>3, <1>4, FS_Difference
<1>6. T \in SUBSET (U \ R)
  BY DEF U
<1>7. Cardinality(T) <= Cardinality(U \ R) /\ IsFiniteSet(T)
  BY <1>5, <1>6, FS_Subset
<1>8. Cardinality(T) \in Nat /\ Cardinality(R) \in Nat
  <2>1. n + 1 \in Nat
    OBVIOUS
  <2>2. Cardinality(R) \in Nat
    BY <2>1, Sizes
  <2> QED
    BY <1>7, <2>2, FS_CardinalityType
<1> QED
  BY <1>1, <1>3, <1>5, <1>7, <1>8

LEMMA OtherCall ==
  ASSUME NEW events \in Logs, NEW e \in Events, NEW e0 \in Events, KeysKept(events),
         ReportsPaid(events, e0), e \notin SameTool(Events, e0)
  PROVE  ReportsPaid(Append(events, e), e0)
<1> DEFINE L == "LOOP_STUTTER"
           longer == Append(events, e)
           m == Len(events) + 1
<1>1. /\ longer \in Logs /\ longer[m] = e /\ \A i \in 1..Len(events) : longer[i] = events[i]
      /\ DOMAIN events = 1..Len(events) /\ DOMAIN longer = 1..m /\ Len(events) \in Nat
  BY LogAppend
<1>2. Calls(longer, e0) = Calls(events, e0)
  <2> HIDE DEF longer
  <2> QED
    BY <1>1 DEF Calls, Where
<1>3. Cardinality(Reports(longer, e0)) = Cardinality(Reports(events, e0))
  <2> DEFINE found == Pass(L, events).out
             x == Incident(L, e, MeasureAt(L, events, e))
  <2>1. found \in Seq(Incidents(L)) /\ Pass(L, longer).out \in Seq(Incidents(L))
    BY <1>1, PassType DEF Accs
  <2>2. Pass(L, longer).out = found \/ Pass(L, longer).out = Append(found, x)
    BY OutAppend
  <2>3. x \notin SameTool(Found, e0)
    BY DEF SameTool, Incident
  <2>4. Append(found, x) \in Seq(Incidents(L)) => x \in Incidents(L)
    <3> HIDE DEF found, x
    <3>1. Len(found) \in Nat /\ Append(found, x)[Len(found) + 1] = x
          /\ DOMAIN Append(found, x) = 1..(Len(found) + 1)
      BY <2>1
    <3> QED
      BY <3>1
  <2>5. CASE Pass(L, longer).out = found
    BY <2>5 DEF Reports
  <2>6. CASE Pass(L, longer).out = Append(found, x)
    <3> HIDE DEF found, x
    <3>1. x \in Incidents(L)
      BY <2>1, <2>4, <2>6
    <3>2. Cardinality(Where(Append(found, x), SameTool(Found, e0))) = Cardinality(Where(found, SameTool(Found, e0)))
      BY <2>1, <2>3, <3>1, WhereAppend
    <3> QED
      BY <2>6, <3>2 DEF Reports, found
  <2> QED
    BY <2>2, <2>5, <2>6
<1>4. Open(longer, e0) = Open(events, e0)
  <2>1. ASSUME NEW p \in Calls(events, e0)
        PROVE  Bucket(L, longer, LoopKey(longer[p])) = Bucket(L, events, LoopKey(events[p]))
    <3>1. p \in 1..Len(events) /\ longer[p] = events[p] /\ events[p] \in SameTool(Events, e0)
      BY <1>1, OpenType DEF Calls, Where
    <3>2. LoopKey(events[p]) # LoopKey(e)
      BY <3>1 DEF LoopKey, SameTool
    <3>3. LoopKey(events[p]) \in Keys(L) /\ Key(L, e) = LoopKey(e)
      <4>1. events[p] \in Events /\ Key(L, events[p]) = LoopKey(events[p])
        BY <3>1 DEF SameTool, Key
      <4> QED
        BY <4>1, KeyType DEF Key
    <3> HIDE DEF longer
    <3> QED
      BY <3>1, <3>2, <3>3, BucketAppend DEF longer
  <2> HIDE DEF longer
  <2> QED
    BY <1>2, <2>1 DEF Open
<1> QED
  BY <1>2, <1>3, <1>4 DEF ReportsPaid

LEMMA LoopFires ==
  ASSUME NEW events \in Logs, NEW e \in Events
  PROVE  FiresAt("LOOP_STUTTER", events, e) <=>
           Cardinality(RecentAt("LOOP_STUTTER", events, e)) >= loop_threshold
BY DEF FiresAt, MeasureAt, Full, Measure, LoopFull

LEMMA SameCall ==
  ASSUME NEW events \in Logs, NEW e \in Events, NEW e0 \in Events, KeysKept(events),
         ReportsPaid(events, e0), e \in SameTool(Events, e0)
  PROVE  ReportsPaid(Append(events, e), e0)
<1> DEFINE L == "LOOP_STUTTER"
           longer == Append(events, e)
           n == Len(events)
           m == Len(events) + 1
           k == LoopKey(e)
           S == Open(events, e0)
           T == Open(longer, e0)
           R == RecentAt(L, events, e)
           c == Cardinality(Calls(events, e0))
           h == Cardinality(Reports(events, e0))
<1>1. /\ longer \in Logs /\ longer[m] = e /\ \A i \in 1..n : longer[i] = events[i]
      /\ DOMAIN events = 1..n /\ DOMAIN longer = 1..m /\ n \in Nat /\ m = n + 1
  BY LogAppend
<1>2. c \in Nat /\ Cardinality(Calls(longer, e0)) = c + 1
  BY WhereAppend DEF Calls, Logs
<1>3. S \in SUBSET (1..n) /\ R \in SUBSET (1..(n + 1)) /\ Calls(events, e0) \subseteq 1..n
  BY OpenType, RecentIn
<1>4. k \in Keys(L) /\ Key(L, e) = k /\ \A p \in DOMAIN longer : LoopKey(longer[p]) \in Keys(L)
  <2>1. \A x \in Events : LoopKey(x) = Key(L, x)
    BY DEF Key
  <2>2. \A p \in DOMAIN longer : longer[p] \in Events
    BY <1>1 DEF Logs
  <2> HIDE DEF longer
  <2> QED
    BY <2>1, <2>2, KeyType
<1>5. \A p \in Bucket(L, events, k) : p \in S
  <2> SUFFICES ASSUME NEW p \in Bucket(L, events, k) PROVE p \in S
    OBVIOUS
  <2>1. p \in 1..n /\ LoopKey(events[p]) = k
    BY <1>4, BucketType DEF KeysKept
  <2>2. events[p] \in Events /\ events[p].actor = e.actor /\ events[p].tool = e.tool
    BY <2>1 DEF LoopKey, Logs
  <2>3. p \in Calls(events, e0)
    BY <1>1, <2>1, <2>2 DEF Calls, Where, SameTool
  <2> QED
    BY <2>1, <2>3 DEF Open
<1>6. R \subseteq S \cup {m}
  BY <1>4, <1>5, RecentIn
<1>7. ASSUME NEW p \in T
      PROVE  \/ LoopKey(longer[p]) # k /\ p \in S
             \/ LoopKey(longer[p]) = k /\ p \in Bucket(L, longer, k)
  <2>1. p \in Calls(longer, e0) /\ p \in Bucket(L, longer, LoopKey(longer[p])) /\ p \in 1..m
    BY <1>1 DEF Open, Calls, Where
  <2>2. CASE LoopKey(longer[p]) = k
    BY <2>1, <2>2
  <2>3. CASE LoopKey(longer[p]) # k
    <3> DEFINE kp == LoopKey(longer[p])
    <3>1. kp \in Keys(L) /\ kp # Key(L, e)
      BY <1>1, <1>4, <2>1, <2>3
    <3>2. p \in Bucket(L, events, kp)
      <4>1. p \in Bucket(L, longer, kp)
        BY <2>1
      <4> HIDE DEF kp
      <4> QED
        BY <3>1, <4>1, BucketAppend
    <3>3. p \in 1..n
      <4> HIDE DEF kp, n
      <4> QED
        BY <3>1, <3>2, BucketType DEF n
    <3>4. longer[p] = events[p]
      BY <1>1, <3>3
    <3>5. p \in Calls(events, e0)
      <4>1. longer[p] \in SameTool(Events, e0)
        BY <2>1 DEF Calls, Where
      <4> QED
        BY <1>1, <3>3, <3>4, <4>1 DEF Calls, Where
    <3> QED
      BY <2>3, <3>2, <3>4, <3>5 DEF Open
  <2> QED
    BY <2>2, <2>3
<1>8. Cardinality(S) \in Nat /\ Cardinality(R) \in Nat /\ loop_threshold \in Nat
      /\ h * loop_threshold + Cardinality(S) <= c
  <2>1. n + 1 \in Nat
    BY <1>1
  <2>2. Cardinality(S) \in Nat /\ Cardinality(R) \in Nat
    <3> HIDE DEF S, R, n
    <3> QED
      BY <1>1, <1>3, <2>1, Sizes
  <2> QED
    BY <2>2, DetectiveAssumption DEF ReportsPaid
<1>9. CASE FiresAt(L, events, e)
  <2> DEFINE found == Pass(L, events).out
             x == Incident(L, e, MeasureAt(L, events, e))
  <2>1. Pass(L, longer).out = Append(found, x)
    BY <1>9, OutAppend DEF Counts
  <2>2. found \in Seq(Found) /\ x \in Found
    <3>1. L \in Range(Triggers)
      BY TriggersType
    <3>2. Scan(L, events) = found /\ Scan(L, longer) = Append(found, x)
      BY <2>1 DEF Scan
    <3>3. found \in Seq(Found) /\ Append(found, x) \in Seq(Found)
      <4>1. Scan(L, events) \in Seq(Found) /\ Scan(L, longer) \in Seq(Found)
        <5> HIDE DEF L, longer
        <5> QED
          BY <1>1, <3>1, ScanType
      <4> HIDE DEF L, longer, found, x
      <4> QED
        BY <3>2, <4>1
    <3>4. Len(found) \in Nat /\ Append(found, x)[Len(found) + 1] = x
          /\ DOMAIN Append(found, x) = 1..(Len(found) + 1)
      <4> HIDE DEF found, x
      <4> QED
        BY <3>3
    <3> HIDE DEF found, x
    <3> QED
      BY <3>3, <3>4
  <2>3. x \in SameTool(Found, e0)
    BY <2>2 DEF SameTool, Incident
  <2>4. h \in Nat /\ Cardinality(Reports(longer, e0)) = h + 1
    <3> HIDE DEF found, x
    <3>1. Cardinality(Where(found, SameTool(Found, e0))) \in Nat
          /\ Cardinality(Where(Append(found, x), SameTool(Found, e0)))
               = Cardinality(Where(found, SameTool(Found, e0))) + 1
      BY <2>2, <2>3, WhereAppend
    <3> QED
      BY <2>1, <3>1 DEF Reports, found
  <2>5. Bucket(L, longer, k) = {}
    BY <1>4, <1>9, BucketAppend DEF Counts
  <2>6. \A p \in T : p \in S /\ p \notin R
    <3> SUFFICES ASSUME NEW p \in T PROVE p \in S /\ p \notin R
      OBVIOUS
    <3>1. p \in S /\ LoopKey(longer[p]) # k
      BY <1>7, <2>5
    <3>2. p \in 1..n /\ longer[p] = events[p] /\ p # m
      BY <1>1, <1>3, <3>1
    <3>3. p \notin Bucket(L, events, k)
      BY <1>4, <3>1, <3>2 DEF KeysKept
    <3> QED
      BY <1>4, <3>1, <3>2, <3>3, RecentIn
  <2>7. T \in SUBSET ((S \cup {n + 1}) \ R)
    BY <2>6
  <2>8. Cardinality(T) + Cardinality(R) <= Cardinality(S) + 1
    <3> HIDE DEF S, T, R, n
    <3> QED
      BY <1>1, <1>3, <1>6, <2>7, CountLeft
  <2>9. Cardinality(R) >= loop_threshold
    BY <1>9, LoopFires
  <2>10. Cardinality(T) \in Nat
    BY <1>1, OpenType, Sizes
  <2>11. (h + 1) * loop_threshold = h * loop_threshold + loop_threshold
    BY <1>8, <2>4
  <2>12. h * loop_threshold \in Nat
    BY <1>8, <2>4
  <2>13. (h + 1) * loop_threshold + Cardinality(T) <= c + 1
    <3> DEFINE ht == h * loop_threshold
               t == Cardinality(T)
               r == Cardinality(R)
               s == Cardinality(S)
    <3>1. ht \in Nat /\ t \in Nat /\ r \in Nat /\ s \in Nat /\ ht + s <= c /\ t + r <= s + 1
          /\ r >= loop_threshold /\ c \in Nat /\ loop_threshold \in Nat
      BY <1>2, <1>8, <2>8, <2>9, <2>10, <2>12
    <3> HIDE DEF ht, t, r, s, c
    <3>2. (ht + loop_threshold) + t <= c + 1
      BY <3>1
    <3> QED
      BY <2>11, <3>2 DEF ht, t
  <2> QED
    BY <1>2, <2>4, <2>13 DEF ReportsPaid
<1>10. CASE ~FiresAt(L, events, e)
  <2>1. Reports(longer, e0) = Reports(events, e0)
    BY <1>10, OutAppend DEF Reports
  <2>2. \A p \in T : p \in S \cup {m}
    <3> SUFFICES ASSUME NEW p \in T, p \notin S PROVE p = m
      OBVIOUS
    <3>1. p \in Bucket(L, longer, k)
      BY <1>7
    <3>2. p \in R
      BY <1>4, <1>10, <3>1, BucketAppend DEF Counts
    <3> QED
      BY <1>6, <3>2
  <2>3. T \in SUBSET ((S \cup {n + 1}) \ {}) /\ {} \subseteq S \cup {n + 1} /\ {} \in SUBSET (1..(n + 1))
    BY <1>1, <2>2
  <2>4. Cardinality(T) + Cardinality({}) <= Cardinality(S) + 1
    <3> HIDE DEF S, T, n
    <3> QED
      BY <1>1, <1>3, <2>3, CountLeft
  <2>5. Cardinality({}) = 0 /\ Cardinality(T) \in Nat
    <3>1. Cardinality({}) = 0
      BY FS_EmptySet
    <3>2. Cardinality(T) \in Nat
      BY <1>1, OpenType, Sizes
    <3> QED
      BY <3>1, <3>2
  <2>6. h \in Nat
    <3> DEFINE found == Pass(L, events).out
    <3>1. found \in Seq(Incidents(L))
      BY PassType DEF Accs
    <3>2. Len(found) \in Nat /\ Reports(events, e0) \in SUBSET (1..Len(found))
      BY <3>1 DEF Reports, Where
    <3> HIDE DEF found
    <3> QED
      BY <3>2, Sizes
  <2> DEFINE ht == h * loop_threshold
             t == Cardinality(T)
             s == Cardinality(S)
  <2>7. ht \in Nat /\ t \in Nat /\ s \in Nat /\ ht + s <= c /\ t <= s + 1 /\ c \in Nat
    BY <1>2, <1>8, <2>4, <2>5, <2>6
  <2>8. ht + t <= c + 1
    <3> HIDE DEF ht, t, s, c
    <3> QED
      BY <2>7
  <2> QED
    BY <1>2, <2>1, <2>8 DEF ReportsPaid
<1> QED
  BY <1>9, <1>10

LEMMA LoopsPaid ==
  \A events \in Logs : KeysKept(events) /\ \A e0 \in Events : ReportsPaid(events, e0)
<1> DEFINE G == {events \in Logs : KeysKept(events) /\ \A e0 \in Events : ReportsPaid(events, e0)}
           L == "LOOP_STUTTER"
           none == <<>>
<1>1. none \in G
  <2>1. none \in Logs
    BY DEF Logs
  <2>2. Pass(L, none) = Start(L)
    BY PassEmpty
  <2>3. \A k \in Keys(L) : Bucket(L, none, k) = {}
    BY <2>2 DEF Bucket, Start, Keys
  <2>4. Pass(L, none).out = <<>>
    <3>1. Start(L).out = <<>>
      BY DEF Start
    <3> QED
      BY <2>2, <3>1
  <2>5. ASSUME NEW e0 \in Events PROVE ReportsPaid(none, e0)
    <3>1. Reports(none, e0) = {} /\ Calls(none, e0) = {} /\ Open(none, e0) = {}
      <4>1. DOMAIN <<>> = {}
        OBVIOUS
      <4> QED
        BY <2>4, <4>1 DEF Reports, Calls, Open, Where
    <3>2. Cardinality({}) = 0
      BY FS_EmptySet
    <3> HIDE DEF none
    <3> QED
      BY <3>1, <3>2, DetectiveAssumption DEF ReportsPaid
  <2> QED
    BY <2>1, <2>3, <2>5 DEF KeysKept
<1>2. ASSUME NEW events \in Logs, NEW e \in Events, events \in G PROVE Append(events, e) \in G
  <2>1. KeysKept(events) /\ \A e0 \in Events : ReportsPaid(events, e0)
    BY <1>2
  <2>2. Append(events, e) \in Logs /\ KeysKept(Append(events, e))
    BY <2>1, KeysStay, LogAppend
  <2>3. \A e0 \in Events : ReportsPaid(Append(events, e), e0)
    BY <2>1, SameCall, OtherCall
  <2> QED
    BY <2>2, <2>3
<1>3. \A events \in Logs : events \in G
  <2> HIDE DEF G
  <2> QED
    BY <1>1, <1>2, LogInduction
<1> QED
  BY <1>3

(* However the log is ordered, a loop of n calls of a tool by an actor is     *)
(* reported at most n / threshold times.                                     *)
THEOREM OneIncidentALoop == Spec => []OneLoopOneIncident
<1>1. ASSUME event_log \in Logs PROVE OneLoopOneIncident
  <2> SUFFICES ASSUME NEW e \in Range(event_log)
               PROVE  LET found     == Scan("LOOP_STUTTER", event_log)
                          same(inc) == inc.actor = e.actor /\ inc.tool = e.tool
                      IN  Cardinality({n \in DOMAIN found : same(found[n])}) * loop_threshold
                            <= Cardinality({i \in DOMAIN event_log : same(event_log[i])})
    BY DEF OneLoopOneIncident
  <2> DEFINE found == Pass("LOOP_STUTTER", event_log).out
             hits == {n \in DOMAIN found : found[n].actor = e.actor /\ found[n].tool = e.tool}
             calls == {i \in DOMAIN event_log : event_log[i].actor = e.actor /\ event_log[i].tool = e.tool}
  <2>1. e \in Events /\ \A i \in DOMAIN event_log : event_log[i] \in Events
    BY <1>1 DEF Logs, Range
  <2>2. Scan("LOOP_STUTTER", event_log) = found
    BY DEF Scan
  <2>3. found \in Seq(Found)
    BY <1>1, <2>2, ScanType, TriggersType
  <2>4. \A n \in DOMAIN found : found[n] \in Found
    <3> HIDE DEF found
    <3> QED
      BY <2>3
  <2>5. calls = Calls(event_log, e)
    BY <2>1 DEF Calls, Where, SameTool
  <2>6. hits = Reports(event_log, e)
    <3> HIDE DEF found
    <3>1. hits = Where(found, SameTool(Found, e))
      BY <2>4 DEF Where, SameTool
    <3> QED
      BY <3>1 DEF Reports, found
  <2>7. ReportsPaid(event_log, e)
    BY <1>1, <2>1, LoopsPaid
  <2>8. Cardinality(Open(event_log, e)) \in Nat /\ Cardinality(calls) \in Nat
    BY <1>1, <2>5, OpenType, Sizes
  <2>9. Cardinality(hits) \in Nat
    <3>1. Len(found) \in Nat /\ hits \in SUBSET (1..Len(found))
      <4> HIDE DEF found
      <4> QED
        BY <2>3
    <3> HIDE DEF found, hits
    <3> QED
      BY <3>1, Sizes
  <2>10. Cardinality(hits) * loop_threshold <= Cardinality(calls)
    <3> DEFINE ht == Cardinality(hits) * loop_threshold
               o == Cardinality(Open(event_log, e))
               c == Cardinality(calls)
    <3>1. ht + o <= c
      BY <2>5, <2>6, <2>7 DEF ReportsPaid
    <3>2. ht \in Nat
      BY <2>9, DetectiveAssumption
    <3>3. o \in Nat /\ c \in Nat
      BY <2>8
    <3> HIDE DEF ht, o, c
    <3>4. ht <= c
      BY <3>1, <3>2, <3>3
    <3> QED
      BY <3>4 DEF ht, c
  <2> QED
    BY <2>2, <2>10
<1>2. SweepInv => OneLoopOneIncident
  BY <1>1 DEF SweepInv, SweepTypes
<1> QED
  BY <1>2, SweepAlways, PTL

-----------------------------------------------------------------------------
(* No burst gets past the windows                                           *)

Slides == {"LOOP_STUTTER", "FAN_OUT", "BUDGET_VELOCITY"}

LEMMA WindowType == \A trigger \in Slides : Window[trigger] \in Nat \ {0}
BY DetectiveAssumption DEF Slides, Window

(* The counted events of a key from i to j, and whether that is too many.    *)
SameKey(trigger, events, k, i, j) ==
  {x \in i..j : Counts(trigger, events[x]) /\ Key(trigger, events[x]) = k}

Crowded(trigger, events, S) == Full(trigger, Measure(trigger, events, S))

Matches(trigger, inc, k) ==
  IF trigger = "LOOP_STUTTER" THEN inc.actor = k[1] /\ inc.tool = k[2] ELSE inc.accountable_root = k

Dated(trigger, events, k, from, to) ==
  \E inc \in Range(Pass(trigger, events).out) :
    Matches(trigger, inc, k) /\ from <= inc.now /\ inc.now <= to

(* Of the events of a key in the window that ends with the log, either an    *)
(* incident is dated within it, or all are in the bucket and are not enough. *)
Watching(trigger, events) ==
  \A k \in Keys(trigger), i \in DOMAIN events :
    LET n == Len(events)
        S == SameKey(trigger, events, k, i, n)
    IN  events[n].ts - events[i].ts < Window[trigger] =>
          \/ Dated(trigger, events, k, events[i].ts, events[n].ts)
          \/ S \subseteq Bucket(trigger, events, k) /\ ~Crowded(trigger, events, S)

BurstsSeen(trigger, events) ==
  \A i, j \in DOMAIN events :
    LET k == Key(trigger, events[j])
    IN  /\ i <= j /\ events[j].ts - events[i].ts < Window[trigger]
        /\ Crowded(trigger, events, SameKey(trigger, events, k, i, j))
        => Dated(trigger, events, k, events[i].ts, events[j].ts)

LEMMA CrowdGrows ==
  ASSUME NEW trigger \in Slides, NEW events \in Logs, NEW S \in SUBSET (1..Len(events)),
         NEW T \in SUBSET S, Crowded(trigger, events, T)
  PROVE  Crowded(trigger, events, S)
<1> DEFINE n == Len(events)
<1>1. n \in Nat /\ DOMAIN events = 1..n /\ T \in SUBSET (1..n)
  BY DEF Logs
<1>2. CASE trigger = "BUDGET_VELOCITY"
  <2> DEFINE f == Costs(events)
  <2>1. Sums(f, S) /\ Sums(f, T) /\ Spend(events, S) = SumOver(f, S) /\ Spend(events, T) = SumOver(f, T)
    BY <1>1, SpendIsSum
  <2> HIDE DEF f, n
  <2>2. SumOver(f, T) <= SumOver(f, S) /\ SumOver(f, T) \in Nat /\ SumOver(f, S) \in Nat
    BY <2>1, SumMonotone, SumType
  <2>3. Spend(events, T) > max_spend
    BY <1>2 DEF Crowded, Full, Measure
  <2>4. Spend(events, S) > max_spend
    BY <2>1, <2>2, <2>3, DetectiveAssumption
  <2> QED
    BY <1>2, <2>4 DEF Crowded, Full, Measure
<1>3. CASE trigger # "BUDGET_VELOCITY"
  <2>1. IsFiniteSet(S) /\ Cardinality(S) \in Nat /\ Cardinality(T) \in Nat
    <3> HIDE DEF n
    <3> QED
      BY <1>1, Sizes DEF n
  <2>2. Cardinality(T) <= Cardinality(S)
    BY <2>1, FS_Subset
  <2>3. CASE trigger = "LOOP_STUTTER"
    <3>1. Cardinality(T) >= loop_threshold
      BY <2>3 DEF Crowded, Full, LoopFull, Measure
    <3>2. Cardinality(S) >= loop_threshold
      BY <2>1, <2>2, <3>1, DetectiveAssumption
    <3> QED
      BY <2>3, <3>2 DEF Crowded, Full, LoopFull, Measure
  <2>4. CASE trigger = "FAN_OUT"
    <3>1. Cardinality(T) >= fan_threshold
      BY <2>4 DEF Crowded, Full, Measure
    <3>2. Cardinality(S) >= fan_threshold
      BY <2>1, <2>2, <3>1, DetectiveAssumption
    <3> QED
      BY <2>4, <3>2 DEF Crowded, Full, Measure
  <2> QED
    BY <1>3, <2>3, <2>4 DEF Slides
<1> QED
  BY <1>2, <1>3

LEMMA NobodyCrowds ==
  ASSUME NEW trigger \in Slides, NEW events \in Logs
  PROVE  ~Crowded(trigger, events, {})
<1>1. Cardinality({}) = 0
  BY FS_EmptySet
<1>2. Spend(events, {}) = 0
  <2>1. Spend(events, {}) = SumOver(Costs(events), {})
    BY SpendIsSum
  <2> QED
    BY <2>1, SumEmpty
<1>3. CASE trigger = "BUDGET_VELOCITY"
  BY <1>2, <1>3, DetectiveAssumption DEF Crowded, Full, Measure
<1>4. CASE trigger = "LOOP_STUTTER"
  BY <1>1, <1>4, DetectiveAssumption DEF Crowded, Full, LoopFull, Measure
<1>5. CASE trigger = "FAN_OUT"
  BY <1>1, <1>5, DetectiveAssumption DEF Crowded, Full, Measure
<1> QED
  BY <1>3, <1>4, <1>5 DEF Slides

LEMMA DatedGrows ==
  ASSUME NEW trigger \in Slides, NEW events \in Logs, NEW e \in Events, NEW k,
         NEW from \in Int, NEW to \in Int, NEW later \in Int, to <= later,
         Dated(trigger, events, k, from, to)
  PROVE  Dated(trigger, Append(events, e), k, from, later)
<1> DEFINE out == Pass(trigger, events).out
           more == Pass(trigger, Append(events, e)).out
<1>1. PICK inc \in Range(out) : Matches(trigger, inc, k) /\ from <= inc.now /\ inc.now <= to
  BY DEF Dated
<1>2. trigger \in Range(Triggers) /\ \A l : Scan(trigger, l) = Pass(trigger, l).out
  BY TriggersType DEF Slides, Scan
<1>3. Range(out) \subseteq Range(more)
  BY <1>2, ScanGrows
<1>4. inc.now \in Int
  <2>1. Scan(trigger, events) \in Seq(Incidents(trigger))
    BY <1>2, PassType DEF Accs
  <2>2. inc \in Incidents(trigger)
    BY <1>2, <2>1 DEF Range
  <2> QED
    BY <2>2, EventType DEF Incidents, Incident
<1>5. inc.now <= later
  BY <1>1, <1>4
<1> QED
  BY <1>1, <1>3, <1>5 DEF Dated

LEMMA SameKeyPrefix ==
  ASSUME NEW trigger, NEW events \in Logs, NEW e \in Events, NEW k,
         NEW i \in 1..(Len(events) + 1), NEW j \in 1..Len(events)
  PROVE  SameKey(trigger, Append(events, e), k, i, j) = SameKey(trigger, events, k, i, j)
<1>1. \A x \in i..j : x \in 1..Len(events)
  BY LogAppend
<1>2. \A x \in 1..Len(events) : Append(events, e)[x] = events[x]
  BY LogAppend
<1> QED
  BY <1>1, <1>2 DEF SameKey

LEMMA SameKeyAppend ==
  ASSUME NEW trigger, NEW events \in Logs, NEW e \in Events, NEW k,
         NEW i \in 1..(Len(events) + 1)
  PROVE  SameKey(trigger, Append(events, e), k, i, Len(events) + 1) =
           SameKey(trigger, events, k, i, Len(events)) \cup
             (IF Counts(trigger, e) /\ Key(trigger, e) = k THEN {Len(events) + 1} ELSE {})
<1> DEFINE n == Len(events)
           m == n + 1
           longer == Append(events, e)
<1>1. n \in Nat /\ longer[m] = e /\ \A x \in 1..n : longer[x] = events[x]
  BY LogAppend
<1>2. i..m = (i..n) \cup {m} /\ m \notin i..n
  BY <1>1
<1>3. \A x \in i..n : x \in 1..n
  BY <1>1
<1> HIDE DEF n, m, longer
<1>4. SameKey(trigger, longer, k, i, m) =
        SameKey(trigger, events, k, i, n) \cup (IF Counts(trigger, e) /\ Key(trigger, e) = k THEN {m} ELSE {})
  BY <1>1, <1>2, <1>3 DEF SameKey
<1> QED
  BY <1>4 DEF n, m, longer

LEMMA FiringIsDated ==
  ASSUME NEW trigger \in Slides, NEW events \in Logs, NEW e \in Events, NEW from \in Int, from <= e.ts,
         Counts(trigger, e), FiresAt(trigger, events, e)
  PROVE  Dated(trigger, Append(events, e), Key(trigger, e), from, e.ts)
<1> DEFINE out == Pass(trigger, events).out
           x == Incident(trigger, e, MeasureAt(trigger, events, e))
           more == Pass(trigger, Append(events, e)).out
<1>1. more = Append(out, x)
  BY OutAppend
<1>2. out \in Seq(Incidents(trigger))
  BY PassType DEF Accs
<1>3. x \in Range(more)
  <2>1. Len(out) + 1 \in DOMAIN Append(out, x) /\ Append(out, x)[Len(out) + 1] = x
    <3> HIDE DEF out, x
    <3> QED
      BY <1>2
  <2> HIDE DEF out, x, more
  <2> QED
    BY <1>1, <2>1 DEF Range
<1>4. Matches(trigger, x, Key(trigger, e)) /\ x.now = e.ts
  BY DEF Matches, Incident, Key, LoopKey
<1>5. e.ts \in Int
  BY EventType
<1> HIDE DEF x
<1> QED
  BY <1>3, <1>4, <1>5 DEF Dated

LEMMA SortedPrefix ==
  ASSUME NEW events \in Logs, NEW e \in Events, Sorted(Append(events, e))
  PROVE  Sorted(events) /\ \A i \in 1..Len(events) : events[i].ts \in Int /\ events[i].ts <= e.ts
<1> DEFINE n == Len(events)
           longer == Append(events, e)
<1>1. /\ n \in Nat /\ longer[n + 1] = e /\ \A x \in 1..n : longer[x] = events[x] /\ events[x] \in Events
      /\ DOMAIN events = 1..n /\ DOMAIN longer = 1..(n + 1)
  BY LogAppend DEF Logs
<1>2. \A i, j \in 1..(n + 1) : i <= j => longer[i].ts <= longer[j].ts
  BY <1>1 DEF Sorted
<1> HIDE DEF n, longer
<1>3. \A x \in 1..n : x \in 1..(n + 1) /\ n + 1 \in 1..(n + 1) /\ x <= n + 1
  BY <1>1
<1>4. Sorted(events)
  BY <1>1, <1>2, <1>3 DEF Sorted
<1>5. \A i \in 1..n : events[i].ts \in Int /\ events[i].ts <= e.ts
  BY <1>1, <1>2, <1>3, EventType
<1> QED
  BY <1>4, <1>5 DEF n

(* The three ways in which the events of a key in the window meet one more   *)
(* event of the log: it fires, it joins them, or it is not one of them.      *)
LEMMA WatchJoined ==
  ASSUME NEW trigger \in Slides, NEW events \in Logs, NEW e \in Events, Sorted(Append(events, e)),
         NEW k, k = Key(trigger, e), Counts(trigger, e), ~FiresAt(trigger, events, e),
         NEW i \in 1..(Len(events) + 1),
         e.ts - Append(events, e)[i].ts < Window[trigger],
         SameKey(trigger, events, k, i, Len(events)) \subseteq Bucket(trigger, events, k)
  PROVE  LET S == SameKey(trigger, Append(events, e), k, i, Len(events) + 1)
         IN  S \subseteq Bucket(trigger, Append(events, e), k) /\ ~Crowded(trigger, Append(events, e), S)
<1> DEFINE n == Len(events)
           m == n + 1
           longer == Append(events, e)
           S == SameKey(trigger, longer, k, i, m)
           R == RecentAt(trigger, events, e)
<1>1. /\ n \in Nat /\ longer \in Logs /\ longer[m] = e /\ \A x \in 1..n : longer[x] = events[x]
      /\ DOMAIN longer = 1..m /\ Len(longer) = m
  BY LogAppend
<1>2. S = SameKey(trigger, events, k, i, n) \cup {m}
  BY SameKeyAppend
<1>3. \A x \in 1..m : longer[x].ts \in Int
  BY <1>1, EventType DEF Logs
<1>4. S \subseteq R
  <2> SUFFICES ASSUME NEW x \in S PROVE x \in R
    OBVIOUS
  <2>1. x \in Bucket(trigger, events, k) \cup {m}
    BY <1>2
  <2>2. x \in i..m
    BY <1>1 DEF SameKey
  <2>3. longer[i].ts <= longer[x].ts
    <3>1. i \in 1..m /\ x \in 1..m /\ i <= x
      BY <1>1, <2>2
    <3> QED
      BY <1>1, <3>1 DEF Sorted
  <2>4. e.ts - longer[x].ts < Window[trigger]
    <3>1. x \in 1..m /\ i \in 1..m
      BY <1>1, <2>2
    <3>2. longer[x].ts \in Int /\ longer[i].ts \in Int /\ e.ts \in Int /\ Window[trigger] \in Int
      BY <1>3, <3>1, EventType, WindowType
    <3> HIDE DEF longer, n
    <3>3. e.ts - longer[i].ts < Window[trigger]
      BY DEF longer
    <3> QED
      BY <2>3, <3>2, <3>3
  <2> HIDE DEF S, longer, n
  <2> QED
    BY <2>1, <2>4 DEF RecentAt, Recent, Bucket, longer, n
<1>5. R \in SUBSET (1..m)
  BY RecentIn
<1>6. ~Crowded(trigger, longer, R)
  BY DEF FiresAt, MeasureAt, Crowded
<1>7. ~Crowded(trigger, longer, S)
  <2>1. S \in SUBSET R /\ R \in SUBSET (1..Len(longer))
    BY <1>1, <1>4, <1>5
  <2> HIDE DEF S, R, longer
  <2> QED
    BY <1>1, <1>6, <2>1, CrowdGrows
<1>8. Bucket(trigger, longer, k) = R
  <2>1. k \in Keys(trigger)
    BY KeyType
  <2> QED
    BY <2>1, BucketAppend
<1> QED
  BY <1>4, <1>7, <1>8

LEMMA WatchAppend ==
  ASSUME NEW trigger \in Slides, NEW events \in Logs, NEW e \in Events, Sorted(Append(events, e)),
         Watching(trigger, events)
  PROVE  Watching(trigger, Append(events, e))
<1> DEFINE n == Len(events)
           m == n + 1
           longer == Append(events, e)
<1>1. /\ n \in Nat /\ longer \in Logs /\ longer[m] = e /\ \A x \in 1..n : longer[x] = events[x]
      /\ DOMAIN longer = 1..m /\ DOMAIN events = 1..n /\ Len(longer) = m
  BY LogAppend
<1>2. \A x \in 1..n : events[x].ts \in Int /\ events[x].ts <= e.ts
  BY SortedPrefix
<1>3. e.ts \in Int /\ Window[trigger] \in Nat \ {0}
  BY EventType, WindowType
<1> SUFFICES ASSUME NEW k \in Keys(trigger), NEW i \in 1..m,
                    e.ts - longer[i].ts < Window[trigger]
             PROVE  \/ Dated(trigger, longer, k, longer[i].ts, e.ts)
                    \/ /\ SameKey(trigger, longer, k, i, m) \subseteq Bucket(trigger, longer, k)
                       /\ ~Crowded(trigger, longer, SameKey(trigger, longer, k, i, m))
  BY <1>1 DEF Watching
<1> DEFINE S == SameKey(trigger, events, k, i, n)
<1>4. i = m => S = {}
  <2>1. m..n = {}
    BY <1>1
  <2>2. S \subseteq i..n
    BY DEF SameKey
  <2> QED
    BY <2>1, <2>2
<1>5. longer[i].ts \in Int /\ longer[i].ts <= e.ts
  <2>1. CASE i = m
    BY <1>1, <1>3, <2>1
  <2>2. CASE i # m
    <3>1. i \in 1..n
      BY <1>1, <2>2
    <3> QED
      BY <1>1, <1>2, <3>1
  <2> QED
    BY <2>1, <2>2
<1>6. \/ Dated(trigger, longer, k, longer[i].ts, e.ts)
      \/ S \subseteq Bucket(trigger, events, k) /\ ~Crowded(trigger, events, S)
  <2>1. CASE i = m
    <3>1. ~Crowded(trigger, events, {})
      BY NobodyCrowds
    <3> QED
      BY <1>4, <2>1, <3>1
  <2>2. CASE i # m
    <3>1. i \in 1..n /\ n \in 1..n
      BY <1>1, <2>2
    <3>2. longer[i] = events[i]
      BY <1>1, <3>1
    <3>3. events[n].ts - events[i].ts < Window[trigger]
      <4>1. events[n].ts \in Int /\ events[i].ts \in Int /\ events[n].ts <= e.ts
        BY <1>2, <3>1
      <4>2. e.ts - events[i].ts < Window[trigger]
        BY <3>2
      <4> HIDE DEF n, longer
      <4> QED
        BY <1>3, <4>1, <4>2
    <3>4. \/ Dated(trigger, events, k, events[i].ts, events[n].ts)
          \/ S \subseteq Bucket(trigger, events, k) /\ ~Crowded(trigger, events, S)
      BY <1>1, <3>1, <3>3 DEF Watching
    <3>5. ASSUME Dated(trigger, events, k, events[i].ts, events[n].ts)
          PROVE  Dated(trigger, longer, k, longer[i].ts, e.ts)
      <4>1. events[n].ts \in Int /\ events[i].ts \in Int /\ events[n].ts <= e.ts
        BY <1>2, <3>1
      <4>2. Dated(trigger, longer, k, events[i].ts, e.ts)
        <5> HIDE DEF n
        <5> QED
          BY <1>3, <3>5, <4>1, DatedGrows
      <4> QED
        BY <3>2, <4>2
    <3> QED
      BY <3>4, <3>5
  <2> QED
    BY <2>1, <2>2
<1>7. CASE Counts(trigger, e) /\ k = Key(trigger, e) /\ FiresAt(trigger, events, e)
  <2> HIDE DEF n
  <2> QED
    BY <1>5, <1>7, FiringIsDated
<1>8. CASE Counts(trigger, e) /\ k = Key(trigger, e) /\ ~FiresAt(trigger, events, e)
  <2>1. CASE S \subseteq Bucket(trigger, events, k)
    BY <1>8, <2>1, WatchJoined
  <2> QED
    BY <1>6, <2>1
<1>9. CASE ~Counts(trigger, e) \/ k # Key(trigger, e)
  <2>1. SameKey(trigger, longer, k, i, m) = S
    <3>1. SameKey(trigger, longer, k, i, m) =
            S \cup (IF Counts(trigger, e) /\ Key(trigger, e) = k THEN {m} ELSE {})
      BY SameKeyAppend
    <3> HIDE DEF S, longer, m
    <3> QED
      BY <1>9, <3>1
  <2>2. Bucket(trigger, longer, k) = Bucket(trigger, events, k)
    BY <1>9, BucketAppend
  <2>3. S \subseteq Bucket(trigger, events, k) => (Crowded(trigger, longer, S) <=> Crowded(trigger, events, S))
    <3> SUFFICES ASSUME S \subseteq Bucket(trigger, events, k)
                 PROVE  Measure(trigger, longer, S) = Measure(trigger, events, S)
      BY DEF Crowded
    <3>1. S \in SUBSET (1..Len(events))
      BY BucketType
    <3> HIDE DEF S, n
    <3> QED
      BY <3>1, MeasureSame
  <2> QED
    BY <1>6, <2>1, <2>2, <2>3
<1> QED
  BY <1>7, <1>8, <1>9

LEMMA BurstsAppend ==
  ASSUME NEW trigger \in Slides, NEW events \in Logs, NEW e \in Events, Sorted(Append(events, e)),
         Watching(trigger, Append(events, e)), BurstsSeen(trigger, events)
  PROVE  BurstsSeen(trigger, Append(events, e))
<1> DEFINE n == Len(events)
           m == n + 1
           longer == Append(events, e)
<1>1. /\ n \in Nat /\ longer \in Logs /\ longer[m] = e /\ \A x \in 1..n : longer[x] = events[x]
      /\ DOMAIN longer = 1..m /\ DOMAIN events = 1..n /\ Len(longer) = m
  BY LogAppend
<1>2. \A x \in 1..n : events[x].ts \in Int
  BY SortedPrefix
<1> SUFFICES ASSUME NEW i \in 1..m, NEW j \in 1..m, i <= j,
                    longer[j].ts - longer[i].ts < Window[trigger],
                    Crowded(trigger, longer, SameKey(trigger, longer, Key(trigger, longer[j]), i, j))
             PROVE  Dated(trigger, longer, Key(trigger, longer[j]), longer[i].ts, longer[j].ts)
  BY <1>1 DEF BurstsSeen
<1> DEFINE k == Key(trigger, longer[j])
<1>3. CASE j = m
  <2>1. k \in Keys(trigger) /\ longer[j] = e
    BY <1>1, <1>3, KeyType
  <2> HIDE DEF k
  <2>2. \/ Dated(trigger, longer, k, longer[i].ts, e.ts)
        \/ ~Crowded(trigger, longer, SameKey(trigger, longer, k, i, m))
    <3> HIDE DEF longer
    <3> QED
      BY <1>1, <1>3, <2>1 DEF Watching, longer
  <2> QED
    BY <1>3, <2>1, <2>2 DEF k
<1>4. CASE j # m
  <2>1. j \in 1..n /\ i \in 1..n /\ longer[i] = events[i] /\ longer[j] = events[j]
    BY <1>1, <1>4
  <2> DEFINE S == SameKey(trigger, events, k, i, j)
  <2>2. SameKey(trigger, longer, k, i, j) = S /\ S \subseteq i..j
    <3>1. j \in 1..Len(events) /\ i \in 1..(Len(events) + 1)
      BY <2>1
    <3>2. SameKey(trigger, Append(events, e), k, i, j) = SameKey(trigger, events, k, i, j)
      <4> HIDE DEF k, longer, n, m, S
      <4> QED
        BY <3>1, SameKeyPrefix
    <3>3. S \subseteq i..j
      BY DEF SameKey
    <3> QED
      BY <3>2, <3>3
  <2>3. S \in SUBSET (1..Len(events))
    BY <1>1, <2>1, <2>2
  <2>4. Crowded(trigger, events, S)
    <3>1. Measure(trigger, longer, S) = Measure(trigger, events, S)
      <4> HIDE DEF S, n, m, k
      <4> QED
        BY <2>3, MeasureSame
    <3>2. Crowded(trigger, longer, S)
      BY <2>2
    <3> HIDE DEF S, longer, k
    <3> QED
      BY <3>1, <3>2 DEF Crowded
  <2>5. Dated(trigger, events, k, events[i].ts, events[j].ts)
    BY <1>1, <2>1, <2>4 DEF BurstsSeen
  <2>6. Dated(trigger, longer, k, events[i].ts, events[j].ts)
    <3>1. events[i].ts \in Int /\ events[j].ts \in Int /\ events[j].ts <= events[j].ts
      BY <1>2, <2>1
    <3> HIDE DEF k, n, m
    <3> QED
      BY <2>5, <3>1, DatedGrows
  <2> QED
    BY <2>1, <2>6
<1> QED
  BY <1>3, <1>4

LEMMA BurstsAlwaysSeen ==
  ASSUME NEW trigger \in Slides, NEW events \in Logs, Sorted(events)
  PROVE  BurstsSeen(trigger, events)
<1> DEFINE G == {l \in Logs : Sorted(l) => Watching(trigger, l) /\ BurstsSeen(trigger, l)}
<1>1. <<>> \in G
  <2>1. <<>> \in Logs /\ DOMAIN <<>> = {}
    BY DEF Logs
  <2>2. Watching(trigger, <<>>) /\ BurstsSeen(trigger, <<>>)
    BY <2>1 DEF Watching, BurstsSeen
  <2> QED
    BY <2>1, <2>2
<1>2. ASSUME NEW l \in Logs, NEW e \in Events, l \in G PROVE Append(l, e) \in G
  <2>1. Append(l, e) \in Logs
    BY LogAppend
  <2>2. ASSUME Sorted(Append(l, e))
        PROVE  Watching(trigger, Append(l, e)) /\ BurstsSeen(trigger, Append(l, e))
    <3>1. Watching(trigger, l) /\ BurstsSeen(trigger, l)
      BY <1>2, <2>2, SortedPrefix
    <3>2. Watching(trigger, Append(l, e))
      BY <2>2, <3>1, WatchAppend
    <3> QED
      BY <2>2, <3>1, <3>2, BurstsAppend
  <2> QED
    BY <2>1, <2>2
<1>3. events \in G
  <2> HIDE DEF G
  <2> QED
    BY <1>1, <1>2, LogInduction
<1> QED
  BY <1>3

LEMMA DatedCovers ==
  ASSUME NEW trigger \in Slides, NEW events \in Logs, NEW e1, NEW e2,
         Dated(trigger, events, Key(trigger, e2), e1.ts, e2.ts)
  PROVE  Covered(events, trigger, e1, e2)
<1>1. Scan(trigger, events) = Pass(trigger, events).out
  BY DEF Slides, Scan
<1>2. \A inc : Matches(trigger, inc, Key(trigger, e2)) =>
                 IF trigger = "LOOP_STUTTER" THEN inc.actor = e2.actor /\ inc.tool = e2.tool
                 ELSE inc.accountable_root = e2.accountable_root
  BY DEF Matches, Key, LoopKey
<1> QED
  BY <1>1, <1>2 DEF Dated, Covered

(* In a log in the order of time no burst gets past the windows: wherever    *)
(* too many of the events that a trigger counts fall within its window, one  *)
(* of its incidents is dated within it, whatever fired and was reset before. *)
THEOREM BurstsFound == Spec => []BurstsAreFound
<1>1. ASSUME event_log \in Logs PROVE BurstsAreFound
  <2> DEFINE same(trigger, i, j) ==
               {x \in i..j : /\ Counts(trigger, event_log[x])
                             /\ Key(trigger, event_log[x]) = Key(trigger, event_log[j])}
             near(trigger, i, j) == event_log[j].ts - event_log[i].ts < Window[trigger]
  <2>1. ASSUME Sorted(event_log), NEW i \in DOMAIN event_log, NEW j \in DOMAIN event_log, i <= j,
               NEW trigger \in Slides, near(trigger, i, j), Crowded(trigger, event_log, same(trigger, i, j))
        PROVE  Covered(event_log, trigger, event_log[i], event_log[j])
    <3>1. same(trigger, i, j) = SameKey(trigger, event_log, Key(trigger, event_log[j]), i, j)
      BY DEF SameKey
    <3>2. Dated(trigger, event_log, Key(trigger, event_log[j]), event_log[i].ts, event_log[j].ts)
      <4>1. BurstsSeen(trigger, event_log)
        BY <1>1, <2>1, BurstsAlwaysSeen
      <4> HIDE DEF same
      <4> QED
        BY <2>1, <3>1, <4>1 DEF BurstsSeen
    <3> QED
      BY <1>1, <3>2, DatedCovers
  <2>2. /\ \A i, j : near("LOOP_STUTTER", i, j) <=> event_log[j].ts - event_log[i].ts < loop_window
        /\ \A i, j : near("FAN_OUT", i, j) <=> event_log[j].ts - event_log[i].ts < fan_window
        /\ \A i, j : near("BUDGET_VELOCITY", i, j) <=> event_log[j].ts - event_log[i].ts < spend_window
    BY DEF Window
  <2>3. /\ \A S : Crowded("LOOP_STUTTER", event_log, S) <=> Cardinality(S) >= loop_threshold
        /\ \A S : Crowded("FAN_OUT", event_log, S) <=> Cardinality(S) >= fan_threshold
        /\ \A S : Crowded("BUDGET_VELOCITY", event_log, S) <=> Spend(event_log, S) > max_spend
    BY DEF Crowded, Full, LoopFull, Measure
  <2>4. "LOOP_STUTTER" \in Slides /\ "FAN_OUT" \in Slides /\ "BUDGET_VELOCITY" \in Slides
    BY DEF Slides
  <2>5. ASSUME Sorted(event_log), NEW i \in DOMAIN event_log, NEW j \in DOMAIN event_log, i <= j
        PROVE  /\ /\ event_log[j].ts - event_log[i].ts < loop_window
                  /\ Cardinality(same("LOOP_STUTTER", i, j)) >= loop_threshold
                  => Covered(event_log, "LOOP_STUTTER", event_log[i], event_log[j])
               /\ /\ event_log[j].ts - event_log[i].ts < fan_window
                  /\ Cardinality(same("FAN_OUT", i, j)) >= fan_threshold
                  => Covered(event_log, "FAN_OUT", event_log[i], event_log[j])
               /\ /\ event_log[j].ts - event_log[i].ts < spend_window
                  /\ Spend(event_log, same("BUDGET_VELOCITY", i, j)) > max_spend
                  => Covered(event_log, "BUDGET_VELOCITY", event_log[i], event_log[j])
    <3> HIDE DEF same, near
    <3> QED
      BY <2>1, <2>2, <2>3, <2>4, <2>5
  <2> QED
    BY <2>5 DEF BurstsAreFound
<1>2. SweepInv => BurstsAreFound
  BY <1>1 DEF SweepInv, SweepTypes
<1> QED
  BY <1>2, SweepAlways, PTL
=============================================================================
