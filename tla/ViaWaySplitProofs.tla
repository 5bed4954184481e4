------------------------- MODULE ViaWaySplitProofs -------------------------
(***************************************************************************)
(* The node splits invent no drive, lose none that the chains allow, and   *)
(* bind what they catch: proved for every road graph, every list of        *)
(* restriction chains and walks of every length.                           *)
(***************************************************************************)
EXTENDS ViaWaySplit, Integers, FiniteSetTheorems, WellFoundedInduction, SequenceTheorems, TLAPS

\* Induction over numbers, said of a set: the provers take no predicate.  A
\* descending chain of numbers is one of finite sets.
LEMMA InductionOnNat ==
  ASSUME NEW S, 0 \in S, \A k \in Nat : k \in S => k + 1 \in S
  PROVE  Nat \subseteq S
<1> DEFINE T == {1 .. n : n \in Nat \ S}
<1>1. SUFFICES ASSUME T # {} PROVE FALSE
  OBVIOUS
<1>2. T \subseteq FiniteSubsetsOf(Nat)
  <2>1. \A n \in Nat : 1 .. n \subseteq Nat /\ IsFiniteSet(1 .. n)
    BY FS_Interval
  <2> QED BY <2>1 DEF FiniteSubsetsOf
<1>3. PICK t \in T : \A u \in T : <<u, t>> \notin StrictSubsetOrdering(Nat)
  <2> HIDE DEF T
  <2> QED BY <1>1, <1>2, WFMin, FS_StrictSubsetOrderingWellFounded
<1>4. PICK k \in Nat \ S : t = 1 .. k
  OBVIOUS
<1> PICK j : j = k - 1
  OBVIOUS
<1>5. j \in Nat \ S
  BY <1>4
<1>6. 1 .. j \in T /\ 1 .. j \in SUBSET Nat /\ 1 .. k \in SUBSET Nat
  BY <1>5
<1>7. 1 .. j \subseteq 1 .. k /\ k \in 1 .. k /\ k \notin 1 .. j
  BY <1>4, <1>5
<1>8. <<1 .. j, t>> \in StrictSubsetOrdering(Nat)
  BY <1>4, <1>6, <1>7 DEF StrictSubsetOrdering
<1> QED BY <1>3, <1>6, <1>8

\* The chain at hand, the nodes before it is split, and the copies it needs.
Way  == Head(todo).arcs
Size == NumArcs + Len(splitMap)
New  == Len(Way) - 2

\* ArcOf, of any split map.
ArcIn(map, n) == IF n < NumArcs THEN n ELSE map[n - NumArcs + 1]

\* The shape of a split: the new copies follow the nodes there were, in the
\* order of the chain's intermediates.
LEMMA SplitShape ==
  ASSUME TypeOK, Split
  PROVE  /\ New \in Nat \ {0} /\ Size \in Nat /\ Len(splitMap) \in Nat
         /\ \A i \in 1 .. New + 2 : Way[i] \in Arcs
         /\ \A i \in 1 .. New + 1 : Way[i + 1] \in adj[Way[i]]
         /\ splitMap' \in Seq(Arcs) /\ Len(splitMap') = Len(splitMap) + New
         /\ \A i \in 1 .. Len(splitMap) : splitMap'[i] = splitMap[i]
         /\ \A k \in 1 .. New : splitMap'[Len(splitMap) + k] = Way[k + 1]
<1>1. todo # <<>> /\ Len(Way) >= 3 /\ Connected(Way)
  BY DEF Split, Way
<1>2. Head(todo) \in Chain
  BY <1>1, HeadTailProperties DEF TypeOK
<1>3. Way \in Seq(Arcs)
  BY <1>2 DEF Chain, Way
<1>4. /\ Len(Way) \in Nat /\ New \in Nat \ {0}
      /\ \A i \in 1 .. New + 2 : Way[i] \in Arcs
  BY <1>1, <1>3, LenProperties, ElementOfSeq DEF New
<1>5. Len(splitMap) \in Nat /\ Size \in Nat
  BY LenProperties, NumArcsAssumption DEF TypeOK, Size
<1>6. \A i \in 1 .. New + 1 : Way[i + 1] \in adj[Way[i]]
  BY <1>1, <1>4 DEF Connected, New
<1> DEFINE t == [k \in 1 .. New |-> Way[k + 1]]
<1>7. t \in Seq(Arcs) /\ Len(t) = New /\ \A k \in 1 .. New : t[k] = Way[k + 1]
  BY <1>4
<1>8. splitMap' = splitMap \o t
  BY DEF Split, New, Way
<1> HIDE DEF t
<1>9. splitMap \in Seq(Arcs)
  BY DEF TypeOK
<1>10. /\ splitMap' \in Seq(Arcs) /\ Len(splitMap') = Len(splitMap) + New
       /\ \A i \in 1 .. Len(splitMap) + New :
            splitMap'[i] = IF i <= Len(splitMap) THEN splitMap[i] ELSE t[i - Len(splitMap)]
  BY <1>7, <1>8, <1>9, ConcatProperties
<1>11. ASSUME NEW k \in 1 .. New PROVE splitMap'[Len(splitMap) + k] = Way[k + 1]
  <2>1. /\ Len(splitMap) + k \in 1 .. Len(splitMap) + New
        /\ ~(Len(splitMap) + k <= Len(splitMap)) /\ Len(splitMap) + k - Len(splitMap) = k
    BY <1>4, <1>5
  <2>2. splitMap'[Len(splitMap) + k] = t[k]
    BY <1>10, <2>1
  <2> QED
    BY <1>7, <2>2
<1>12. \A i \in 1 .. Len(splitMap) : splitMap'[i] = splitMap[i]
  BY <1>4, <1>5, <1>10
<1> QED
  BY <1>4, <1>5, <1>6, <1>10, <1>11, <1>12

\* What Split makes of each node.
LEMMA SplitEdges ==
  ASSUME TypeOK, Split
  PROVE  /\ DOMAIN adj = 0 .. Size - 1 /\ DOMAIN adj' = 0 .. Size + New - 1
         /\ DOMAIN adj \subseteq DOMAIN adj'
         /\ \A n \in 0 .. Size + New - 1 :
              adj'[n] =
                IF n >= Size
                THEN CopyTargets(Head(todo), n - Size + 1, [k \in 1 .. New |-> Size + k - 1])
                ELSE IF n = Way[1] THEN Redirect(adj[n], Way[2], Size) ELSE adj[n]
<1> DEFINE copy == [k \in 1 .. New |-> Size + k - 1]
<1>1. copy[1] = Size
  BY SplitShape
<1>2. adj' = [n \in 0 .. Size + New - 1 |->
                IF n >= Size
                THEN CopyTargets(Head(todo), n - Size + 1, copy)
                ELSE IF n = Way[1] THEN Redirect(adj[n], Way[2], copy[1]) ELSE adj[n]]
  BY DEF Split, Size, New, Way
<1> HIDE DEF copy
<1>3. /\ DOMAIN adj' = 0 .. Size + New - 1
      /\ \A n \in 0 .. Size + New - 1 :
           adj'[n] = IF n >= Size THEN CopyTargets(Head(todo), n - Size + 1, copy)
                     ELSE IF n = Way[1] THEN Redirect(adj[n], Way[2], Size) ELSE adj[n]
  BY <1>1, <1>2
<1>4. DOMAIN adj = 0 .. Size - 1
  BY SplitShape, NumArcsAssumption DEF TypeOK, Size
<1>5. DOMAIN adj \subseteq DOMAIN adj'
  BY <1>3, <1>4, SplitShape
<1> QED
  BY <1>3, <1>4, <1>5 DEF copy

\* Nodes keep the arc they stand for; the k-th copy stands for the chain's
\* k-th intermediate.
LEMMA SplitArcs ==
  ASSUME TypeOK, Split
  PROVE  /\ \A n \in Arcs : ArcIn(splitMap, n) = n /\ ArcIn(splitMap', n) = n
         /\ \A n \in 0 .. Size - 1 : ArcIn(splitMap', n) = ArcIn(splitMap, n)
         /\ \A k \in 1 .. New : ArcIn(splitMap', Size + k - 1) = Way[k + 1]
<1>1. \A n \in Arcs : ArcIn(splitMap, n) = n /\ ArcIn(splitMap', n) = n
  BY NumArcsAssumption DEF Arcs, ArcIn
<1>2. ASSUME NEW n \in 0 .. Size - 1
      PROVE  ArcIn(splitMap', n) = ArcIn(splitMap, n)
  BY SplitShape, NumArcsAssumption DEF ArcIn, Size
<1>3. ASSUME NEW k \in 1 .. New
      PROVE  ArcIn(splitMap', Size + k - 1) = Way[k + 1]
  <2>1. PICK j \in Nat : j = Size + k - 1
    BY SplitShape
  <2>2. ~(j < NumArcs) /\ j - NumArcs + 1 = Len(splitMap) + k
    BY <2>1, SplitShape, NumArcsAssumption DEF Size
  <2>3. splitMap'[Len(splitMap) + k] = Way[k + 1]
    BY SplitShape
  <2>4. ArcIn(splitMap', j) = splitMap'[j - NumArcs + 1]
    BY <2>2 DEF ArcIn
  <2> QED
    BY <2>1, <2>2, <2>3, <2>4
<1> QED
  BY <1>1, <1>2, <1>3

\* A node of the split graph leads where an arc's node led, except that one
\* arc may have given way to a copy of it: Redirect, at most.
LEMMA SplitRedirects ==
  ASSUME TypeOK, Split
  PROVE  \A n \in DOMAIN adj' : \E b \in DOMAIN adj, c \in DOMAIN adj' :
           /\ ArcIn(splitMap', n) = ArcIn(splitMap, b)
           /\ ArcIn(splitMap', c) \in Arcs
           /\ adj'[n] \subseteq Redirect(adj[b], ArcIn(splitMap', c), c)
<1> DEFINE copy == [k \in 1 .. New |-> Size + k - 1]
<1>1. /\ New \in Nat \ {0} /\ Size \in Nat
      /\ \A i \in 1 .. New + 2 : Way[i] \in Arcs
      /\ \A i \in 1 .. New + 1 : Way[i + 1] \in adj[Way[i]]
      /\ Way[1] \in Arcs /\ Way[2] \in Arcs
  <2>1. New \in Nat \ {0} /\ \A i \in 1 .. New + 2 : Way[i] \in Arcs
    BY SplitShape
  <2>2. Way[1] \in Arcs /\ Way[2] \in Arcs
    BY <2>1
  <2> QED
    BY <2>2, SplitShape
<1>2. /\ \A n \in Arcs : ArcIn(splitMap, n) = n /\ ArcIn(splitMap', n) = n
      /\ \A n \in 0 .. Size - 1 : ArcIn(splitMap', n) = ArcIn(splitMap, n)
      /\ \A k \in 1 .. New : ArcIn(splitMap', Size + k - 1) = Way[k + 1]
  BY SplitArcs
<1>3. DOMAIN adj = 0 .. Size - 1 /\ Arcs \subseteq 0 .. Size - 1
  BY SplitEdges, SplitShape, NumArcsAssumption DEF Arcs, Size
<1>4. /\ DOMAIN adj' = 0 .. Size + New - 1
      /\ \A n \in 0 .. Size + New - 1 :
           adj'[n] = IF n >= Size THEN CopyTargets(Head(todo), n - Size + 1, copy)
                     ELSE IF n = Way[1] THEN Redirect(adj[n], Way[2], Size) ELSE adj[n]
  BY SplitEdges
<1>5. \A k \in 1 .. New : copy[k] = Size + k - 1
  OBVIOUS
<1> HIDE DEF copy
<1>6. \A s, a : s \subseteq Redirect(s, a, a)
  BY DEF Redirect
<1> SUFFICES ASSUME NEW n \in 0 .. Size + New - 1
             PROVE  \E b \in DOMAIN adj, c \in DOMAIN adj' :
                      /\ ArcIn(splitMap', n) = ArcIn(splitMap, b)
                      /\ ArcIn(splitMap', c) \in Arcs
                      /\ adj'[n] \subseteq Redirect(adj[b], ArcIn(splitMap', c), c)
  BY <1>4
<1>7. CASE n >= Size
  <2> DEFINE k      == n - Size + 1
             b      == Way[k + 1]
             onward == Way[k + 2]
  <2>1. /\ k \in 1 .. New /\ n = Size + k - 1
        /\ b \in Arcs /\ onward \in Arcs /\ onward \in adj[b]
        /\ b \in DOMAIN adj /\ onward \in DOMAIN adj'
    <3>1. k \in 1 .. New /\ n = Size + k - 1
      BY <1>1, <1>7
    <3>2. /\ k + 1 \in 1 .. New + 1 /\ k + 1 \in 1 .. New + 2 /\ k + 2 \in 1 .. New + 2
          /\ (k + 1) + 1 = k + 2
      BY <1>1, <3>1
    <3>3. b \in Arcs /\ onward \in Arcs
      BY <1>1, <3>2
    <3>4. Way[(k + 1) + 1] \in adj[Way[k + 1]]
      BY <1>1, <3>2
    <3>5. Arcs \subseteq DOMAIN adj /\ Arcs \subseteq DOMAIN adj'
      BY <1>1, <1>3, <1>4
    <3> QED
      BY <3>1, <3>2, <3>3, <3>4, <3>5
  <2>2. /\ ArcIn(splitMap', n) = ArcIn(splitMap, b)
        /\ ArcIn(splitMap', onward) = onward
    BY <1>2, <2>1
  <2>3. adj'[n] = CopyTargets(Head(todo), k, copy)
    BY <1>4, <1>7
  <2> HIDE DEF k
  <2>4. CASE k < New
    <3>1. copy[k + 1] = Size + k /\ Size + k \in DOMAIN adj'
      BY <1>1, <1>4, <1>5, <2>1, <2>4
    <3>2. ArcIn(splitMap', Size + k) = onward
      <4>1. k + 1 \in 1 .. New /\ Size + (k + 1) - 1 = Size + k /\ (k + 1) + 1 = k + 2
        BY <1>1, <2>1, <2>4
      <4> QED
        BY <1>2, <4>1
    <3>3. adj'[n] \subseteq Redirect(adj[b], onward, Size + k)
      BY <2>1, <2>3, <2>4, <3>1 DEF CopyTargets, Redirect, New, Way
    <3> QED
      BY <2>1, <2>2, <3>1, <3>2, <3>3
  <2>5. CASE ~(k < New)
    <3>1. adj'[n] \subseteq adj[b]
      BY <2>1, <2>3, <2>5 DEF CopyTargets, New, Way
    <3>2. adj'[n] \subseteq Redirect(adj[b], onward, onward)
      BY <1>6, <3>1
    <3> QED
      BY <2>1, <2>2, <3>2
  <2> QED
    BY <2>4, <2>5
<1>8. CASE n < Size /\ n = Way[1]
  <2>1. Size \in DOMAIN adj' /\ ArcIn(splitMap', Size) = Way[2] /\ Way[2] \in Arcs
    <3>1. 1 \in 1 .. New /\ Size + 1 - 1 = Size /\ 1 + 1 = 2 /\ 2 \in 1 .. New + 2
      BY <1>1
    <3>2. ArcIn(splitMap', Size + 1 - 1) = Way[1 + 1]
      BY <1>2, <3>1
    <3> QED
      BY <1>1, <1>4, <3>1, <3>2
  <2>2. n \in DOMAIN adj /\ ArcIn(splitMap', n) = ArcIn(splitMap, n)
    BY <1>1, <1>2, <1>3, <1>8
  <2>3. adj'[n] = Redirect(adj[n], Way[2], Size)
    BY <1>1, <1>4, <1>8
  <2> QED
    BY <2>1, <2>2, <2>3
<1>9. CASE n < Size /\ n # Way[1]
  <2>1. n \in DOMAIN adj /\ ArcIn(splitMap', n) = ArcIn(splitMap, n) /\ adj'[n] = adj[n]
    BY <1>1, <1>2, <1>3, <1>4, <1>9
  <2>2. /\ Way[1] \in DOMAIN adj' /\ ArcIn(splitMap', Way[1]) = Way[1]
        /\ Way[1] \in Arcs
    <3>1. Arcs \subseteq DOMAIN adj'
      BY <1>1, <1>3, <1>4
    <3> QED
      BY <1>1, <1>2, <3>1
  <2>3. adj'[n] \subseteq Redirect(adj[n], Way[1], Way[1])
    BY <1>6, <2>1
  <2> QED
    BY <2>1, <2>2, <2>3
<1> QED
  BY <1>1, <1>7, <1>8, <1>9

-----------------------------------------------------------------------------
\* Every variable keeps its type, and copies are numbered without a gap.
LEMMA TypeStep == ASSUME TypeOK, [Next]_vars PROVE TypeOK'
<1> USE DEF TypeOK
<1>1. ASSUME NEW outcome \in {"short", "broken", "split"},
             todo # <<>>, Len(splitMap') \in Nat, Handle(outcome)
      PROVE  /\ todo' \in Seq(Chain)
             /\ done' \in Seq([chain : Chain, outcome : {"short", "broken", "split"},
                               copies : Nat])
  <2>1. Head(todo) \in Chain /\ Tail(todo) \in Seq(Chain)
    BY <1>1, HeadTailProperties
  <2> QED
    BY <1>1, <2>1, AppendProperties DEF Handle
<1>2. CASE SkipShort \/ SkipBroken
  <2>1. UNCHANGED <<adj, splitMap>> /\ todo # <<>>
    BY <1>2 DEF SkipShort, SkipBroken
  <2>2. Len(splitMap') \in Nat
    BY <2>1, LenProperties
  <2>3. Handle("short") \/ Handle("broken")
    BY <1>2 DEF SkipShort, SkipBroken
  <2> QED
    BY <1>1, <2>1, <2>2, <2>3
<1>3. CASE Split
  <2>1. todo # <<>> /\ Handle("split")
    BY <1>3 DEF Split
  <2>2. /\ splitMap' \in Seq(Arcs) /\ Len(splitMap') = Len(splitMap) + New
        /\ New \in Nat /\ Size \in Nat /\ Len(splitMap) \in Nat
        /\ Size = NumArcs + Len(splitMap)
    BY <1>3, SplitShape DEF Size
  <2>3. DOMAIN adj' = 0 .. Size + New - 1
    BY <1>3, SplitEdges
  <2>4. Len(splitMap') \in Nat /\ DOMAIN adj' = 0 .. NumArcs + Len(splitMap') - 1
    BY <2>2, <2>3, NumArcsAssumption
  <2>5. DOMAIN adj \subseteq DOMAIN adj'
    BY <1>3, SplitEdges
  <2>6. ASSUME NEW n \in DOMAIN adj' PROVE adj'[n] \subseteq DOMAIN adj'
    <3>1. PICK b \in DOMAIN adj, c \in DOMAIN adj' :
            adj'[n] \subseteq Redirect(adj[b], ArcIn(splitMap', c), c)
      BY <1>3, SplitRedirects
    <3>2. adj[b] \subseteq DOMAIN adj'
      BY <2>5
    <3> QED
      BY <3>1, <3>2 DEF Redirect
  <2> QED
    BY <1>1, <2>1, <2>2, <2>4, <2>6
<1>4. CASE UNCHANGED vars
  BY <1>4 DEF vars
<1> QED
  BY <1>2, <1>3, <1>4 DEF Next, Finished

\* EdgesAreTurns, with the split map made explicit.
EdgesIn(map, edges) ==
  \A n \in DOMAIN edges :
    /\ \A m \in edges[n] : ArcIn(map, m) \in Turns[ArcIn(map, n)]
    /\ \A m, o \in edges[n] : ArcIn(map, m) = ArcIn(map, o) => m = o

LEMMA EdgesStep ==
  ASSUME TypeOK, Split, EdgesIn(splitMap, adj)
  PROVE  EdgesIn(splitMap', adj')
<1> SUFFICES ASSUME NEW n \in DOMAIN adj'
             PROVE  /\ \A m \in adj'[n] :
                         ArcIn(splitMap', m) \in Turns[ArcIn(splitMap', n)]
                    /\ \A m, o \in adj'[n] :
                         ArcIn(splitMap', m) = ArcIn(splitMap', o) => m = o
  BY DEF EdgesIn
<1>1. PICK b \in DOMAIN adj, c \in DOMAIN adj' :
        /\ ArcIn(splitMap', n) = ArcIn(splitMap, b)
        /\ ArcIn(splitMap', c) \in Arcs
        /\ adj'[n] \subseteq Redirect(adj[b], ArcIn(splitMap', c), c)
  BY SplitRedirects
\* Whatever was redirected stands for the arc it stood for before.
<1>2. ASSUME NEW m \in adj'[n]
      PROVE  \E t \in adj[b] : /\ m = (IF t = ArcIn(splitMap', c) THEN c ELSE t)
                               /\ ArcIn(splitMap', m) = ArcIn(splitMap, t)
  <2>1. PICK t \in adj[b] : m = (IF t = ArcIn(splitMap', c) THEN c ELSE t)
    BY <1>1 DEF Redirect
  <2>2. t \in 0 .. Size - 1
    <3>1. DOMAIN adj = 0 .. Size - 1 /\ adj[b] \subseteq DOMAIN adj
      BY <1>1, SplitEdges DEF TypeOK
    <3> QED
      BY <2>1, <3>1
  <2>3. ArcIn(splitMap', t) = ArcIn(splitMap, t)
    BY <2>2, SplitArcs
  <2>4. CASE t = ArcIn(splitMap', c)
    <3>1. ArcIn(splitMap, t) = t
      BY <1>1, <2>4, SplitArcs
    <3> QED
      BY <2>1, <2>4, <3>1
  <2>5. CASE t # ArcIn(splitMap', c)
    BY <2>1, <2>3, <2>5
  <2> QED
    BY <2>4, <2>5
<1>3. /\ \A t \in adj[b] : ArcIn(splitMap, t) \in Turns[ArcIn(splitMap, b)]
      /\ \A t, u \in adj[b] : ArcIn(splitMap, t) = ArcIn(splitMap, u) => t = u
  BY DEF EdgesIn
<1> QED
  BY <1>1, <1>2, <1>3

LEMMA InitIsTyped == Init => TypeOK /\ EdgesIn(splitMap, adj)
<1> SUFFICES ASSUME Init PROVE TypeOK /\ EdgesIn(splitMap, adj)
  OBVIOUS
<1>1. <<>> \in Seq(Arcs) /\ Len(<<>>) = 0
  BY EmptySeq
<1>2. /\ <<>> \in Seq([chain : Chain, outcome : {"short", "broken", "split"},
                       copies : Nat])
  BY EmptySeq
<1>3. adj = Turns /\ splitMap = <<>> /\ done = <<>> /\ todo \in Seq(Chain)
  BY ChainsAssumption DEF Init
<1>4. DOMAIN adj = Arcs /\ \A n \in Arcs : adj[n] \subseteq Arcs
  BY <1>3, TurnsAssumption
<1>5. Arcs = 0 .. NumArcs + Len(splitMap) - 1
  BY <1>1, <1>3, NumArcsAssumption DEF Arcs
<1>6. TypeOK
  BY <1>1, <1>2, <1>3, <1>4, <1>5 DEF TypeOK
<1>7. \A n \in Arcs : ArcIn(splitMap, n) = n
  BY NumArcsAssumption DEF Arcs, ArcIn
<1> QED
  BY <1>3, <1>4, <1>6, <1>7 DEF EdgesIn

LEMMA NextIsTyped == TypeOK /\ EdgesIn(splitMap, adj) /\ [Next]_vars => TypeOK' /\ EdgesIn(splitMap, adj)'
<1> SUFFICES ASSUME TypeOK, EdgesIn(splitMap, adj), [Next]_vars PROVE TypeOK' /\ EdgesIn(splitMap, adj)'
  OBVIOUS
<1>1. CASE Split
  BY <1>1, TypeStep, EdgesStep
<1>2. CASE UNCHANGED <<adj, splitMap>>
  BY <1>2, TypeStep DEF EdgesIn, ArcIn
<1> QED
  BY <1>1, <1>2 DEF Next, SkipShort, SkipBroken, Finished, vars

\* No drive is invented: read back through the split map as a query's path is
\* (original_arc_id_of_lg_node), every edge apply_node_splits leaves is a turn
\* of the base line graph, and no node has two edges for one turn.
THEOREM NoTurnInvented == Spec => [](TypeOK /\ EdgesAreTurns)
<1>1. TypeOK /\ EdgesIn(splitMap, adj) => TypeOK /\ EdgesAreTurns
  BY DEF EdgesIn, ArcIn, EdgesAreTurns, ArcOf
<1> QED
  BY <1>1, InitIsTyped, NextIsTyped, PTL DEF Spec

-----------------------------------------------------------------------------
\* Nothing is lost but what the chains ask for, and a chain binds: what the
\* copies of a chain are for.  An applied chain, with its copies base,
\* base + 1, ... one for each of its intermediates.
Origin(e) ==
  [way |-> e.chain.arcs, must |-> e.chain.mandatory, last |-> Len(e.chain.arcs) - 2,
   base |-> NumArcs + e.copies - (Len(e.chain.arcs) - 2)]
Origins == {Origin(done[d]) : d \in Applied}

Placed(o, map) ==
  /\ o.last \in Nat \ {0} /\ o.last + 2 = Len(o.way) /\ \A i \in 1 .. o.last + 2 : o.way[i] \in Arcs
  /\ o.base \in Nat /\ NumArcs <= o.base /\ o.base + o.last <= NumArcs + Len(map)
  /\ \A k \in 1 .. o.last : ArcIn(map, o.base + k - 1) = o.way[k + 1]

\* The k-th copy stands for a vehicle that came along the chain: the chain's
\* own turn leads to the next copy, or nowhere after the last one; all other
\* turns are there, or none if the chain is mandatory.
LeadsOn(o, map, edges) ==
  \A k \in 1 .. o.last :
    /\ k < o.last => \A m \in edges[o.base + k - 1] : ArcIn(map, m) = o.way[k + 2] => m = o.base + k
    /\ ~o.must /\ k = o.last => \A m \in edges[o.base + k - 1] : ArcIn(map, m) # o.way[k + 2]
    /\ o.must => /\ \A m \in edges[o.base + k - 1] : ArcIn(map, m) = o.way[k + 2]
                 /\ \E m \in edges[o.base + k - 1] : ArcIn(map, m) = o.way[k + 2]
    /\ ~o.must => \A b \in Turns[o.way[k + 1]] :
                    b # o.way[k + 2] \/ k < o.last => \E m \in edges[o.base + k - 1] : ArcIn(map, m) = b

\* and a copy is reached along the chain only.
EnteredAlong(o, map, edges) ==
  \A n \in DOMAIN edges : \A k \in 1 .. o.last :
    o.base + k - 1 \in edges[n] => IF k = 1 THEN ArcIn(map, n) = o.way[1] ELSE n = o.base + k - 2

\* Who takes the first turn of a chain comes to its first copy, unless the
\* chain's first arc had been copied before.
Caught(o, map, edges) ==
  (\A i \in 1 .. o.base + o.last - NumArcs : map[i] # o.way[1]) =>
    \A n \in DOMAIN edges : ArcIn(map, n) = o.way[1] =>
      \A m \in edges[n] : ArcIn(map, m) = o.way[2] => m = o.base

\* Arcs keep all their turns, and every copy is some chain's.
TurnsKept(map, edges) == \A a \in Arcs : \A b \in Turns[a] : \E m \in edges[a] : ArcIn(map, m) = b
Owned(os, map) ==
  \A n \in NumArcs .. NumArcs + Len(map) - 1 : \E o \in os : \E k \in 1 .. o.last : n = o.base + k - 1

\* Every edge leads to a node.
Leads(edges) == \A n \in DOMAIN edges : edges[n] \subseteq DOMAIN edges

\* What one split does to a split map and edges.
Splits(map, edges, o, map2, edges2) ==
  /\ o.last \in Nat \ {0} /\ o.last + 2 = Len(o.way) /\ Len(map) \in Nat /\ Len(map2) = Len(map) + o.last
  /\ o.base = NumArcs + Len(map) /\ o.base \in Nat
  /\ DOMAIN edges = 0 .. o.base - 1 /\ DOMAIN edges2 = 0 .. o.base + o.last - 1
  /\ \A i \in 1 .. Len(map) : map2[i] = map[i]
  /\ \A i \in 1 .. o.last + 2 : o.way[i] \in Arcs
  /\ \A i \in 1 .. o.last + 1 : o.way[i + 1] \in edges[o.way[i]]
  /\ \A n \in 0 .. o.base - 1 : /\ ArcIn(map2, n) = ArcIn(map, n)
                                /\ edges2[n] = IF n = o.way[1] THEN Redirect(edges[n], o.way[2], o.base) ELSE edges[n]
  /\ \A k \in 1 .. o.last :
       /\ ArcIn(map2, o.base + k - 1) = o.way[k + 1]
       /\ edges2[o.base + k - 1] =
            IF o.must THEN {IF k < o.last THEN o.base + k ELSE o.way[k + 2]}
            ELSE IF k < o.last THEN Redirect(edges[o.way[k + 1]], o.way[k + 2], o.base + k)
            ELSE edges[o.way[k + 1]] \ {o.way[k + 2]}

Fresh == [way |-> Way, must |-> Head(todo).mandatory, last |-> New, base |-> Size]

LEMMA SplitSplits ==
  ASSUME TypeOK, Split
  PROVE  Splits(splitMap, adj, Fresh, splitMap', adj')
<1> DEFINE copy == [k \in 1 .. New |-> Size + k - 1]
<1>1. /\ New \in Nat \ {0} /\ Size \in Nat /\ Len(splitMap) \in Nat /\ Size = NumArcs + Len(splitMap)
      /\ \A i \in 1 .. New + 2 : Way[i] \in Arcs
      /\ \A i \in 1 .. New + 1 : Way[i + 1] \in adj[Way[i]]
      /\ Len(splitMap') = Len(splitMap) + New
      /\ \A i \in 1 .. Len(splitMap) : splitMap'[i] = splitMap[i]
  BY SplitShape DEF Size
<1>2. New + 2 = Len(Way)
  <2>1. Len(Way) \in Nat
    <3>1. todo # <<>>
      BY DEF Split
    <3>2. Head(todo) \in Chain
      BY <3>1, HeadTailProperties DEF TypeOK
    <3> QED BY <3>2, LenProperties DEF Chain, Way
  <2> QED BY <2>1 DEF New
<1>3. /\ \A n \in 0 .. Size - 1 : ArcIn(splitMap', n) = ArcIn(splitMap, n)
      /\ \A k \in 1 .. New : ArcIn(splitMap', Size + k - 1) = Way[k + 1]
  BY SplitArcs
<1>4. /\ DOMAIN adj = 0 .. Size - 1 /\ DOMAIN adj' = 0 .. Size + New - 1
      /\ \A n \in 0 .. Size + New - 1 :
           adj'[n] = IF n >= Size THEN CopyTargets(Head(todo), n - Size + 1, copy)
                     ELSE IF n = Way[1] THEN Redirect(adj[n], Way[2], Size) ELSE adj[n]
  BY SplitEdges
<1>5. \A k \in 1 .. New : k < New => copy[k + 1] = Size + k
  BY <1>1
<1> HIDE DEF copy
<1>6. \A n \in 0 .. Size - 1 : adj'[n] = IF n = Way[1] THEN Redirect(adj[n], Way[2], Size) ELSE adj[n]
  BY <1>1, <1>4
<1>7. ASSUME NEW k \in 1 .. New
      PROVE  adj'[Size + k - 1] =
               IF Head(todo).mandatory THEN {IF k < New THEN Size + k ELSE Way[k + 2]}
               ELSE IF k < New THEN Redirect(adj[Way[k + 1]], Way[k + 2], Size + k)
               ELSE adj[Way[k + 1]] \ {Way[k + 2]}
  <2> PICK n : n = Size + k - 1
    OBVIOUS
  <2>1. n \in 0 .. Size + New - 1 /\ n >= Size /\ n - Size + 1 = k
    BY <1>1
  <2>2. adj'[n] = CopyTargets(Head(todo), k, copy)
    BY <1>4, <2>1
  <2>3. Way[k + 2] \in adj[Way[k + 1]]
    <3>1. k + 1 \in 1 .. New + 1 /\ (k + 1) + 1 = k + 2
      BY <1>1
    <3> QED BY <1>1, <3>1
  <2>4. k < Len(Head(todo).arcs) - 2 <=> k < New
    BY DEF New, Way
  <2> QED BY <1>5, <2>2, <2>3, <2>4 DEF CopyTargets, Way
<1> QED BY <1>1, <1>2, <1>3, <1>4, <1>6, <1>7 DEF Splits, Fresh

LEMMA OriginsGrow ==
  ASSUME TypeOK, Split
  PROVE  Origins' = Origins \cup {Fresh}
<1> DEFINE e == [chain |-> Head(todo), outcome |-> "split", copies |-> Len(splitMap')]
<1>1. done' = Append(done, e)
  BY DEF Split, Handle
<1>2. Len(done) \in Nat /\ DOMAIN done = 1 .. Len(done)
  BY LenProperties DEF TypeOK
<1>3. /\ DOMAIN done' = 1 .. Len(done) + 1 /\ done'[Len(done) + 1] = e
      /\ \A d \in 1 .. Len(done) : done'[d] = done[d]
  <2> HIDE DEF e
  <2> QED BY <1>1, <1>2, AppendProperties DEF TypeOK
<1>4. Applied' = Applied \cup {Len(done) + 1}
  BY <1>2, <1>3 DEF Applied
<1>5. Origin(e) = Fresh
  <2>1. Len(splitMap') = Len(splitMap) + New /\ Len(splitMap) \in Nat /\ New \in Nat
    BY SplitShape
  <2>2. NumArcs + Len(splitMap') - New = Size
    BY <2>1, NumArcsAssumption DEF Size
  <2>3. e.chain.arcs = Way /\ Len(e.chain.arcs) - 2 = New /\ e.copies = Len(splitMap') /\ e.chain.mandatory = Head(todo).mandatory
    BY DEF Way, New
  <2> HIDE DEF e
  <2> QED BY <2>2, <2>3 DEF Origin, Fresh
<1> HIDE DEF e
<1>6. \A d \in Applied : d \in 1 .. Len(done) /\ Origin(done'[d]) = Origin(done[d])
  BY <1>2, <1>3 DEF Applied
<1> QED BY <1>3, <1>4, <1>5, <1>6 DEF Origins

LEMMA SplitSizes ==
  ASSUME NEW map, NEW edges, NEW o, NEW map2, NEW edges2, Splits(map, edges, o, map2, edges2)
  PROVE  /\ o.last \in Nat /\ o.last >= 1 /\ o.last + 2 = Len(o.way)
         /\ Len(map) \in Nat /\ Len(map2) = Len(map) + o.last
         /\ o.base \in Nat /\ o.base = NumArcs + Len(map) /\ NumArcs <= o.base
<1>1. /\ o.last \in Nat \ {0} /\ o.last + 2 = Len(o.way) /\ Len(map) \in Nat /\ Len(map2) = Len(map) + o.last
      /\ o.base = NumArcs + Len(map) /\ o.base \in Nat
  BY DEF Splits
<1> QED BY <1>1, NumArcsAssumption

\* A turn of the chain was an edge between arcs, and the only one for it.
LEMMA ChainTurns ==
  ASSUME NEW map, NEW edges, NEW o, NEW map2, NEW edges2,
         Splits(map, edges, o, map2, edges2), EdgesIn(map, edges), Leads(edges)
  PROVE  /\ \A a \in Arcs : a \in 0 .. o.base - 1 /\ ArcIn(map, a) = a /\ ArcIn(map2, a) = a
         /\ \A n \in 0 .. o.base - 1 : \A m \in edges[n] : m \in 0 .. o.base - 1 /\ ArcIn(map2, m) = ArcIn(map, m)
         /\ \A i \in 1 .. o.last + 1 : /\ o.way[i] \in Arcs /\ o.way[i + 1] \in Arcs /\ o.way[i + 1] \in edges[o.way[i]]
                                       /\ \A m \in edges[o.way[i]] : ArcIn(map, m) = o.way[i + 1] => m = o.way[i + 1]
         /\ \A k \in 1 .. o.last : /\ k + 1 \in 1 .. o.last + 1 /\ (k + 1) + 1 = k + 2
                                   /\ k < o.last => /\ k + 1 \in 1 .. o.last /\ o.base + (k + 1) - 1 = o.base + k
                                                    /\ ArcIn(map2, o.base + k) = o.way[k + 2]
<1>1. \A a \in Arcs : a \in 0 .. o.base - 1 /\ ArcIn(map, a) = a /\ ArcIn(map2, a) = a
  BY SplitSizes, NumArcsAssumption DEF Arcs, ArcIn
<1>2. \A n \in 0 .. o.base - 1 : \A m \in edges[n] : m \in 0 .. o.base - 1 /\ ArcIn(map2, m) = ArcIn(map, m)
  BY DEF Splits, Leads
<1>3. ASSUME NEW i \in 1 .. o.last + 1
      PROVE  /\ o.way[i] \in Arcs /\ o.way[i + 1] \in Arcs /\ o.way[i + 1] \in edges[o.way[i]]
             /\ \A m \in edges[o.way[i]] : ArcIn(map, m) = o.way[i + 1] => m = o.way[i + 1]
  <2>1. i \in 1 .. o.last + 2 /\ i + 1 \in 1 .. o.last + 2
    BY SplitSizes
  <2>2. o.way[i] \in Arcs /\ o.way[i + 1] \in Arcs /\ o.way[i + 1] \in edges[o.way[i]]
    BY <2>1 DEF Splits
  <2>3. o.way[i] \in DOMAIN edges /\ ArcIn(map, o.way[i + 1]) = o.way[i + 1]
    BY <1>1, <2>2 DEF Splits
  <2> QED BY <2>2, <2>3 DEF EdgesIn
<1>4. ASSUME NEW k \in 1 .. o.last
      PROVE  /\ k + 1 \in 1 .. o.last + 1 /\ (k + 1) + 1 = k + 2
             /\ k < o.last => /\ k + 1 \in 1 .. o.last /\ o.base + (k + 1) - 1 = o.base + k
                              /\ ArcIn(map2, o.base + k) = o.way[k + 2]
  <2>1. o.last \in Nat /\ o.base \in Nat
    BY DEF Splits
  <2>2. /\ k + 1 \in 1 .. o.last + 1 /\ (k + 1) + 1 = k + 2
        /\ k < o.last => k + 1 \in 1 .. o.last /\ o.base + (k + 1) - 1 = o.base + k
    BY <2>1
  <2>3. k < o.last => ArcIn(map2, o.base + (k + 1) - 1) = o.way[(k + 1) + 1]
    BY <2>2 DEF Splits
  <2> QED BY <2>2, <2>3
<1> QED BY <1>1, <1>2, <1>3, <1>4

LEMMA TurnsKeptStep ==
  ASSUME NEW map, NEW edges, NEW o, NEW map2, NEW edges2,
         Splits(map, edges, o, map2, edges2), EdgesIn(map, edges), Leads(edges), TurnsKept(map, edges)
  PROVE  TurnsKept(map2, edges2)
<1> SUFFICES ASSUME NEW a \in Arcs, NEW b \in Turns[a] PROVE \E m \in edges2[a] : ArcIn(map2, m) = b
  BY DEF TurnsKept
<1>1. PICK m \in edges[a] : ArcIn(map, m) = b
  BY DEF TurnsKept
<1>2. a \in 0 .. o.base - 1 /\ ArcIn(map2, m) = b
  BY <1>1, ChainTurns
<1>3. edges2[a] = IF a = o.way[1] THEN Redirect(edges[a], o.way[2], o.base) ELSE edges[a]
  BY <1>2 DEF Splits
<1>4. CASE a = o.way[1] /\ m = o.way[2]
  <2>1. o.last \in Nat \ {0} /\ o.base \in Nat
    BY DEF Splits
  <2>2. 1 \in 1 .. o.last /\ o.base + 1 - 1 = o.base
    BY <2>1
  <2>3. ArcIn(map2, o.base + 1 - 1) = o.way[1 + 1]
    BY <2>2 DEF Splits
  <2>4. ArcIn(map2, o.base) = o.way[2]
    BY <2>1, <2>3
  <2>5. o.way[2] = b
    <3>1. 1 \in 1 .. o.last + 1 /\ 1 + 1 = 2
      BY <2>1
    <3>2. o.way[2] \in Arcs
      BY <3>1, ChainTurns
    <3> QED BY <1>1, <1>4, <3>2, ChainTurns
  <2>6. o.base \in edges2[a]
    BY <1>1, <1>3, <1>4 DEF Redirect
  <2> QED BY <2>4, <2>5, <2>6
<1>5. CASE ~(a = o.way[1] /\ m = o.way[2])
  BY <1>1, <1>2, <1>3, <1>5 DEF Redirect
<1> QED BY <1>4, <1>5

LEMMA OwnedStep ==
  ASSUME NEW map, NEW edges, NEW o, NEW map2, NEW edges2,
         Splits(map, edges, o, map2, edges2), NEW os, Owned(os, map)
  PROVE  Owned(os \cup {o}, map2)
<1> SUFFICES ASSUME NEW n \in NumArcs .. NumArcs + Len(map2) - 1
             PROVE  \E p \in os \cup {o} : \E k \in 1 .. p.last : n = p.base + k - 1
  BY DEF Owned
<1>1. o.last \in Nat /\ o.base \in Nat /\ o.base = NumArcs + Len(map) /\ Len(map2) = Len(map) + o.last /\ Len(map) \in Nat
  BY DEF Splits
<1>2. CASE n < o.base
  <2>1. n \in NumArcs .. NumArcs + Len(map) - 1
    BY <1>1, <1>2, NumArcsAssumption
  <2> QED BY <2>1 DEF Owned
<1>3. CASE n >= o.base
  <2> PICK k : k = n - o.base + 1
    OBVIOUS
  <2>1. k \in 1 .. o.last /\ n = o.base + k - 1
    BY <1>1, <1>3, NumArcsAssumption
  <2> QED BY <2>1
<1> QED BY <1>1, <1>2, <1>3, NumArcsAssumption

\* A copy of an earlier chain is a node that was there, and no arc.
LEMMA OlderCopies ==
  ASSUME NEW map, NEW edges, NEW o, NEW map2, NEW edges2, Splits(map, edges, o, map2, edges2),
         NEW p, Placed(p, map)
  PROVE  \A k \in 1 .. p.last : /\ p.base + k - 1 \in 0 .. o.base - 1 /\ p.base + k - 1 \notin Arcs
                                /\ p.base + k - 1 < o.base
<1>1. /\ p.last \in Nat /\ p.base \in Nat /\ NumArcs <= p.base /\ p.base + p.last <= o.base
      /\ o.base \in Nat
  BY DEF Placed, Splits
<1> QED BY <1>1, NumArcsAssumption DEF Arcs

LEMMA PlacedStep ==
  ASSUME NEW map, NEW edges, NEW o, NEW map2, NEW edges2, Splits(map, edges, o, map2, edges2),
         NEW p, Placed(p, map)
  PROVE  Placed(p, map2)
<1>1. /\ p.last \in Nat \ {0} /\ p.last + 2 = Len(p.way) /\ \A i \in 1 .. p.last + 2 : p.way[i] \in Arcs
      /\ p.base \in Nat /\ NumArcs <= p.base /\ p.base + p.last <= NumArcs + Len(map)
      /\ \A k \in 1 .. p.last : ArcIn(map, p.base + k - 1) = p.way[k + 1]
  BY DEF Placed
<1>2. p.base + p.last <= NumArcs + Len(map2)
  BY <1>1, SplitSizes, NumArcsAssumption
<1>3. \A k \in 1 .. p.last : ArcIn(map2, p.base + k - 1) = ArcIn(map, p.base + k - 1)
  <2>1. \A n \in 0 .. o.base - 1 : ArcIn(map2, n) = ArcIn(map, n)
    BY DEF Splits
  <2> QED BY <2>1, OlderCopies
<1> QED BY <1>1, <1>2, <1>3 DEF Placed

LEMMA FreshPlaced ==
  ASSUME NEW map, NEW edges, NEW o, NEW map2, NEW edges2, Splits(map, edges, o, map2, edges2)
  PROVE  Placed(o, map2)
<1>1. /\ \A i \in 1 .. o.last + 2 : o.way[i] \in Arcs
      /\ \A k \in 1 .. o.last : ArcIn(map2, o.base + k - 1) = o.way[k + 1]
  BY DEF Splits
<1>2. /\ o.last \in Nat \ {0} /\ o.last + 2 = Len(o.way) /\ o.base \in Nat /\ NumArcs <= o.base
      /\ o.base + o.last <= NumArcs + Len(map2)
  BY SplitSizes, NumArcsAssumption
<1> QED BY <1>1, <1>2 DEF Placed

LEMMA LeadsOnStep ==
  ASSUME NEW map, NEW edges, NEW o, NEW map2, NEW edges2, Splits(map, edges, o, map2, edges2),
         EdgesIn(map, edges), Leads(edges), NEW p, Placed(p, map), LeadsOn(p, map, edges)
  PROVE  LeadsOn(p, map2, edges2)
<1>1. ASSUME NEW k \in 1 .. p.last
      PROVE  /\ edges2[p.base + k - 1] = edges[p.base + k - 1]
             /\ \A m \in edges[p.base + k - 1] : ArcIn(map2, m) = ArcIn(map, m)
  <2> PICK n : n = p.base + k - 1
    OBVIOUS
  <2>1. n \in 0 .. o.base - 1 /\ n \notin Arcs
    BY OlderCopies
  <2>2. o.way[1] \in Arcs
    <3>1. 1 \in 1 .. o.last + 1
      BY SplitSizes
    <3> QED BY <3>1, ChainTurns
  <2>3. edges2[n] = edges[n]
    BY <2>1, <2>2 DEF Splits
  <2>4. \A m \in edges[n] : ArcIn(map2, m) = ArcIn(map, m)
    BY <2>1, ChainTurns
  <2> QED BY <2>3, <2>4
<1> QED BY <1>1 DEF LeadsOn

LEMMA FreshLeadsOn ==
  ASSUME NEW map, NEW edges, NEW o, NEW map2, NEW edges2, Splits(map, edges, o, map2, edges2),
         EdgesIn(map, edges), Leads(edges), TurnsKept(map, edges)
  PROVE  LeadsOn(o, map2, edges2)
<1> SUFFICES ASSUME NEW k \in 1 .. o.last
             PROVE  /\ k < o.last => \A m \in edges2[o.base + k - 1] : ArcIn(map2, m) = o.way[k + 2] => m = o.base + k
                    /\ ~o.must /\ k = o.last => \A m \in edges2[o.base + k - 1] : ArcIn(map2, m) # o.way[k + 2]
                    /\ o.must => /\ \A m \in edges2[o.base + k - 1] : ArcIn(map2, m) = o.way[k + 2]
                                 /\ \E m \in edges2[o.base + k - 1] : ArcIn(map2, m) = o.way[k + 2]
                    /\ ~o.must => \A b \in Turns[o.way[k + 1]] :
                                    b # o.way[k + 2] \/ k < o.last =>
                                      \E m \in edges2[o.base + k - 1] : ArcIn(map2, m) = b
  BY DEF LeadsOn
<1> PICK n : n = o.base + k - 1
  OBVIOUS
<1> PICK a : a = o.way[k + 1]
  OBVIOUS
<1> PICK t : t = o.way[k + 2]
  OBVIOUS
<1>1. /\ a \in Arcs /\ t \in Arcs /\ t \in edges[a] /\ ArcIn(map2, t) = t /\ ArcIn(map, t) = t
      /\ \A m \in edges[a] : ArcIn(map, m) = t => m = t
      /\ \A m \in edges[a] : ArcIn(map2, m) = ArcIn(map, m)
      /\ k < o.last => ArcIn(map2, o.base + k) = t
  <2>1. k + 1 \in 1 .. o.last + 1 /\ (k + 1) + 1 = k + 2 /\ (k < o.last => ArcIn(map2, o.base + k) = t)
    BY ChainTurns
  <2>2. a \in Arcs /\ t \in Arcs /\ t \in edges[a] /\ \A m \in edges[a] : ArcIn(map, m) = t => m = t
    BY <2>1, ChainTurns
  <2>3. a \in 0 .. o.base - 1 /\ ArcIn(map2, t) = t /\ ArcIn(map, t) = t
    BY <2>2, ChainTurns
  <2>4. \A m \in edges[a] : ArcIn(map2, m) = ArcIn(map, m)
    BY <2>3, ChainTurns
  <2> QED BY <2>1, <2>2, <2>3, <2>4
<1>2. edges2[n] = IF o.must THEN {IF k < o.last THEN o.base + k ELSE t}
                  ELSE IF k < o.last THEN Redirect(edges[a], t, o.base + k) ELSE edges[a] \ {t}
  BY DEF Splits
<1>3. o.last \in Nat
  BY DEF Splits
<1>4. k < o.last => \A m \in edges2[n] : ArcIn(map2, m) = t => m = o.base + k
  BY <1>1, <1>2 DEF Redirect
<1>5. ~o.must /\ k = o.last => \A m \in edges2[n] : ArcIn(map2, m) # t
  BY <1>1, <1>2, <1>3
<1>6. o.must => /\ \A m \in edges2[n] : ArcIn(map2, m) = t
                /\ \E m \in edges2[n] : ArcIn(map2, m) = t
  BY <1>1, <1>2
<1>7. ASSUME ~o.must, NEW b \in Turns[a], b # t \/ k < o.last
      PROVE  \E m \in edges2[n] : ArcIn(map2, m) = b
  <2>1. PICK m \in edges[a] : ArcIn(map, m) = b
    BY <1>1 DEF TurnsKept
  <2>2. ArcIn(map2, m) = b
    BY <1>1, <2>1
  <2>3. CASE m = t
    <3>1. b = t /\ k < o.last /\ o.base + k \in Redirect(edges[a], t, o.base + k)
      BY <1>1, <1>7, <2>1, <2>3 DEF Redirect
    <3> QED BY <1>1, <1>2, <1>7, <3>1
  <2>4. CASE m # t
    <3>1. m \in Redirect(edges[a], t, o.base + k) /\ m \in edges[a] \ {t}
      BY <2>1, <2>4 DEF Redirect
    <3> QED BY <1>2, <1>7, <2>2, <3>1
  <2> QED BY <2>3, <2>4
<1> QED BY <1>4, <1>5, <1>6, <1>7

\* What edges there are after a split: those there were, and those to copies.
LEMMA EdgesAfter ==
  ASSUME NEW map, NEW edges, NEW o, NEW map2, NEW edges2, Splits(map, edges, o, map2, edges2),
         EdgesIn(map, edges), Leads(edges), NEW n \in DOMAIN edges2, NEW m \in edges2[n]
  PROVE  \/ n \in 0 .. o.base - 1 /\ m \in edges[n] /\ ~(n = o.way[1] /\ m = o.way[2])
         \/ n = o.way[1] /\ m = o.base
         \/ \E j \in 1 .. o.last : /\ n = o.base + j - 1
                                   /\ (m = o.base + j /\ j < o.last) \/ m \in edges[o.way[j + 1]]
<1>1. /\ o.last \in Nat /\ o.base \in Nat
      /\ DOMAIN edges2 = 0 .. o.base + o.last - 1
  BY SplitSizes DEF Splits
<1>2. CASE n < o.base
  <2>1. n \in 0 .. o.base - 1
    BY <1>1, <1>2
  <2>2. edges2[n] = IF n = o.way[1] THEN Redirect(edges[n], o.way[2], o.base) ELSE edges[n]
    BY <2>1 DEF Splits
  <2> QED BY <2>1, <2>2 DEF Redirect
<1>3. CASE ~(n < o.base)
  <2> PICK j : j = n - o.base + 1
    OBVIOUS
  <2>1. j \in 1 .. o.last /\ n = o.base + j - 1
    BY <1>1, <1>3
  <2>2. edges2[n] = IF o.must THEN {IF j < o.last THEN o.base + j ELSE o.way[j + 2]}
                    ELSE IF j < o.last THEN Redirect(edges[o.way[j + 1]], o.way[j + 2], o.base + j)
                    ELSE edges[o.way[j + 1]] \ {o.way[j + 2]}
    BY <2>1 DEF Splits
  <2>3. o.way[j + 2] \in edges[o.way[j + 1]]
    <3>1. j + 1 \in 1 .. o.last + 1 /\ (j + 1) + 1 = j + 2
      BY <2>1, ChainTurns
    <3> QED BY <3>1, ChainTurns
  <2>4. (m = o.base + j /\ j < o.last) \/ m \in edges[o.way[j + 1]]
    BY <2>2, <2>3 DEF Redirect
  <2> QED BY <2>1, <2>4
<1> QED BY <1>2, <1>3

LEMMA EnteredStep ==
  ASSUME NEW map, NEW edges, NEW o, NEW map2, NEW edges2, Splits(map, edges, o, map2, edges2),
         EdgesIn(map, edges), Leads(edges), NEW p, Placed(p, map), EnteredAlong(p, map, edges)
  PROVE  EnteredAlong(p, map2, edges2)
<1> SUFFICES ASSUME NEW n \in DOMAIN edges2, NEW k \in 1 .. p.last, p.base + k - 1 \in edges2[n]
             PROVE  IF k = 1 THEN ArcIn(map2, n) = p.way[1] ELSE n = p.base + k - 2
  BY DEF EnteredAlong
<1> PICK m : m = p.base + k - 1
  OBVIOUS
<1>1. m \in 0 .. o.base - 1 /\ m \notin Arcs /\ m < o.base /\ m \in edges2[n]
  BY OlderCopies
<1>2. o.base \in Nat /\ o.last \in Nat /\ DOMAIN edges = 0 .. o.base - 1 /\ p.base \in Nat /\ NumArcs <= p.base
  BY SplitSizes DEF Splits, Placed
<1>3. CASE n \in 0 .. o.base - 1 /\ m \in edges[n]
  <2>1. ArcIn(map2, n) = ArcIn(map, n)
    BY <1>3 DEF Splits
  <2> QED BY <1>2, <1>3, <2>1 DEF EnteredAlong
<1>4. ASSUME NEW j \in 1 .. o.last, n = o.base + j - 1, m \in edges[o.way[j + 1]]
      PROVE  IF k = 1 THEN ArcIn(map2, n) = p.way[1] ELSE n = p.base + k - 2
  <2>1. j + 1 \in 1 .. o.last + 1
    BY ChainTurns
  <2>2. o.way[j + 1] \in Arcs
    BY <2>1, ChainTurns
  <2>3. o.way[j + 1] \in DOMAIN edges /\ ArcIn(map, o.way[j + 1]) = o.way[j + 1]
    BY <1>2, <2>2, ChainTurns
  <2>4. IF k = 1 THEN o.way[j + 1] = p.way[1] ELSE o.way[j + 1] = p.base + k - 2
    BY <1>4, <2>3 DEF EnteredAlong
  <2>5. k # 1 => p.base + k - 2 \notin Arcs
    BY <1>2, NumArcsAssumption DEF Arcs
  <2>6. ArcIn(map2, n) = o.way[j + 1]
    BY <1>4 DEF Splits
  <2> QED BY <2>2, <2>4, <2>5, <2>6
<1>5. CASE m = o.base
  BY <1>1, <1>2, <1>5
<1>6. \A j \in 1 .. o.last : m # o.base + j
  BY <1>1, <1>2
<1> QED BY <1>1, <1>3, <1>4, <1>5, <1>6, EdgesAfter

LEMMA FreshEntered ==
  ASSUME NEW map, NEW edges, NEW o, NEW map2, NEW edges2, Splits(map, edges, o, map2, edges2),
         EdgesIn(map, edges), Leads(edges)
  PROVE  EnteredAlong(o, map2, edges2)
<1> SUFFICES ASSUME NEW n \in DOMAIN edges2, NEW k \in 1 .. o.last, o.base + k - 1 \in edges2[n]
             PROVE  IF k = 1 THEN ArcIn(map2, n) = o.way[1] ELSE n = o.base + k - 2
  BY DEF EnteredAlong
<1> PICK m : m = o.base + k - 1
  OBVIOUS
<1>1. o.base \in Nat /\ o.last \in Nat /\ m \in edges2[n] /\ m >= o.base /\ ~(m \in 0 .. o.base - 1)
  BY SplitSizes
<1>2. \A j \in 1 .. o.last : m \notin edges[o.way[j + 1]]
  <2> SUFFICES ASSUME NEW j \in 1 .. o.last PROVE m \notin edges[o.way[j + 1]]
    OBVIOUS
  <2>1. j + 1 \in 1 .. o.last + 1
    BY ChainTurns
  <2>2. o.way[j + 1] \in 0 .. o.base - 1
    BY <2>1, ChainTurns
  <2> QED BY <1>1, <2>2, ChainTurns
<1>3. n \in 0 .. o.base - 1 => m \notin edges[n]
  BY <1>1, ChainTurns
<1>4. CASE n = o.way[1] /\ m = o.base
  <2>1. k = 1
    BY <1>1, <1>4
  <2>2. 1 \in 1 .. o.last + 1
    BY <1>1
  <2> QED BY <1>4, <2>1, <2>2, ChainTurns
<1>5. ASSUME NEW j \in 1 .. o.last, n = o.base + j - 1, m = o.base + j
      PROVE  IF k = 1 THEN ArcIn(map2, n) = o.way[1] ELSE n = o.base + k - 2
  BY <1>1, <1>5
<1> QED BY <1>1, <1>2, <1>3, <1>4, <1>5, EdgesAfter

LEMMA CaughtStep ==
  ASSUME NEW map, NEW edges, NEW o, NEW map2, NEW edges2, Splits(map, edges, o, map2, edges2),
         EdgesIn(map, edges), Leads(edges), NEW p, Placed(p, map), Caught(p, map, edges)
  PROVE  Caught(p, map2, edges2)
<1> SUFFICES ASSUME \A i \in 1 .. p.base + p.last - NumArcs : map2[i] # p.way[1],
                    NEW n \in DOMAIN edges2, ArcIn(map2, n) = p.way[1],
                    NEW m \in edges2[n], ArcIn(map2, m) = p.way[2]
             PROVE  m = p.base
  BY DEF Caught
<1>1. /\ o.base \in Nat /\ o.last \in Nat /\ o.last >= 1 /\ DOMAIN edges = 0 .. o.base - 1 /\ Len(map) \in Nat
      /\ p.base \in Nat /\ p.last \in Nat /\ NumArcs <= p.base /\ p.base + p.last <= NumArcs + Len(map)
  <2>1. DOMAIN edges = 0 .. o.base - 1
    BY DEF Splits
  <2>2. p.base \in Nat /\ p.last \in Nat /\ NumArcs <= p.base /\ p.base + p.last <= NumArcs + Len(map)
    BY DEF Placed
  <2> QED BY <2>1, <2>2, SplitSizes
<1>2. \A i \in 1 .. p.base + p.last - NumArcs : map[i] # p.way[1]
  <2>1. \A i \in 1 .. p.base + p.last - NumArcs : i \in 1 .. Len(map)
    BY <1>1, NumArcsAssumption
  <2> QED BY <2>1 DEF Splits
<1>3. \A x \in DOMAIN edges : ArcIn(map, x) = p.way[1] => \A y \in edges[x] : ArcIn(map, y) = p.way[2] => y = p.base
  BY <1>2 DEF Caught
\* The arc the chain at hand goes on with is not the one the caught turn is to.
<1>4. ASSUME NEW i \in 1 .. o.last + 1, o.way[i] = p.way[1] PROVE o.way[i + 1] # p.way[2]
  <2>1. o.way[i] \in Arcs /\ o.way[i + 1] \in Arcs /\ o.way[i + 1] \in edges[o.way[i]]
    BY ChainTurns
  <2>2. o.way[i] \in DOMAIN edges /\ ArcIn(map, o.way[i]) = o.way[i] /\ ArcIn(map, o.way[i + 1]) = o.way[i + 1]
    BY <1>1, <2>1, ChainTurns
  <2>3. p.base \notin Arcs
    BY <1>1, NumArcsAssumption DEF Arcs
  <2> QED BY <1>3, <1>4, <2>1, <2>2, <2>3
<1>5. CASE n \in 0 .. o.base - 1 /\ m \in edges[n]
  <2>1. ArcIn(map2, n) = ArcIn(map, n) /\ ArcIn(map2, m) = ArcIn(map, m)
    <3>1. ArcIn(map2, n) = ArcIn(map, n)
      BY <1>5 DEF Splits
    <3> QED BY <1>5, <3>1, ChainTurns
  <2> QED BY <1>1, <1>3, <1>5, <2>1
<1>6. CASE n = o.way[1] /\ m = o.base
  <2>1. 1 \in 1 .. o.last + 1 /\ 1 \in 1 .. o.last /\ 1 + 1 = 2 /\ o.base + 1 - 1 = o.base
    BY <1>1
  <2>2. ArcIn(map2, o.base) = o.way[2]
    <3>1. ArcIn(map2, o.base + 1 - 1) = o.way[1 + 1]
      BY <2>1 DEF Splits
    <3> QED BY <2>1, <3>1
  <2>3. o.way[1] \in Arcs
    BY <2>1, ChainTurns
  <2>4. o.way[1] = p.way[1]
    BY <1>6, <2>3, ChainTurns
  <2> QED BY <1>4, <1>6, <2>1, <2>2, <2>4
<1>7. ASSUME NEW j \in 1 .. o.last, n = o.base + j - 1, (m = o.base + j /\ j < o.last) \/ m \in edges[o.way[j + 1]]
      PROVE  m = p.base
  <2>1. j + 1 \in 1 .. o.last + 1 /\ (j + 1) + 1 = j + 2 /\ (j < o.last => ArcIn(map2, o.base + j) = o.way[j + 2])
    BY ChainTurns
  <2>2. ArcIn(map2, n) = o.way[j + 1]
    BY <1>7 DEF Splits
  <2>3. o.way[j + 2] # p.way[2]
    BY <1>4, <2>1, <2>2
  <2>4. m \in edges[o.way[j + 1]]
    BY <1>7, <2>1, <2>3
  <2>5. o.way[j + 1] \in Arcs
    BY <2>1, ChainTurns
  <2>6. o.way[j + 1] \in 0 .. o.base - 1 /\ ArcIn(map, o.way[j + 1]) = o.way[j + 1]
    BY <2>5, ChainTurns
  <2>7. ArcIn(map2, m) = ArcIn(map, m)
    BY <2>4, <2>6, ChainTurns
  <2> QED BY <1>1, <1>3, <2>2, <2>4, <2>6, <2>7
<1> QED BY <1>5, <1>6, <1>7, EdgesAfter

LEMMA FreshCaught ==
  ASSUME NEW map, NEW edges, NEW o, NEW map2, NEW edges2, Splits(map, edges, o, map2, edges2),
         EdgesIn(map, edges), Leads(edges)
  PROVE  Caught(o, map2, edges2)
<1> SUFFICES ASSUME \A i \in 1 .. o.base + o.last - NumArcs : map2[i] # o.way[1],
                    NEW n \in DOMAIN edges2, ArcIn(map2, n) = o.way[1],
                    NEW m \in edges2[n], ArcIn(map2, m) = o.way[2]
             PROVE  m = o.base
  BY DEF Caught
<1>1. /\ o.base \in Nat /\ o.last \in Nat /\ o.last >= 1 /\ o.base = NumArcs + Len(map) /\ Len(map) \in Nat
      /\ DOMAIN edges2 = 0 .. o.base + o.last - 1
  <2>1. DOMAIN edges2 = 0 .. o.base + o.last - 1
    BY DEF Splits
  <2> QED BY <2>1, SplitSizes
<1>2. n < NumArcs
  <2> SUFFICES ASSUME ~(n < NumArcs) PROVE FALSE
    OBVIOUS
  <2>1. n - NumArcs + 1 \in 1 .. o.base + o.last - NumArcs
    BY <1>1, NumArcsAssumption
  <2> QED BY <2>1 DEF ArcIn
<1>3. n = o.way[1] /\ n \in 0 .. o.base - 1
  BY <1>1, <1>2, NumArcsAssumption DEF ArcIn
<1>4. \A j \in 1 .. o.last : n # o.base + j - 1
  BY <1>1, <1>3
<1>5. CASE m \in edges[n]
  <2>1. 1 \in 1 .. o.last + 1 /\ 1 + 1 = 2
    BY <1>1
  <2>2. ArcIn(map2, m) = ArcIn(map, m)
    BY <1>3, <1>5, ChainTurns
  <2>3. m = o.way[2]
    <3>1. \A y \in edges[o.way[1]] : ArcIn(map, y) = o.way[1 + 1] => y = o.way[1 + 1]
      BY <2>1, ChainTurns
    <3> QED BY <1>3, <1>5, <2>1, <2>2, <3>1
  <2>4. edges2[n] = Redirect(edges[n], o.way[2], o.base)
    BY <1>3 DEF Splits
  <2>5. m # o.way[2] \/ m = o.base
    BY <2>4 DEF Redirect
  <2> QED BY <2>3, <2>5
<1>6. CASE m = o.base
  BY <1>6
<1> QED BY <1>4, <1>5, <1>6, EdgesAfter

SplitsDoAsAsked ==
  /\ TurnsKept(splitMap, adj) /\ Owned(Origins, splitMap)
  /\ \A o \in Origins : /\ Placed(o, splitMap) /\ LeadsOn(o, splitMap, adj)
                        /\ EnteredAlong(o, splitMap, adj) /\ Caught(o, splitMap, adj)
IInv == TypeOK /\ EdgesIn(splitMap, adj) /\ SplitsDoAsAsked

LEMMA SplitStep ==
  ASSUME IInv, Split PROVE SplitsDoAsAsked'
<1>1. TypeOK /\ EdgesIn(splitMap, adj) /\ Splits(splitMap, adj, Fresh, splitMap', adj') /\ Origins' = Origins \cup {Fresh}
  BY SplitSplits, OriginsGrow DEF IInv
<1>2. Leads(adj)
  BY <1>1 DEF TypeOK, Leads
<1>3. TurnsKept(splitMap, adj)' /\ Owned(Origins \cup {Fresh}, splitMap')
  <2>1. TurnsKept(splitMap', adj')
    BY <1>1, <1>2, TurnsKeptStep DEF IInv, SplitsDoAsAsked
  <2> QED BY <1>1, <2>1, OwnedStep DEF IInv, SplitsDoAsAsked, TurnsKept, ArcIn
<1>4. ASSUME NEW o \in Origins
      PROVE  /\ Placed(o, splitMap') /\ LeadsOn(o, splitMap', adj')
             /\ EnteredAlong(o, splitMap', adj') /\ Caught(o, splitMap', adj')
  <2>1. Placed(o, splitMap) /\ LeadsOn(o, splitMap, adj) /\ EnteredAlong(o, splitMap, adj) /\ Caught(o, splitMap, adj)
    BY DEF IInv, SplitsDoAsAsked
  <2> QED BY <1>1, <1>2, <2>1, PlacedStep, LeadsOnStep, EnteredStep, CaughtStep
<1>5. /\ Placed(Fresh, splitMap') /\ LeadsOn(Fresh, splitMap', adj')
      /\ EnteredAlong(Fresh, splitMap', adj') /\ Caught(Fresh, splitMap', adj')
  <2>1. TurnsKept(splitMap, adj)
    BY DEF IInv, SplitsDoAsAsked
  <2> QED BY <1>1, <1>2, <2>1, FreshPlaced, FreshLeadsOn, FreshEntered, FreshCaught
<1>6. Owned(Origins, splitMap)'
  BY <1>1, <1>3 DEF Owned
<1>7. ASSUME NEW o \in Origins'
      PROVE  (Placed(o, splitMap) /\ LeadsOn(o, splitMap, adj) /\ EnteredAlong(o, splitMap, adj) /\ Caught(o, splitMap, adj))'
  <2>1. /\ Placed(o, splitMap') /\ LeadsOn(o, splitMap', adj')
        /\ EnteredAlong(o, splitMap', adj') /\ Caught(o, splitMap', adj')
    BY <1>1, <1>4, <1>5
  <2> QED BY <2>1 DEF Placed, LeadsOn, EnteredAlong, Caught, ArcIn
<1> QED BY <1>3, <1>6, <1>7 DEF SplitsDoAsAsked

LEMMA SeqGrows == ASSUME NEW S, NEW T, NEW s \in Seq(S) PROVE s \in Seq(S \cup T)
<1>1. Len(s) \in Nat /\ s \in [1 .. Len(s) -> S]
  BY LenProperties
<1>2. s \in [1 .. Len(s) -> S \cup T]
  BY <1>1
<1> QED BY <1>1, <1>2, SeqDef

LEMMA SkipStep ==
  ASSUME IInv, UNCHANGED <<adj, splitMap>>,
         UNCHANGED done \/ (\E outcome \in {"short", "broken"} : Handle(outcome))
  PROVE  SplitsDoAsAsked'
<1>1. Origins' = Origins
  <2>1. CASE UNCHANGED done
    BY <2>1 DEF Origins, Applied, Origin
  <2>2. ASSUME NEW outcome \in {"short", "broken"}, Handle(outcome) PROVE Origins' = Origins
    <3> PICK e : e = [chain |-> Head(todo), outcome |-> outcome, copies |-> Len(splitMap')]
      OBVIOUS
    <3>1. done' = Append(done, e) /\ e.outcome # "split"
      BY <2>2 DEF Handle
    <3>2. done \in Seq([chain : Chain, outcome : {"short", "broken", "split"}, copies : Nat])
      BY DEF IInv, TypeOK
    <3>3. Len(done) \in Nat /\ DOMAIN done = 1 .. Len(done)
      BY <3>2, LenProperties
    <3>4. /\ DOMAIN done' = 1 .. Len(done) + 1 /\ done'[Len(done) + 1] = e
          /\ \A d \in 1 .. Len(done) : done'[d] = done[d]
      <4>1. done \in Seq([chain : Chain, outcome : {"short", "broken", "split"}, copies : Nat] \cup {e})
        BY <3>2, SeqGrows
      <4>2. PICK S : done \in Seq(S) /\ e \in S
        BY <4>1
      <4> PICK q : q = Append(done, e)
        OBVIOUS
      <4>3. /\ q \in Seq(S) /\ Len(q) = Len(done) + 1 /\ q[Len(done) + 1] = e
            /\ \A d \in 1 .. Len(done) : q[d] = done[d]
        BY <4>2, AppendProperties
      <4>4. DOMAIN q = 1 .. Len(done) + 1
        BY <4>3, LenProperties
      <4> QED BY <3>1, <4>3, <4>4
    <3>5. Applied' = Applied
      <4>1. DOMAIN done' = DOMAIN done \cup {Len(done) + 1}
        BY <3>3, <3>4
      <4> QED BY <3>1, <3>3, <3>4, <4>1 DEF Applied
    <3>6. \A d \in Applied : Origin(done'[d]) = Origin(done[d])
      BY <3>3, <3>4 DEF Applied
    <3> QED BY <3>5, <3>6 DEF Origins
  <2> QED BY <2>1, <2>2
<1>2. (TurnsKept(splitMap, adj) /\ Owned(Origins, splitMap))'
  BY <1>1 DEF IInv, SplitsDoAsAsked, TurnsKept, Owned, ArcIn
<1>3. ASSUME NEW o \in Origins'
      PROVE  (Placed(o, splitMap) /\ LeadsOn(o, splitMap, adj) /\ EnteredAlong(o, splitMap, adj) /\ Caught(o, splitMap, adj))'
  <2>1. /\ Placed(o, splitMap) /\ LeadsOn(o, splitMap, adj)
        /\ EnteredAlong(o, splitMap, adj) /\ Caught(o, splitMap, adj)
    BY <1>1 DEF IInv, SplitsDoAsAsked
  <2> QED BY <2>1 DEF Placed, LeadsOn, EnteredAlong, Caught, ArcIn
<1> QED BY <1>2, <1>3 DEF SplitsDoAsAsked

LEMMA InitDoesAsAsked == Init => SplitsDoAsAsked
<1> SUFFICES ASSUME Init PROVE SplitsDoAsAsked
  OBVIOUS
<1>1. adj = Turns /\ splitMap = <<>> /\ done = <<>>
  BY DEF Init
<1>2. Origins = {} /\ Len(splitMap) = 0
  BY <1>1 DEF Origins, Applied
<1>3. Owned(Origins, splitMap)
  BY <1>2, NumArcsAssumption DEF Owned
<1>4. \A a \in Arcs : \A b \in Turns[a] : ArcIn(splitMap, b) = b
  BY TurnsAssumption, NumArcsAssumption DEF Arcs, ArcIn
<1> QED BY <1>1, <1>2, <1>3, <1>4 DEF SplitsDoAsAsked, TurnsKept

-----------------------------------------------------------------------------
\* Walks and where they lead: both are defined by recursion over the length.
WalksOf(n, shorter) ==
  IF n = 1 THEN {<<a>> : a \in Arcs}
  ELSE UNION {{Append(w, b) : b \in Turns[w[n - 1]]} : w \in shorter}
Reaches(walk, i, before) ==
  IF i = 1 THEN {walk[1]} ELSE UNION {{m \in adj[n] : ArcOf(m) = walk[i]} : n \in before}

LEMMA WalksRecur ==
  \E of : /\ Walks = UNION {of[n] : n \in 1 .. WalkBound}
          /\ \A n \in 1 .. WalkBound : of[n] = WalksOf(n, of[n - 1])
<1> DEFINE Ok(f, j) == f = [n \in 1 .. j |-> WalksOf(n, f[n - 1])]
           S == {j \in Nat : \E f : Ok(f, j)}
<1>1. 0 \in S
  <2>1. Ok([n \in 1 .. 0 |-> {}], 0)
    OBVIOUS
  <2> QED BY <2>1
<1>2. ASSUME NEW j \in Nat, j \in S PROVE j + 1 \in S
  <2>1. PICK f : Ok(f, j)
    BY <1>2
  <2>2. \A n \in 1 .. j : f[n] = WalksOf(n, f[n - 1])
    BY <2>1
  <2> HIDE DEF Ok
  <2> DEFINE g == [n \in 1 .. j + 1 |-> WalksOf(n, f[n - 1])]
  <2>3. \A n \in 1 .. j : g[n] = f[n]
    BY <2>2
  <2>4. ASSUME NEW n \in 1 .. j + 1 PROVE WalksOf(n, g[n - 1]) = WalksOf(n, f[n - 1])
    <3>1. CASE n = 1
      BY <3>1 DEF WalksOf
    <3>2. CASE n # 1
      <4>1. n - 1 \in 1 .. j
        BY <3>2
      <4>2. g[n - 1] = f[n - 1]
        BY <2>3, <4>1
      <4> QED BY <4>2
    <3> QED BY <3>1, <3>2
  <2>5. g = [n \in 1 .. j + 1 |-> WalksOf(n, g[n - 1])]
    BY <2>4
  <2> HIDE DEF g
  <2> QED BY <2>5 DEF Ok
<1> HIDE DEF S
<1>3. WalkBound \in S
  <2>1. Nat \subseteq S
    BY <1>1, <1>2, InductionOnNat
  <2> QED BY <2>1, BoundAssumption
<1>4. \E f : f = [n \in 1 .. WalkBound |-> WalksOf(n, f[n - 1])]
  BY <1>3 DEF S
<1> DEFINE of == CHOOSE f : f = [n \in 1 .. WalkBound |-> WalksOf(n, f[n - 1])]
<1>5. of = [n \in 1 .. WalkBound |-> WalksOf(n, of[n - 1])]
  BY <1>4
<1>6. Walks = UNION {of[n] : n \in 1 .. WalkBound}
  BY DEF Walks, WalksOf
<1> HIDE DEF of
<1> QED BY <1>5, <1>6

\* A walk is a sequence of arcs, each a turn of the one before.
LEMMA WalksTurn ==
  ASSUME NEW w \in Walks
  PROVE  /\ w \in Seq(Arcs) /\ Len(w) \in Nat /\ Len(w) >= 1 /\ DOMAIN w = 1 .. Len(w)
         /\ \A i \in 1 .. Len(w) : w[i] \in Arcs
         /\ \A i \in 1 .. Len(w) - 1 : w[i + 1] \in Turns[w[i]]
<1> DEFINE Fine(v, n) == v \in Seq(Arcs) /\ Len(v) = n /\ \A i \in 1 .. n - 1 : v[i + 1] \in Turns[v[i]]
<1>1. PICK of : /\ Walks = UNION {of[n] : n \in 1 .. WalkBound}
                /\ \A n \in 1 .. WalkBound : of[n] = WalksOf(n, of[n - 1])
  BY WalksRecur
<1> DEFINE S == {j \in Nat : j + 1 <= WalkBound => \A v \in of[j + 1] : Fine(v, j + 1)}
<1>2. 0 \in S
  <2> SUFFICES ASSUME NEW v \in of[1], 1 <= WalkBound PROVE Fine(v, 1)
    OBVIOUS
  <2>1. of[1] = WalksOf(1, of[0])
    <3>1. 1 \in 1 .. WalkBound /\ 1 - 1 = 0
      BY BoundAssumption
    <3> QED BY <1>1, <3>1
  <2>2. PICK a \in Arcs : v = <<a>>
    BY <2>1 DEF WalksOf
  <2> QED BY <2>2
<1>3. ASSUME NEW j \in Nat, j \in S PROVE j + 1 \in S
  <2> SUFFICES ASSUME NEW v \in of[j + 2], j + 2 <= WalkBound PROVE Fine(v, j + 2)
    <3>1. (j + 1) + 1 = j + 2
      OBVIOUS
    <3> QED BY <3>1
  <2>1. j + 2 \in 1 .. WalkBound /\ (j + 2) - 1 = j + 1 /\ j + 2 # 1 /\ j + 1 <= WalkBound
    BY BoundAssumption
  <2>2. of[j + 2] = WalksOf(j + 2, of[j + 1])
    BY <1>1, <2>1
  <2>3. PICK u \in of[j + 1] : \E b \in Turns[u[j + 1]] : v = Append(u, b)
    BY <2>1, <2>2 DEF WalksOf
  <2>4. PICK b \in Turns[u[j + 1]] : v = Append(u, b)
    BY <2>3
  <2>5. Fine(u, j + 1)
    BY <1>3, <2>1
  <2>6. u \in Seq(Arcs) /\ Len(u) = j + 1 /\ \A i \in 1 .. j : u[i + 1] \in Turns[u[i]]
    BY <2>5
  <2>7. u[j + 1] \in Arcs
    BY <2>6, ElementOfSeq
  <2>8. b \in Arcs
    BY <2>7, TurnsAssumption
  <2>9. /\ v \in Seq(Arcs) /\ Len(v) = j + 2 /\ v[j + 2] = b
        /\ \A i \in 1 .. j + 1 : v[i] = u[i]
    BY <2>4, <2>6, <2>8, AppendProperties
  <2>10. ASSUME NEW i \in 1 .. j + 1 PROVE v[i + 1] \in Turns[v[i]]
    BY <2>6, <2>9
  <2> QED BY <2>9, <2>10
<1> HIDE DEF S
<1>4. Nat \subseteq S
  BY <1>2, <1>3, InductionOnNat
<1>5. PICK n \in 1 .. WalkBound : w \in of[n]
  BY <1>1
<1>6. n - 1 \in Nat /\ (n - 1) + 1 = n /\ n <= WalkBound
  BY <1>5, BoundAssumption
<1>7. n - 1 \in S
  BY <1>4, <1>6
<1>8. Fine(w, n)
  BY <1>5, <1>6, <1>7 DEF S
<1>9. w \in Seq(Arcs) /\ Len(w) = n /\ n >= 1
  BY <1>6, <1>8
<1>10. \A i \in 1 .. Len(w) : w[i] \in Arcs
  BY <1>9, ElementOfSeq
<1> QED BY <1>8, <1>9, <1>10

LEMMA ReachedRecurs ==
  ASSUME NEW w \in Walks
  PROVE  \E at : /\ Reached(w) = at[Len(w)]
                 /\ \A i \in 1 .. Len(w) : at[i] = Reaches(w, i, at[i - 1])
<1> DEFINE Ok(f, j) == f = [i \in 1 .. j |-> Reaches(w, i, f[i - 1])]
           S == {j \in Nat : \E f : Ok(f, j)}
<1>1. 0 \in S
  <2>1. Ok([i \in 1 .. 0 |-> {}], 0)
    OBVIOUS
  <2> QED BY <2>1
<1>2. ASSUME NEW j \in Nat, j \in S PROVE j + 1 \in S
  <2>1. PICK f : Ok(f, j)
    BY <1>2
  <2>2. \A i \in 1 .. j : f[i] = Reaches(w, i, f[i - 1])
    BY <2>1
  <2> HIDE DEF Ok
  <2> DEFINE g == [i \in 1 .. j + 1 |-> Reaches(w, i, f[i - 1])]
  <2>3. \A i \in 1 .. j : g[i] = f[i]
    BY <2>2
  <2>4. ASSUME NEW i \in 1 .. j + 1 PROVE Reaches(w, i, g[i - 1]) = Reaches(w, i, f[i - 1])
    <3>1. CASE i = 1
      BY <3>1 DEF Reaches
    <3>2. CASE i # 1
      <4>1. i - 1 \in 1 .. j
        BY <3>2
      <4>2. g[i - 1] = f[i - 1]
        BY <2>3, <4>1
      <4> QED BY <4>2
    <3> QED BY <3>1, <3>2
  <2>5. g = [i \in 1 .. j + 1 |-> Reaches(w, i, g[i - 1])]
    BY <2>4
  <2> HIDE DEF g
  <2> QED BY <2>5 DEF Ok
<1> HIDE DEF S
<1>3. Len(w) \in S
  <2>1. Nat \subseteq S
    BY <1>1, <1>2, InductionOnNat
  <2> QED BY <2>1, WalksTurn
<1>4. \E f : f = [i \in 1 .. Len(w) |-> Reaches(w, i, f[i - 1])]
  BY <1>3 DEF S
<1> DEFINE at == CHOOSE f : f = [i \in 1 .. Len(w) |-> Reaches(w, i, f[i - 1])]
<1>5. at = [i \in 1 .. Len(w) |-> Reaches(w, i, at[i - 1])]
  BY <1>4
<1>6. Reached(w) = at[Len(w)]
  <2>1. DOMAIN w = 1 .. Len(w)
    BY WalksTurn
  <2>2. at = CHOOSE f : f = [i \in DOMAIN w |-> Reaches(w, i, f[i - 1])]
    BY <2>1
  <2> HIDE DEF at
  <2> QED BY <2>2 DEF Reached, Reaches
<1> HIDE DEF at
<1> QED BY <1>5, <1>6

\* The nodes a walk leads to, arc by arc.
Leading(w, at) == \A i \in 1 .. Len(w) : at[i] = Reaches(w, i, at[i - 1])

LEMMA EachStep ==
  ASSUME IInv, NEW w \in Walks, NEW at, Leading(w, at), NEW i \in 1 .. Len(w), NEW n \in at[i]
  PROVE  /\ n \in DOMAIN adj /\ ArcOf(n) = w[i]
         /\ i = 1 => n \in Arcs
         /\ i # 1 => i - 1 \in 1 .. Len(w) /\ \E l \in at[i - 1] : n \in adj[l]
<1>1. Leads(adj)
  BY DEF IInv, TypeOK, Leads
<1>2. Arcs \subseteq DOMAIN adj
  BY NumArcsAssumption DEF IInv, TypeOK, Arcs
<1> DEFINE S == {j \in Nat : j + 1 <= Len(w) => at[j + 1] \subseteq DOMAIN adj}
<1>3. 0 \in S
  <2> SUFFICES ASSUME 1 <= Len(w) PROVE at[1] \subseteq DOMAIN adj
    OBVIOUS
  <2>1. at[1] = {w[1]} /\ w[1] \in Arcs
    <3>1. 1 \in 1 .. Len(w) /\ w[1] \in Arcs
      BY WalksTurn
    <3>2. at[1] = Reaches(w, 1, at[1 - 1])
      BY <3>1 DEF Leading
    <3> QED BY <3>1, <3>2 DEF Reaches
  <2> QED BY <1>2, <2>1
<1>4. ASSUME NEW j \in Nat, j \in S PROVE j + 1 \in S
  <2> SUFFICES ASSUME j + 2 <= Len(w) PROVE at[j + 2] \subseteq DOMAIN adj
    <3>1. (j + 1) + 1 = j + 2
      OBVIOUS
    <3> QED BY <3>1
  <2>1. j + 2 \in 1 .. Len(w) /\ (j + 2) - 1 = j + 1 /\ j + 2 # 1 /\ j + 1 <= Len(w)
    BY WalksTurn
  <2>2. at[j + 2] = Reaches(w, j + 2, at[j + 1])
    BY <2>1 DEF Leading
  <2>3. at[j + 1] \subseteq DOMAIN adj
    BY <1>4, <2>1
  <2> QED BY <1>1, <2>1, <2>2, <2>3 DEF Reaches, Leads
<1> HIDE DEF S
<1>5. Nat \subseteq S
  BY <1>3, <1>4, InductionOnNat
<1>6. i - 1 \in Nat /\ (i - 1) + 1 = i /\ i <= Len(w) /\ (i # 1 => i - 1 \in 1 .. Len(w))
  BY WalksTurn
<1>7. n \in DOMAIN adj
  BY <1>5, <1>6 DEF S
<1>8. at[i] = Reaches(w, i, at[i - 1])
  BY DEF Leading
<1>9. CASE i = 1
  <2>1. n = w[1] /\ w[1] \in Arcs
    BY <1>8, <1>9, WalksTurn DEF Reaches
  <2>2. ArcOf(n) = n
    BY <2>1, NumArcsAssumption DEF Arcs, ArcOf
  <2> QED BY <1>7, <1>9, <2>1, <2>2
<1>10. CASE i # 1
  BY <1>6, <1>7, <1>8, <1>10 DEF Reaches
<1> QED BY <1>9, <1>10

LEMMA ArcOfIsArcIn == \A n : ArcOf(n) = ArcIn(splitMap, n)
BY DEF ArcOf, ArcIn

\* Who is on a copy has come along its chain.
LEMMA ComesAlong ==
  ASSUME IInv, NEW w \in Walks, NEW at, Leading(w, at), NEW o \in Origins
  PROVE  \A k \in 1 .. o.last : \A i \in 1 .. Len(w) :
           o.base + k - 1 \in at[i] => k + 1 <= i /\ \A j \in 1 .. k + 1 : w[i - k - 1 + j] = o.way[j]
<1>1. /\ o.last \in Nat /\ o.base \in Nat /\ NumArcs <= o.base
      /\ \A k \in 1 .. o.last : ArcOf(o.base + k - 1) = o.way[k + 1]
  BY ArcOfIsArcIn DEF IInv, SplitsDoAsAsked, Placed
<1>2. \A n \in DOMAIN adj : \A k \in 1 .. o.last :
        o.base + k - 1 \in adj[n] => IF k = 1 THEN ArcOf(n) = o.way[1] ELSE n = o.base + k - 2
  BY ArcOfIsArcIn DEF IInv, SplitsDoAsAsked, EnteredAlong
<1> DEFINE On(k) == \A i \in 1 .. Len(w) :
             o.base + k - 1 \in at[i] => k + 1 <= i /\ \A j \in 1 .. k + 1 : w[i - k - 1 + j] = o.way[j]
           S == {k \in Nat : k \in 1 .. o.last => On(k)}
<1>3. 0 \in S
  OBVIOUS
<1>4. ASSUME NEW l \in Nat, l \in S PROVE l + 1 \in S
  <2> PICK k \in Nat : k = l + 1
    OBVIOUS
  <2> SUFFICES ASSUME k \in 1 .. o.last, NEW i \in 1 .. Len(w), o.base + k - 1 \in at[i]
               PROVE  k + 1 <= i /\ \A j \in 1 .. k + 1 : w[i - k - 1 + j] = o.way[j]
    OBVIOUS
  <2>1. o.base + k - 1 \notin Arcs
    BY <1>1, NumArcsAssumption DEF Arcs
  <2>2. i # 1 /\ i - 1 \in 1 .. Len(w) /\ ArcOf(o.base + k - 1) = w[i]
    BY <2>1, EachStep
  <2>3. PICK n \in at[i - 1] : o.base + k - 1 \in adj[n]
    BY <2>2, EachStep
  <2>4. n \in DOMAIN adj /\ ArcOf(n) = w[i - 1]
    BY <2>2, EachStep
  <2>5. w[i] = o.way[k + 1]
    BY <1>1, <2>2
  <2>6. CASE k = 1
    <3>1. w[i - 1] = o.way[1]
      BY <1>2, <2>3, <2>4, <2>6
    <3>2. ASSUME NEW j \in 1 .. 2 PROVE w[i - 1 - 1 + j] = o.way[j]
      <4>1. CASE j = 1
        <5>1. i - 1 - 1 + j = i - 1
          BY <4>1
        <5> QED BY <3>1, <4>1, <5>1
      <4>2. CASE j = 2
        <5>1. i - 1 - 1 + j = i
          BY <4>2
        <5> QED BY <2>5, <2>6, <4>2, <5>1
      <4> QED BY <4>1, <4>2
    <3>3. ASSUME NEW j \in 1 .. k + 1 PROVE w[i - k - 1 + j] = o.way[j]
      <4>1. j \in 1 .. 2 /\ i - k - 1 + j = i - 1 - 1 + j
        BY <2>6
      <4> QED BY <3>2, <4>1
    <3> QED BY <2>2, <2>6, <3>3, WalksTurn
  <2>7. CASE k # 1
    <3>1. n = o.base + l - 1 /\ l \in 1 .. o.last
      <4>1. n = o.base + k - 2
        BY <1>2, <2>3, <2>4, <2>7
      <4> QED BY <1>1, <2>7, <4>1
    <3>2. l + 1 <= i - 1 /\ \A j \in 1 .. l + 1 : w[(i - 1) - l - 1 + j] = o.way[j]
      BY <1>4, <2>2, <2>3, <3>1
    <3>3. ASSUME NEW j \in 1 .. k + 1 PROVE w[i - k - 1 + j] = o.way[j]
      <4>1. CASE j = k + 1
        <5>1. i - k - 1 + j = i
          BY <4>1
        <5> QED BY <2>5, <4>1, <5>1
      <4>2. CASE j # k + 1
        <5>1. j \in 1 .. l + 1 /\ (i - 1) - l - 1 + j = i - k - 1 + j
          BY <4>2
        <5> QED BY <3>2, <5>1
      <4> QED BY <4>1, <4>2
    <3> QED BY <3>2, <3>3
  <2> QED BY <2>6, <2>7
<1> HIDE DEF S
<1>5. Nat \subseteq S
  BY <1>3, <1>4, InductionOnNat
<1>6. \A k \in 1 .. o.last : k \in S
  BY <1>5
<1> QED BY <1>6 DEF S

\* An applied chain as the property sees it and as its copies do.
LEMMA AppliedChain ==
  ASSUME IInv, NEW d \in Applied, NEW o, o = Origin(done[d])
  PROVE  /\ o \in Origins /\ o.way = done[d].chain.arcs /\ o.must = done[d].chain.mandatory
         /\ o.last \in Nat /\ o.last >= 1 /\ Len(o.way) = o.last + 2 /\ DOMAIN o.way = 1 .. o.last + 2
         /\ o.base \in Nat /\ o.base + o.last - NumArcs = done[d].copies
         /\ \A j \in 1 .. o.last + 1 : \A i \in 1 .. j : SubSeq(o.way, 1, j)[i] = o.way[i]
         /\ \A j \in 1 .. o.last + 1 : Len(SubSeq(o.way, 1, j)) = j /\ DOMAIN SubSeq(o.way, 1, j) = 1 .. j
<1>1. o \in Origins /\ Placed(o, splitMap)
  BY DEF IInv, SplitsDoAsAsked, Origins
<1>2. o.way = done[d].chain.arcs /\ o.must = done[d].chain.mandatory /\ o.base = NumArcs + done[d].copies - o.last
  BY DEF Origin
<1>3. done[d].chain \in Chain /\ done[d].copies \in Nat
  <2>1. d \in DOMAIN done /\ done \in Seq([chain : Chain, outcome : {"short", "broken", "split"}, copies : Nat])
    BY DEF IInv, TypeOK, Applied
  <2>2. done[d] \in [chain : Chain, outcome : {"short", "broken", "split"}, copies : Nat]
    BY <2>1, ElementOfSeq, LenProperties
  <2> QED BY <2>2
<1>4. o.way \in Seq(Arcs)
  BY <1>2, <1>3 DEF Chain
<1>5. o.last \in Nat /\ o.last >= 1 /\ Len(o.way) = o.last + 2 /\ o.base \in Nat
  BY <1>1 DEF Placed
<1>6. DOMAIN o.way = 1 .. o.last + 2
  BY <1>4, <1>5, LenProperties
<1>7. o.base + o.last - NumArcs = done[d].copies
  BY <1>2, <1>3, <1>5, NumArcsAssumption
<1>8. ASSUME NEW j \in 1 .. o.last + 1
      PROVE  /\ \A i \in 1 .. j : SubSeq(o.way, 1, j)[i] = o.way[i]
             /\ Len(SubSeq(o.way, 1, j)) = j /\ DOMAIN SubSeq(o.way, 1, j) = 1 .. j
  <2> PICK way : way = o.way
    OBVIOUS
  <2>1. way \in Seq(Arcs) /\ j \in 1 .. Len(way)
    BY <1>4, <1>5
  <2>2. /\ SubSeq(way, 1, j) \in Seq(Arcs) /\ Len(SubSeq(way, 1, j)) = j
        /\ \A i \in 1 .. j : SubSeq(way, 1, j)[i] = way[i]
    BY <1>5, <2>1
  <2> QED BY <2>2, LenProperties
<1> QED BY <1>1, <1>2, <1>5, <1>6, <1>7, <1>8

\* A vehicle that obeys the chains applied finds its turn.
LEMMA FindsTheTurn ==
  ASSUME IInv, NEW w \in Walks, NEW at, Leading(w, at), \A d \in Applied : Obeys(w, done[d].chain),
         NEW i \in 1 .. Len(w) - 1, NEW n \in at[i]
  PROVE  \E m \in adj[n] : ArcOf(m) = w[i + 1]
<1>1. /\ i \in 1 .. Len(w) /\ w[i] \in Arcs /\ w[i + 1] \in Turns[w[i]] /\ Len(w) \in Nat /\ DOMAIN w = 1 .. Len(w)
      /\ i + 1 <= Len(w)
  BY WalksTurn
<1>2. n \in DOMAIN adj /\ ArcOf(n) = w[i]
  BY <1>1, EachStep
<1>3. CASE n \in Arcs
  <2>1. n = w[i]
    BY <1>2, <1>3, NumArcsAssumption DEF Arcs, ArcOf
  <2>2. \A a \in Arcs : \A b \in Turns[a] : \E m \in adj[a] : ArcIn(splitMap, m) = b
    BY DEF IInv, SplitsDoAsAsked, TurnsKept
  <2> QED BY <1>1, <2>1, <2>2, ArcOfIsArcIn
<1>4. CASE n \notin Arcs
  <2>1. n \in NumArcs .. NumArcs + Len(splitMap) - 1
    <3>1. DOMAIN adj = 0 .. NumArcs + Len(splitMap) - 1 /\ Len(splitMap) \in Nat
      BY LenProperties DEF IInv, TypeOK
    <3> QED BY <1>2, <1>4, <3>1, NumArcsAssumption DEF Arcs
  <2>2. PICK o \in Origins : \E k \in 1 .. o.last : n = o.base + k - 1
    BY <2>1 DEF IInv, SplitsDoAsAsked, Owned
  <2> PICK k \in 1 .. o.last : n = o.base + k - 1
    BY <2>2
  <2>3. PICK d \in Applied : o = Origin(done[d])
    BY DEF Origins
  <2>4. /\ o.way = done[d].chain.arcs /\ o.must = done[d].chain.mandatory
        /\ o.last \in Nat /\ o.last >= 1 /\ Len(o.way) = o.last + 2 /\ DOMAIN o.way = 1 .. o.last + 2
        /\ \A j \in 1 .. o.last + 1 : \A l \in 1 .. j : SubSeq(o.way, 1, j)[l] = o.way[l]
        /\ \A j \in 1 .. o.last + 1 : Len(SubSeq(o.way, 1, j)) = j /\ DOMAIN SubSeq(o.way, 1, j) = 1 .. j
    BY <2>3, AppliedChain
  <2>5. k + 1 <= i /\ \A j \in 1 .. k + 1 : w[i - k - 1 + j] = o.way[j]
    BY <1>1, ComesAlong
  <2> PICK p : p = i - k
    OBVIOUS
  <2>6. p \in 1 .. Len(w) /\ \A j \in 1 .. k + 1 : w[p + j - 1] = o.way[j]
    <3>1. p \in 1 .. Len(w) /\ \A j \in 1 .. k + 1 : p + j - 1 = i - k - 1 + j
      BY <1>1, <2>4, <2>5
    <3> QED BY <2>5, <3>1
  <2>7. w[i] = o.way[k + 1]
    <3>1. k + 1 \in 1 .. k + 1 /\ p + (k + 1) - 1 = i
      BY <1>1, <2>4
    <3>2. w[p + (k + 1) - 1] = o.way[k + 1]
      BY <2>6, <3>1
    <3> QED BY <3>1, <3>2
  <2>8. /\ o.must => \E m \in adj[n] : ArcOf(m) = o.way[k + 2]
        /\ ~o.must => \A b \in Turns[o.way[k + 1]] : b # o.way[k + 2] \/ k < o.last => \E m \in adj[n] : ArcOf(m) = b
    <3>1. LeadsOn(o, splitMap, adj)
      BY DEF IInv, SplitsDoAsAsked
    <3>2. o.must => \E m \in adj[n] : ArcIn(splitMap, m) = o.way[k + 2]
      BY <3>1 DEF LeadsOn
    <3>3. ASSUME ~o.must, NEW b \in Turns[o.way[k + 1]], b # o.way[k + 2] \/ k < o.last
          PROVE  \E m \in adj[n] : ArcIn(splitMap, m) = b
      BY <3>1, <3>3 DEF LeadsOn
    <3> QED BY <3>2, <3>3, ArcOfIsArcIn
  <2>9. Obeys(w, done[d].chain)
    OBVIOUS
  <2>10. CASE o.must
    <3> PICK j : j = k + 1
      OBVIOUS
    <3>1. j \in 2 .. Len(o.way) - 1 /\ j \in 1 .. o.last + 1 /\ p + j = i + 1 /\ p + j - 1 <= Len(w) /\ j + 1 = k + 2
      BY <1>1, <2>4
    <3>2. Occurs(SubSeq(o.way, 1, j), w, p)
      BY <2>4, <2>6, <3>1 DEF Occurs
    <3>3. w[p + j] = o.way[j + 1]
      <4>1. \A q \in DOMAIN w : \A l \in 2 .. Len(o.way) - 1 :
              Occurs(SubSeq(o.way, 1, l), w, q) /\ q + l <= Len(w) => w[q + l] = o.way[l + 1]
        BY <2>4, <2>9, <2>10 DEF Obeys
      <4> QED BY <1>1, <2>6, <3>1, <3>2, <4>1
    <3> QED BY <2>8, <2>10, <3>1, <3>3
  <2>11. CASE ~o.must
    <3>1. CASE w[i + 1] # o.way[k + 2] \/ k < o.last
      BY <1>1, <2>7, <2>8, <2>11, <3>1
    <3>2. CASE w[i + 1] = o.way[k + 2] /\ k = o.last
      <4>1. ASSUME NEW j \in 1 .. o.last + 2 PROVE w[p + j - 1] = o.way[j]
        <5>1. CASE j = o.last + 2
          <6>1. p + j - 1 = i + 1 /\ j = k + 2
            BY <1>1, <2>4, <3>2, <5>1
          <6> QED BY <3>2, <6>1
        <5>2. CASE j # o.last + 2
          <6>1. j \in 1 .. k + 1
            BY <2>4, <3>2, <5>2
          <6> QED BY <2>6, <6>1
        <5> QED BY <5>1, <5>2
      <4>2. p + Len(o.way) - 1 <= Len(w)
        BY <1>1, <2>4, <3>2
      <4>3. Occurs(o.way, w, p)
        BY <2>4, <4>1, <4>2 DEF Occurs
      <4>4. ~Occurs(o.way, w, p)
        BY <1>1, <2>4, <2>6, <2>9, <2>11 DEF Obeys
      <4> QED BY <4>3, <4>4
    <3> QED BY <2>4, <3>1, <3>2
  <2> QED BY <2>10, <2>11
<1> QED BY <1>3, <1>4

LEMMA LegalWalksAreDriven == ASSUME IInv PROVE LegalWalksSurvive
<1> SUFFICES ASSUME NEW w \in Walks, \A d \in Applied : Obeys(w, done[d].chain) PROVE Reached(w) # {}
  BY DEF LegalWalksSurvive, Drivable
<1>1. PICK at : Reached(w) = at[Len(w)] /\ Leading(w, at)
  BY ReachedRecurs DEF Leading
<1> DEFINE S == {j \in Nat : j + 1 <= Len(w) => at[j + 1] # {}}
<1>2. 0 \in S
  <2> SUFFICES ASSUME 1 <= Len(w) PROVE at[1] # {}
    OBVIOUS
  <2>1. 1 \in 1 .. Len(w)
    BY WalksTurn
  <2> QED BY <1>1, <2>1 DEF Leading, Reaches
<1>3. ASSUME NEW j \in Nat, j \in S PROVE j + 1 \in S
  <2> PICK i : i = j + 1
    OBVIOUS
  <2> SUFFICES ASSUME i + 1 <= Len(w) PROVE at[i + 1] # {}
    OBVIOUS
  <2>1. i \in 1 .. Len(w) - 1 /\ i + 1 \in 1 .. Len(w) /\ (i + 1) - 1 = i /\ i + 1 # 1 /\ j + 1 <= Len(w)
    BY WalksTurn
  <2>2. PICK n \in at[i] : TRUE
    BY <1>3, <2>1
  <2>3. PICK m \in adj[n] : ArcOf(m) = w[i + 1]
    BY <1>1, <2>1, FindsTheTurn
  <2>4. at[i + 1] = Reaches(w, i + 1, at[i])
    BY <1>1, <2>1 DEF Leading
  <2> QED BY <2>1, <2>2, <2>3, <2>4 DEF Reaches
<1> HIDE DEF S
<1>4. Nat \subseteq S
  BY <1>2, <1>3, InductionOnNat
<1>5. Len(w) - 1 \in Nat /\ (Len(w) - 1) + 1 = Len(w) /\ Len(w) <= Len(w)
  BY WalksTurn
<1>6. Len(w) - 1 \in S
  BY <1>4, <1>5
<1> QED BY <1>1, <1>5, <1>6 DEF S

\* Who takes the first turn of a chain is on its copies from then on.
NeverCopied(o) == \A i \in 1 .. o.base + o.last - NumArcs : splitMap[i] # o.way[1]
OnCopy(w, at, o, p, k) ==
  p + k <= Len(w) /\ (\A j \in 1 .. k + 1 : w[p + j - 1] = o.way[j]) => at[p + k] \subseteq {o.base + k - 1}
LEMMA OnTheCopies ==
  ASSUME IInv, NEW w \in Walks, NEW at, Leading(w, at), NEW o \in Origins, NEW p \in 1 .. Len(w), NeverCopied(o)
  PROVE  \A k \in 1 .. o.last : OnCopy(w, at, o, p, k)
<1>1. Len(w) \in Nat /\ o.last \in Nat /\ o.base \in Nat
  BY WalksTurn DEF IInv, SplitsDoAsAsked, Placed
<1> DEFINE Goes(k) == p + k <= Len(w) /\ \A j \in 1 .. k + 1 : w[p + j - 1] = o.way[j]
           S == {k \in Nat : k \in 1 .. o.last /\ Goes(k) => at[p + k] \subseteq {o.base + k - 1}}
<1>2. 0 \in S
  OBVIOUS
<1>3. ASSUME NEW l \in Nat, l \in S PROVE l + 1 \in S
  <2> PICK k : k = l + 1
    OBVIOUS
  <2> SUFFICES ASSUME k \in 1 .. o.last, Goes(k), NEW n \in at[p + k] PROVE n = o.base + k - 1
    OBVIOUS
  <2> PICK i : i = p + k
    OBVIOUS
  <2>1. i \in 1 .. Len(w) /\ i # 1 /\ i - 1 = p + l /\ p + l <= Len(w)
    BY <1>1
  <2>2. n \in DOMAIN adj /\ ArcOf(n) = w[i] /\ \E m \in at[i - 1] : n \in adj[m]
    BY <2>1, EachStep
  <2>3. PICK m \in at[i - 1] : n \in adj[m]
    BY <2>2
  <2>4. m \in DOMAIN adj /\ ArcOf(m) = w[i - 1]
    BY <1>1, <2>1, EachStep
  <2>5. w[i] = o.way[k + 1] /\ w[i - 1] = o.way[k]
    <3>1. k + 1 \in 1 .. k + 1 /\ p + (k + 1) - 1 = i /\ k \in 1 .. k + 1 /\ p + k - 1 = i - 1
      BY <1>1
    <3>2. w[p + (k + 1) - 1] = o.way[k + 1] /\ w[p + k - 1] = o.way[k]
      BY <3>1
    <3> QED BY <3>1, <3>2
  <2>6. CASE l = 0
    <3>1. k = 1 /\ k + 1 = 2
      BY <2>6
    <3>2. Caught(o, splitMap, adj)
      BY DEF IInv, SplitsDoAsAsked
    <3>3. \A x \in DOMAIN adj : ArcIn(splitMap, x) = o.way[1] => \A y \in adj[x] : ArcIn(splitMap, y) = o.way[2] => y = o.base
      BY <3>2 DEF Caught, NeverCopied
    <3>4. n = o.base
      BY <2>2, <2>3, <2>4, <2>5, <3>1, <3>3, ArcOfIsArcIn
    <3> QED BY <1>1, <3>1, <3>4
  <2>7. CASE l # 0
    <3>1. l \in 1 .. o.last /\ l < o.last /\ o.base + l = o.base + k - 1
      BY <1>1, <2>7
    <3>2. Goes(l)
      <4>1. \A j \in 1 .. l + 1 : j \in 1 .. k + 1
        OBVIOUS
      <4> QED BY <2>1, <4>1
    <3>3. m = o.base + l - 1
      BY <1>3, <2>1, <2>3, <3>1, <3>2
    <3>4. \A y \in adj[o.base + l - 1] : ArcIn(splitMap, y) = o.way[l + 2] => y = o.base + l
      <4>1. LeadsOn(o, splitMap, adj)
        BY DEF IInv, SplitsDoAsAsked
      <4> QED BY <3>1, <4>1 DEF LeadsOn
    <3>5. l + 2 = k + 1
      OBVIOUS
    <3> QED BY <2>2, <2>3, <2>5, <3>1, <3>3, <3>4, <3>5, ArcOfIsArcIn
  <2> QED BY <2>6, <2>7
<1> HIDE DEF S
<1>4. Nat \subseteq S
  BY <1>2, <1>3, InductionOnNat
<1>5. \A k \in 1 .. o.last : k \in S
  BY <1>1, <1>4
<1> QED BY <1>5 DEF S, OnCopy

\* A walk that can be driven can be driven up to each of its arcs.
LEMMA DrivenAllAlong ==
  ASSUME NEW w \in Walks, NEW at, Leading(w, at), at[Len(w)] # {}
  PROVE  \A i \in 1 .. Len(w) : at[i] # {}
<1>1. Len(w) \in Nat
  BY WalksTurn
<1> DEFINE S == {j \in Nat : j < Len(w) => at[Len(w) - j] # {}}
<1>2. 0 \in S
  BY <1>1
<1>3. ASSUME NEW j \in Nat, j \in S PROVE j + 1 \in S
  <2> SUFFICES ASSUME j + 1 < Len(w) PROVE at[Len(w) - (j + 1)] # {}
    OBVIOUS
  <2> PICK i : i = Len(w) - j
    OBVIOUS
  <2>1. i \in 1 .. Len(w) /\ i # 1 /\ i - 1 = Len(w) - (j + 1) /\ j < Len(w)
    BY <1>1
  <2>2. at[i] # {} /\ at[i] = Reaches(w, i, at[i - 1])
    BY <1>3, <2>1 DEF Leading
  <2>3. at[i - 1] # {}
    BY <2>1, <2>2 DEF Reaches
  <2> QED BY <2>1, <2>3
<1> HIDE DEF S
<1>4. Nat \subseteq S
  BY <1>2, <1>3, InductionOnNat
<1>5. ASSUME NEW i \in 1 .. Len(w) PROVE at[i] # {}
  <2> PICK j : j = Len(w) - i
    OBVIOUS
  <2>1. j \in Nat /\ j < Len(w) /\ Len(w) - j = i
    BY <1>1
  <2>2. j \in S
    BY <1>4, <2>1
  <2> QED BY <2>1, <2>2 DEF S
<1> QED BY <1>5

LEMMA ChainsBind == ASSUME IInv PROVE ChainsBindUnlessCopied
<1> SUFFICES ASSUME NEW d \in Applied, \A i \in 1 .. done[d].copies : splitMap[i] # done[d].chain.arcs[1],
                    NEW w \in Walks, Reached(w) # {}
             PROVE  Obeys(w, done[d].chain)
  BY DEF ChainsBindUnlessCopied, Drivable
<1> PICK o : o = Origin(done[d])
  OBVIOUS
<1>1. /\ o \in Origins /\ o.way = done[d].chain.arcs /\ o.must = done[d].chain.mandatory
      /\ o.last \in Nat /\ o.last >= 1 /\ Len(o.way) = o.last + 2 /\ DOMAIN o.way = 1 .. o.last + 2
      /\ o.base \in Nat /\ o.base + o.last - NumArcs = done[d].copies
      /\ \A j \in 1 .. o.last + 1 : \A i \in 1 .. j : SubSeq(o.way, 1, j)[i] = o.way[i]
      /\ \A j \in 1 .. o.last + 1 : Len(SubSeq(o.way, 1, j)) = j /\ DOMAIN SubSeq(o.way, 1, j) = 1 .. j
  BY AppliedChain
<1>2. NeverCopied(o)
  BY <1>1 DEF NeverCopied
<1>3. PICK at : Reached(w) = at[Len(w)] /\ Leading(w, at)
  BY ReachedRecurs DEF Leading
<1>4. \A i \in 1 .. Len(w) : at[i] # {}
  BY <1>3, DrivenAllAlong
<1>5. Len(w) \in Nat /\ DOMAIN w = 1 .. Len(w)
  BY WalksTurn
<1>6. LeadsOn(o, splitMap, adj)
  BY <1>1 DEF IInv, SplitsDoAsAsked
\* Where the walk goes on from the k-th copy.
<1>7. ASSUME NEW p \in 1 .. Len(w), NEW k \in 1 .. o.last, \A j \in 1 .. k + 1 : w[p + j - 1] = o.way[j], p + k + 1 <= Len(w)
      PROVE  \E m \in adj[o.base + k - 1] : ArcIn(splitMap, m) = w[p + k + 1]
  <2> PICK i : i = p + k + 1
    OBVIOUS
  <2>1. i \in 1 .. Len(w) /\ i # 1 /\ i - 1 = p + k /\ p + k <= Len(w)
    BY <1>1, <1>5, <1>7
  <2>2. PICK m \in at[i] : TRUE
    BY <1>4, <2>1
  <2>3. ArcOf(m) = w[i] /\ \E l \in at[i - 1] : m \in adj[l]
    BY <1>3, <2>1, EachStep
  <2>4. at[p + k] \subseteq {o.base + k - 1}
    <3>1. o \in Origins /\ Leading(w, at)
      BY <1>1, <1>3
    <3>2. OnCopy(w, at, o, p, k)
      BY <1>2, <3>1, OnTheCopies
    <3> QED BY <1>7, <2>1, <3>2 DEF OnCopy
  <2> QED BY <2>1, <2>3, <2>4, ArcOfIsArcIn
<1>8. CASE o.must
  <2> SUFFICES ASSUME NEW p \in 1 .. Len(w), NEW j \in 2 .. Len(o.way) - 1,
                      Occurs(SubSeq(o.way, 1, j), w, p), p + j <= Len(w)
               PROVE  w[p + j] = o.way[j + 1]
    BY <1>1, <1>5, <1>8 DEF Obeys
  <2> PICK k : k = j - 1
    OBVIOUS
  <2>1. k \in 1 .. o.last /\ j \in 1 .. o.last + 1 /\ k + 1 = j /\ k + 2 = j + 1 /\ p + k + 1 = p + j
    BY <1>1, <1>5
  <2>2. \A l \in 1 .. k + 1 : w[p + l - 1] = o.way[l]
    <3>1. DOMAIN SubSeq(o.way, 1, j) = 1 .. j /\ \A i \in 1 .. j : SubSeq(o.way, 1, j)[i] = o.way[i]
      BY <1>1, <2>1
    <3> QED BY <2>1, <3>1 DEF Occurs
  <2>3. PICK m \in adj[o.base + k - 1] : ArcIn(splitMap, m) = w[p + k + 1]
    BY <1>7, <2>1, <2>2
  <2>4. ArcIn(splitMap, m) = o.way[k + 2]
    BY <1>6, <1>8, <2>1, <2>3 DEF LeadsOn
  <2> QED BY <2>1, <2>3, <2>4
<1>9. CASE ~o.must
  <2> SUFFICES ASSUME NEW p \in 1 .. Len(w), Occurs(o.way, w, p) PROVE FALSE
    BY <1>1, <1>5, <1>9 DEF Obeys
  <2> PICK k : k = o.last
    OBVIOUS
  <2>1. k \in 1 .. o.last /\ p + k + 1 <= Len(w)
    BY <1>1, <1>5 DEF Occurs
  <2>2. \A l \in 1 .. k + 2 : w[p + l - 1] = o.way[l]
    BY <1>1 DEF Occurs
  <2>3. \A l \in 1 .. k + 1 : w[p + l - 1] = o.way[l]
    BY <1>1, <2>2
  <2>4. w[p + k + 1] = o.way[k + 2]
    <3>1. k \in Nat /\ p \in Nat
      BY <1>1, <1>5
    <3>3. k + 2 \in 1 .. k + 2 /\ p + (k + 2) - 1 = p + k + 1
      BY <3>1
    <3>2. w[p + (k + 2) - 1] = o.way[k + 2]
      BY <2>2, <3>3
    <3> QED BY <3>2, <3>3
  <2>5. PICK m \in adj[o.base + k - 1] : ArcIn(splitMap, m) = w[p + k + 1]
    BY <1>7, <2>1, <2>3
  <2> QED BY <1>6, <1>9, <2>1, <2>4, <2>5 DEF LeadsOn
<1> QED BY <1>8, <1>9

-----------------------------------------------------------------------------
\* What every split leaves behind: arcs keep all their turns; a copy is reached
\* along its chain only, and leads everywhere but where the chain forbids.
THEOREM SplitsInvariant == Spec => []IInv
<1>1. Init => IInv
  <2> SUFFICES ASSUME Init PROVE IInv
    OBVIOUS
  <2> QED BY InitIsTyped, InitDoesAsAsked DEF IInv
<1>2. IInv /\ [Next]_vars => IInv'
  <2> SUFFICES ASSUME IInv, [Next]_vars PROVE IInv'
    OBVIOUS
  <2>1. TypeOK' /\ EdgesIn(splitMap, adj)'
    BY NextIsTyped DEF IInv
  <2>2. CASE Split
    BY <2>1, <2>2, SplitStep DEF IInv
  <2>3. CASE SkipShort \/ SkipBroken \/ UNCHANGED vars
    <3>1. UNCHANGED <<adj, splitMap>>
      BY <2>3 DEF SkipShort, SkipBroken, vars
    <3>2. UNCHANGED done \/ \E outcome \in {"short", "broken"} : Handle(outcome)
      BY <2>3 DEF SkipShort, SkipBroken, vars
    <3> QED BY <2>1, <3>1, <3>2, SkipStep DEF IInv
  <2> QED BY <2>2, <2>3 DEF Next, Finished
<1> QED BY <1>1, <1>2, PTL DEF Spec

\* apply_node_splits loses no drive that the chains allow, for any road graph
\* and any list of chains: however they share arcs, whatever was cloned from
\* arcs already redirected, and for walks of any length.
THEOREM NoLegalWalkLost == Spec => []LegalWalksSurvive
BY SplitsInvariant, LegalWalksAreDriven, PTL

\* and it makes every chain binding whose first arc had no copy before.
THEOREM AppliedChainsBind == Spec => []ChainsBindUnlessCopied
BY SplitsInvariant, ChainsBind, PTL
=============================================================================
