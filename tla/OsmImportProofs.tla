--------------------------- MODULE OsmImportProofs ---------------------------
(***************************************************************************)
(* From the bytes of a PBF file to the graph, for every file and every     *)
(* schedule of its threads.  Every entity is called back for once: what    *)
(* was delivered, what is pending and what the blocks ahead will give is   *)
(* the file up to where the decompressor stands.  Speeds are usable        *)
(* whatever the tags say.  The ids in use, the positions, the arcs and the *)
(* restrictions are those of what was met so far, and nodes are met before *)
(* ways, so the arcs follow the ways and forbidden turns are asked for.    *)
(* The readers below keep their promise for every block size and stream:   *)
(* the inductive invariant, and the refinement of ByteStream by            *)
(* AsyncReader.                                                            *)
(***************************************************************************)
EXTENDS OsmImport, AsyncReader, SequenceTheorems, FiniteSetTheorems, WellFoundedInduction, TLAPS

(* Least members: a descending chain of numbers is one of finite sets.     *)
LEMMA NatHasLeast == \A S \in SUBSET Nat : S # {} => \E x \in S : \A y \in S : x <= y
<1> SUFFICES ASSUME NEW S \in SUBSET Nat, S # {} PROVE \E x \in S : \A y \in S : x <= y
  OBVIOUS
<1> DEFINE T == {1 .. n : n \in S}
<1>1. T \subseteq FiniteSubsetsOf(Nat) /\ T # {}
  <2>1. \A n \in S : 1 .. n \subseteq Nat /\ IsFiniteSet(1 .. n)
    BY FS_Interval
  <2> QED
    BY <2>1 DEF FiniteSubsetsOf
<1>2. PICK t \in T : \A u \in T : <<u, t>> \notin StrictSubsetOrdering(Nat)
  <2> HIDE DEF T
  <2> QED BY <1>1, WFMin, FS_StrictSubsetOrderingWellFounded
<1>3. PICK x \in S : t = 1 .. x
  BY <1>2
<1>4. \A y \in S : ~ (y < x)
  <2> SUFFICES ASSUME NEW y \in S, y < x PROVE FALSE
    OBVIOUS
  <2>1. 1 .. y \subseteq 1 .. x /\ x \in 1 .. x /\ x \notin 1 .. y
    OBVIOUS
  <2>2. 1 .. y \in SUBSET Nat /\ 1 .. x \in SUBSET Nat
    OBVIOUS
  <2>3. <<1 .. y, t>> \in StrictSubsetOrdering(Nat)
    BY <2>1, <2>2, <1>3 DEF StrictSubsetOrdering
  <2> QED
    BY <1>2, <2>3
<1> QED
  BY <1>4

LEMMA InductionOnNat ==
  ASSUME NEW S, 0 \in S, \A k \in Nat : k \in S => k + 1 \in S
  PROVE  Nat \subseteq S
<1> DEFINE T == Nat \ S
<1>1. SUFFICES ASSUME T # {} PROVE FALSE
  OBVIOUS
<1>2. PICK k \in T : \A j \in T : k <= j
  BY <1>1, NatHasLeast
<1>3. k \in Nat /\ k # 0 /\ k - 1 \in Nat /\ (k - 1) + 1 = k
  BY <1>2
<1>4. k - 1 \in S
  BY <1>2, <1>3
<1> QED BY <1>2, <1>3, <1>4

-----------------------------------------------------------------------------
(* FlattenSeq is defined by a recursion over the positions.                *)
Linked(s, t) == s \o t
Flats(f, ss, n) == f = [i \in 1 .. n |-> IF i = 1 THEN ss[i] ELSE Linked(f[i - 1], ss[i])]

LEMMA FlatsExist == ASSUME NEW ss PROVE \A n \in Nat : \E f : Flats(f, ss, n)
<1> DEFINE T == {n \in Nat : \E f : Flats(f, ss, n)}
<1>1. 0 \in T
  <2> DEFINE f == [i \in 1 .. 0 |-> i]
  <2>1. f = [i \in 1 .. 0 |-> IF i = 1 THEN ss[i] ELSE Linked(f[i - 1], ss[i])]
    <3>1. \A i : i \notin 1 .. 0
      OBVIOUS
    <3> QED BY <3>1
  <2> HIDE DEF f
  <2> QED BY <2>1 DEF Flats
<1>2. ASSUME NEW n \in Nat, n \in T PROVE n + 1 \in T
  <2>1. PICK f : Flats(f, ss, n)
    BY <1>2
  <2> DEFINE g == [i \in 1 .. n + 1 |-> IF i = 1 THEN ss[i] ELSE Linked(f[i - 1], ss[i])]
  <2>2. \A i \in 1 .. n : f[i] = g[i]
    <3>1. \A i \in 1 .. n : f[i] = IF i = 1 THEN ss[i] ELSE Linked(f[i - 1], ss[i])
      BY <2>1 DEF Flats
    <3>2. \A i \in 1 .. n : i \in 1 .. n + 1
      OBVIOUS
    <3> QED BY <3>1, <3>2
  <2>3. \A i \in 1 .. n + 1 : i # 1 => f[i - 1] = g[i - 1]
    <3>1. \A i \in 1 .. n + 1 : i # 1 => i - 1 \in 1 .. n
      OBVIOUS
    <3> HIDE DEF g
    <3> QED BY <2>2, <3>1
  <2>4. g = [i \in 1 .. n + 1 |-> IF i = 1 THEN ss[i] ELSE Linked(g[i - 1], ss[i])]
    BY <2>3
  <2> HIDE DEF g
  <2>5. Flats(g, ss, n + 1)
    BY <2>4, Zenon DEF Flats
  <2>6. n + 1 \in Nat
    OBVIOUS
  <2> QED BY <2>5, <2>6
<1> HIDE DEF T
<1>3. Nat \subseteq T
  BY <1>1, <1>2, InductionOnNat
<1> QED BY <1>3 DEF T

LEMMA FlatsAt ==
  ASSUME NEW f, NEW ss, NEW n \in Nat, Flats(f, ss, n)
  PROVE  \A i \in 1 .. n : f[i] = IF i = 1 THEN ss[i] ELSE Linked(f[i - 1], ss[i])
BY DEF Flats

LEMMA FlatsFirst ==
  ASSUME NEW f, NEW ss, NEW n \in Nat, Flats(f, ss, n), 1 \in 1 .. n
  PROVE  f[1] = ss[1]
BY FlatsAt

LEMMA FlatsNext ==
  ASSUME NEW f, NEW ss, NEW n \in Nat, Flats(f, ss, n), NEW i \in 1 .. n, NEW j, i # 1, j = i - 1
  PROVE  f[i] = Linked(f[j], ss[i])
BY FlatsAt

LEMMA FlattenIs ==
  ASSUME NEW ss, Len(ss) \in Nat, Len(ss) # 0
  PROVE  \E f : Flats(f, ss, Len(ss)) /\ FlattenSeq(ss) = f[Len(ss)]
<1> DEFINE f == CHOOSE g : Flats(g, ss, Len(ss))
<1>1. Flats(f, ss, Len(ss))
  BY FlatsExist
<1>2. FlattenSeq(ss) = f[Len(ss)]
  BY DEF FlattenSeq, Flats, Linked
<1> HIDE DEF f
<1> QED BY <1>1, <1>2

LEMMA FlatsAgree ==
  ASSUME NEW f, NEW g, NEW ss, NEW tt, NEW n \in Nat, NEW m \in Nat, Flats(f, ss, n), Flats(g, tt, m),
         n <= m, \A i \in 1 .. n : ss[i] = tt[i]
  PROVE  \A i \in 1 .. n : f[i] = g[i]
<1> DEFINE T == {k \in Nat : k + 1 \in 1 .. n => f[k + 1] = g[k + 1]}
<1>1. 0 \in T
  <2> SUFFICES ASSUME 1 <= n PROVE f[1] = g[1]
    OBVIOUS
  <2>1. 1 \in 1 .. n /\ 1 \in 1 .. m
    OBVIOUS
  <2>2. f[1] = ss[1]
    BY <2>1, FlatsFirst
  <2>3. g[1] = tt[1]
    BY <2>1, FlatsFirst
  <2> QED BY <2>1, <2>2, <2>3
<1>2. ASSUME NEW k \in Nat, k \in T PROVE k + 1 \in T
  <2> SUFFICES ASSUME (k + 1) + 1 \in 1 .. n PROVE f[(k + 1) + 1] = g[(k + 1) + 1]
    OBVIOUS
  <2>1. PICK l, j : l = (k + 1) + 1 /\ j = k + 1
    OBVIOUS
  <2>2. l \in 1 .. n /\ l \in 1 .. m /\ l # 1 /\ j = l - 1 /\ ss[l] = tt[l]
    BY <2>1
  <2>3. f[j] = g[j]
    BY <1>2, <2>1
  <2>4. f[l] = Linked(f[j], ss[l])
    BY <2>2, FlatsNext
  <2>5. g[l] = Linked(g[j], tt[l])
    BY <2>2, FlatsNext
  <2> QED BY <2>1, <2>2, <2>3, <2>4, <2>5
<1> HIDE DEF T
<1>3. Nat \subseteq T
  BY <1>1, <1>2, InductionOnNat
<1>4. \A i \in 1 .. n : i - 1 \in Nat /\ (i - 1) + 1 = i
  OBVIOUS
<1> QED BY <1>3, <1>4 DEF T

LEMMA FlattenNone == FlattenSeq(<<>>) = <<>>
BY DEF FlattenSeq

\* One sequence more at the end.
LEMMA FlattenMore ==
  ASSUME NEW S, NEW ss \in Seq(Seq(S)), NEW x \in Seq(S)
  PROVE  FlattenSeq(ss) \in Seq(S) => FlattenSeq(Append(ss, x)) = FlattenSeq(ss) \o x
<1> DEFINE n == Len(ss)
           tt == Append(ss, x)
<1>1. n \in Nat /\ tt \in Seq(Seq(S)) /\ Len(tt) = n + 1 /\ tt[n + 1] = x /\ \A i \in 1 .. n : ss[i] = tt[i]
  OBVIOUS
<1> HIDE DEF tt
<1>2. PICK g : Flats(g, tt, n + 1) /\ FlattenSeq(tt) = g[n + 1]
  BY <1>1, FlattenIs
<1>3. CASE n = 0
  <2>1. ss = <<>>
    BY <1>3
  <2>2. g[1] = tt[1]
    <3>1. n + 1 \in Nat /\ 1 \in 1 .. n + 1
      BY <1>1
    <3> HIDE DEF n
    <3> QED BY <1>2, <3>1, FlatsFirst
  <2>3. <<>> \o x = x
    OBVIOUS
  <2> QED BY <1>1, <1>2, <1>3, <2>1, <2>2, <2>3, FlattenNone DEF tt
<1>4. CASE n # 0
  <2>1. PICK f : Flats(f, ss, n) /\ FlattenSeq(ss) = f[n]
    BY <1>1, <1>4, FlattenIs
  <2>2. f[n] = g[n]
    <3>1. n \in Nat /\ n + 1 \in Nat /\ n <= n + 1 /\ n \in 1 .. n
      BY <1>1, <1>4
    <3>2. \A i \in 1 .. n : ss[i] = tt[i]
      BY <1>1
    <3> HIDE DEF n
    <3> QED BY <1>2, <2>1, <3>1, <3>2, FlatsAgree
  <2>3. n + 1 \in Nat /\ n + 1 \in 1 .. n + 1 /\ n + 1 # 1 /\ (n + 1) - 1 = n
    BY <1>1, <1>4
  <2>4. g[n + 1] = Linked(g[n], tt[n + 1])
    <3> HIDE DEF n
    <3> QED BY <1>2, <2>3, FlatsNext
  <2> QED BY <1>1, <1>2, <2>1, <2>2, <2>4 DEF tt, Linked
<1> QED BY <1>3, <1>4

LEMMA FrontAndLast ==
  ASSUME NEW S, NEW s \in Seq(S), s # <<>>
  PROVE  \E r \in Seq(S), x \in S : s = Append(r, x) /\ Len(r) + 1 = Len(s)
<1> DEFINE r == [i \in 1 .. Len(s) - 1 |-> s[i]]
<1>1. Len(s) \in Nat /\ Len(s) > 0 /\ s[Len(s)] \in S
  OBVIOUS
<1>2. r \in Seq(S) /\ Len(r) = Len(s) - 1
  BY <1>1
<1>3. s = Append(r, s[Len(s)])
  BY <1>1, <1>2
<1>4. Len(r) + 1 = Len(s)
  BY <1>1, <1>2
<1> HIDE DEF r
<1> QED BY <1>1, <1>2, <1>3, <1>4

LEMMA FlattenTypes == ASSUME NEW S, NEW ss \in Seq(Seq(S)) PROVE FlattenSeq(ss) \in Seq(S)
<1> DEFINE T == {n \in Nat : \A tt \in Seq(Seq(S)) : Len(tt) = n => FlattenSeq(tt) \in Seq(S)}
<1>1. 0 \in T
  <2>1. \A tt \in Seq(Seq(S)) : Len(tt) = 0 => tt = <<>>
    OBVIOUS
  <2>2. <<>> \in Seq(S)
    OBVIOUS
  <2> QED BY <2>1, <2>2, FlattenNone
<1>2. ASSUME NEW n \in Nat, n \in T PROVE n + 1 \in T
  <2> SUFFICES ASSUME NEW tt \in Seq(Seq(S)), Len(tt) = n + 1 PROVE FlattenSeq(tt) \in Seq(S)
    OBVIOUS
  <2>1. tt # <<>>
    OBVIOUS
  <2>2. PICK r \in Seq(Seq(S)), x \in Seq(S) : tt = Append(r, x) /\ Len(r) + 1 = Len(tt)
    BY <2>1, FrontAndLast
  <2>3. Len(r) = n
    BY <2>2
  <2>4. FlattenSeq(r) \in Seq(S)
    BY <1>2, <2>3
  <2>5. FlattenSeq(tt) = FlattenSeq(r) \o x
    BY <2>2, <2>4, FlattenMore
  <2> QED BY <2>4, <2>5
<1> HIDE DEF T
<1>3. Nat \subseteq T
  BY <1>1, <1>2, InductionOnNat
<1> QED BY <1>3 DEF T

\* Flattening goes along with joining.
LEMMA FlattenJoins ==
  ASSUME NEW S, NEW ss \in Seq(Seq(S)), NEW tt \in Seq(Seq(S))
  PROVE  FlattenSeq(ss \o tt) = FlattenSeq(ss) \o FlattenSeq(tt)
<1> DEFINE T == {n \in Nat : \A uu \in Seq(Seq(S)) : Len(uu) = n => FlattenSeq(ss \o uu) = FlattenSeq(ss) \o FlattenSeq(uu)}
<1>0. FlattenSeq(ss) \in Seq(S)
  BY FlattenTypes
<1>1. 0 \in T
  <2>1. \A uu \in Seq(Seq(S)) : Len(uu) = 0 => uu = <<>>
    OBVIOUS
  <2>2. ss \o <<>> = ss /\ FlattenSeq(ss) \o <<>> = FlattenSeq(ss)
    BY <1>0
  <2> QED BY <2>1, <2>2, FlattenNone
<1>2. ASSUME NEW n \in Nat, n \in T PROVE n + 1 \in T
  <2> SUFFICES ASSUME NEW uu \in Seq(Seq(S)), Len(uu) = n + 1
               PROVE  FlattenSeq(ss \o uu) = FlattenSeq(ss) \o FlattenSeq(uu)
    OBVIOUS
  <2>1. uu # <<>>
    OBVIOUS
  <2>2. PICK r \in Seq(Seq(S)), x \in Seq(S) : uu = Append(r, x) /\ Len(r) + 1 = Len(uu)
    BY <2>1, FrontAndLast
  <2>3. FlattenSeq(ss \o r) = FlattenSeq(ss) \o FlattenSeq(r)
    BY <1>2, <2>2
  <2>4. FlattenSeq(r) \in Seq(S) /\ FlattenSeq(ss \o r) \in Seq(S) /\ ss \o r \in Seq(Seq(S))
    <3>1. ss \o r \in Seq(Seq(S))
      OBVIOUS
    <3> QED BY <3>1, FlattenTypes
  <2>5. ss \o uu = Append(ss \o r, x)
    BY <2>2
  <2>6. FlattenSeq(ss \o uu) = FlattenSeq(ss \o r) \o x /\ FlattenSeq(uu) = FlattenSeq(r) \o x
    BY <2>2, <2>4, <2>5, FlattenMore
  <2>7. (FlattenSeq(ss) \o FlattenSeq(r)) \o x = FlattenSeq(ss) \o (FlattenSeq(r) \o x)
    BY <1>0, <2>4
  <2> QED BY <2>3, <2>6, <2>7
<1> HIDE DEF T
<1>3. Nat \subseteq T
  BY <1>1, <1>2, InductionOnNat
<1>4. Len(tt) \in Nat
  OBVIOUS
<1> QED BY <1>3, <1>4 DEF T

LEMMA FlattenOne == ASSUME NEW S, NEW x \in Seq(S) PROVE FlattenSeq(<<x>>) = x
<1>1. <<>> \in Seq(Seq(S)) /\ <<>> \in Seq(S) /\ Append(<<>>, x) = <<x>> /\ <<>> \o x = x
  OBVIOUS
<1>2. FlattenSeq(Append(<<>>, x)) = FlattenSeq(<<>>) \o x
  BY <1>1, FlattenNone, FlattenMore
<1> QED BY <1>1, <1>2, FlattenNone

LEMMA FlattenEmpties ==
  ASSUME NEW S, NEW ss \in Seq(Seq(S)), \A i \in 1 .. Len(ss) : ss[i] = <<>>
  PROVE  FlattenSeq(ss) = <<>>
<1> DEFINE T == {n \in Nat : \A uu \in Seq(Seq(S)) : Len(uu) = n /\ (\A j \in 1 .. n : uu[j] = <<>>) => FlattenSeq(uu) = <<>>}
<1>1. 0 \in T
  <2>1. \A uu \in Seq(Seq(S)) : Len(uu) = 0 => uu = <<>>
    OBVIOUS
  <2> QED BY <2>1, FlattenNone
<1>2. ASSUME NEW n \in Nat, n \in T PROVE n + 1 \in T
  <2> SUFFICES ASSUME NEW uu \in Seq(Seq(S)), Len(uu) = n + 1, \A j \in 1 .. n + 1 : uu[j] = <<>>
               PROVE  FlattenSeq(uu) = <<>>
    OBVIOUS
  <2>1. uu # <<>>
    OBVIOUS
  <2>2. PICK r \in Seq(Seq(S)), y \in Seq(S) : uu = Append(r, y) /\ Len(r) + 1 = Len(uu)
    BY <2>1, FrontAndLast
  <2>3. Len(r) = n /\ (\A k \in 1 .. n : uu[k] = r[k]) /\ uu[n + 1] = y
    BY <2>2
  <2>4. FlattenSeq(uu) = FlattenSeq(r) \o y
    BY <2>2, FlattenMore, FlattenTypes
  <2>5. y = <<>>
    BY <2>3
  <2>6. FlattenSeq(r) = <<>>
    BY <1>2, <2>3
  <2>7. <<>> \o <<>> = <<>>
    OBVIOUS
  <2> QED BY <2>4, <2>5, <2>6, <2>7
<1> HIDE DEF T
<1>3. Nat \subseteq T
  BY <1>1, <1>2, InductionOnNat
<1>4. Len(ss) \in Nat
  OBVIOUS
<1> QED BY <1>3, <1>4 DEF T

\* Flattening loses nothing.
Within(x, s) == \E i \in 1 .. Len(s) : s[i] = x
LEMMA WithinJoined ==
  ASSUME NEW S, NEW s \in Seq(S), NEW t \in Seq(S), NEW x, Within(x, s) \/ Within(x, t)
  PROVE  Within(x, s \o t)
<1> PICK u : u = s \o t
  OBVIOUS
<1>1. /\ Len(u) = Len(s) + Len(t) /\ Len(s) \in Nat /\ Len(t) \in Nat
      /\ \A i \in 1 .. Len(s) : u[i] = s[i]
      /\ \A i \in 1 .. Len(t) : u[Len(s) + i] = t[i]
  OBVIOUS
<1>2. CASE Within(x, s)
  <2>1. PICK i \in 1 .. Len(s) : s[i] = x
    BY <1>2 DEF Within
  <2>2. i \in 1 .. Len(u)
    BY <1>1
  <2> QED BY <1>1, <2>1, <2>2 DEF Within
<1>3. CASE Within(x, t)
  <2>1. PICK i \in 1 .. Len(t) : t[i] = x
    BY <1>3 DEF Within
  <2>2. Len(s) + i \in 1 .. Len(u)
    BY <1>1
  <2> QED BY <1>1, <2>1, <2>2 DEF Within
<1> QED BY <1>2, <1>3

LEMMA FlattenKeeps ==
  ASSUME NEW S, NEW ss \in Seq(Seq(S)), NEW i \in 1 .. Len(ss), NEW x, Within(x, ss[i])
  PROVE  Within(x, FlattenSeq(ss))
<1> DEFINE T == {n \in Nat : \A uu \in Seq(Seq(S)) : Len(uu) = n => \A j \in 1 .. n : Within(x, uu[j]) => Within(x, FlattenSeq(uu))}
<1>1. 0 \in T
  OBVIOUS
<1>2. ASSUME NEW n \in Nat, n \in T PROVE n + 1 \in T
  <2> SUFFICES ASSUME NEW uu \in Seq(Seq(S)), Len(uu) = n + 1, NEW j \in 1 .. n + 1, Within(x, uu[j])
               PROVE  Within(x, FlattenSeq(uu))
    OBVIOUS
  <2>1. uu # <<>>
    OBVIOUS
  <2>2. PICK r \in Seq(Seq(S)), y \in Seq(S) : uu = Append(r, y) /\ Len(r) + 1 = Len(uu)
    BY <2>1, FrontAndLast
  <2>3. Len(r) = n /\ (\A k \in 1 .. n : uu[k] = r[k]) /\ uu[n + 1] = y
    BY <2>2
  <2>4. FlattenSeq(uu) = FlattenSeq(r) \o y /\ FlattenSeq(r) \in Seq(S)
    BY <2>2, FlattenMore, FlattenTypes
  <2>5. CASE j = n + 1
    BY <2>3, <2>4, <2>5, WithinJoined
  <2>6. CASE j # n + 1
    <3>1. j \in 1 .. n
      BY <2>6
    <3>2. Within(x, FlattenSeq(r))
      BY <1>2, <2>3, <3>1
    <3> QED BY <2>4, <3>2, WithinJoined
  <2> QED BY <2>5, <2>6
<1> HIDE DEF T
<1>3. Nat \subseteq T
  BY <1>1, <1>2, InductionOnNat
<1>4. Len(ss) \in Nat
  OBVIOUS
<1> QED BY <1>3, <1>4 DEF T

-----------------------------------------------------------------------------
(* The entities of one kind.                                               *)
Parts(s, kind) == [i \in DOMAIN s |-> IF s[i].kind = kind THEN <<s[i]>> ELSE <<>>]
LEMMA PartsTypes ==
  ASSUME NEW S, NEW s \in Seq(S), NEW kind
  PROVE  Parts(s, kind) \in Seq(Seq(S)) /\ Len(Parts(s, kind)) = Len(s)
<1>1. \A x \in S : <<x>> \in Seq(S)
  OBVIOUS
<1>2. <<>> \in Seq(S)
  OBVIOUS
<1>3. DOMAIN s = 1 .. Len(s) /\ \A i \in 1 .. Len(s) : s[i] \in S
  OBVIOUS
<1>4. \A i \in 1 .. Len(s) : (IF s[i].kind = kind THEN <<s[i]>> ELSE <<>>) \in Seq(S)
  BY <1>1, <1>2, <1>3
<1> DEFINE p == [i \in 1 .. Len(s) |-> IF s[i].kind = kind THEN <<s[i]>> ELSE <<>>]
<1>5. p \in [1 .. Len(s) -> Seq(S)]
  BY <1>4
<1>6. p = Parts(s, kind)
  BY <1>3 DEF Parts
<1> HIDE DEF p
<1>7. p \in Seq(Seq(S)) /\ Len(p) = Len(s)
  BY <1>5
<1> QED BY <1>6, <1>7

LEMMA OfKindIs == ASSUME NEW s, NEW kind PROVE OfKind(s, kind) = FlattenSeq(Parts(s, kind))
BY DEF OfKind, Parts

LEMMA OfKindTypes == ASSUME NEW S, NEW s \in Seq(S), NEW kind PROVE OfKind(s, kind) \in Seq(S)
BY PartsTypes, FlattenTypes, OfKindIs

LEMMA PartsJoin ==
  ASSUME NEW S, NEW s \in Seq(S), NEW t \in Seq(S), NEW kind
  PROVE  Parts(s \o t, kind) = Parts(s, kind) \o Parts(t, kind)
<1> DEFINE st == s \o t
           p == Parts(s, kind)
           q == Parts(t, kind)
           r == Parts(st, kind)
<1>1. st \in Seq(S) /\ Len(st) = Len(s) + Len(t) /\ Len(s) \in Nat /\ Len(t) \in Nat
  OBVIOUS
<1>2. /\ \A i \in 1 .. Len(s) : st[i] = s[i]
      /\ \A i \in 1 .. Len(t) : st[Len(s) + i] = t[i]
  OBVIOUS
<1>3. \A u \in Seq(S) : \A i \in 1 .. Len(u) : Parts(u, kind)[i] = IF u[i].kind = kind THEN <<u[i]>> ELSE <<>>
  <2>1. \A u \in Seq(S) : DOMAIN u = 1 .. Len(u)
    OBVIOUS
  <2> QED BY <2>1 DEF Parts
<1>4. p \in Seq(Seq(S)) /\ q \in Seq(Seq(S)) /\ r \in Seq(Seq(S)) /\ Len(p) = Len(s) /\ Len(q) = Len(t) /\ Len(r) = Len(st)
  BY <1>1, PartsTypes
<1> HIDE DEF st, p, q, r
<1>5. \A i \in 1 .. Len(s) : r[i] = p[i]
  <2> TAKE i \in 1 .. Len(s)
  <2>1. i \in 1 .. Len(st) /\ st[i] = s[i]
    BY <1>1, <1>2
  <2> QED BY <1>1, <1>3, <2>1 DEF p, r
<1>6. \A i \in 1 .. Len(t) : r[Len(s) + i] = q[i]
  <2> TAKE i \in 1 .. Len(t)
  <2>1. Len(s) + i \in 1 .. Len(st) /\ st[Len(s) + i] = t[i]
    BY <1>1, <1>2
  <2> QED BY <1>1, <1>3, <2>1 DEF q, r
<1>7. r = p \o q
  <2> PICK pq : pq = p \o q
    OBVIOUS
  <2>1. pq \in Seq(Seq(S)) /\ Len(pq) = Len(st)
    BY <1>1, <1>4
  <2>2. \A i \in 1 .. Len(st) : r[i] = pq[i]
    <3> TAKE i \in 1 .. Len(st)
    <3>1. CASE i <= Len(s)
      <4>1. i \in 1 .. Len(s)
        BY <1>1, <3>1
      <4>2. pq[i] = p[i]
        BY <1>4, <4>1
      <4> QED BY <1>5, <4>1, <4>2
    <3>2. CASE i > Len(s)
      <4>1. PICK j : j = i - Len(s)
        OBVIOUS
      <4>2. j \in 1 .. Len(t) /\ i = Len(s) + j
        BY <1>1, <3>2, <4>1
      <4>3. pq[i] = q[j]
        BY <1>4, <4>2
      <4> QED BY <1>6, <4>2, <4>3
    <3>3. i <= Len(s) \/ i > Len(s)
      BY <1>1
    <3> QED BY <3>1, <3>2, <3>3, Zenon
  <2>3. pq = r
    <3>1. Len(pq) = Len(r) /\ \A i \in 1 .. Len(r) : pq[i] = r[i]
      BY <1>4, <2>1, <2>2
    <3> QED BY <1>4, <2>1, <3>1, SeqEqual
  <2> QED BY <2>3
<1> QED BY <1>7 DEF p, q, r, st

LEMMA OfKindJoins ==
  ASSUME NEW S, NEW s \in Seq(S), NEW t \in Seq(S), NEW kind
  PROVE  OfKind(s \o t, kind) = OfKind(s, kind) \o OfKind(t, kind)
<1>1. Parts(s, kind) \in Seq(Seq(S)) /\ Parts(t, kind) \in Seq(Seq(S))
  BY PartsTypes
<1>2. FlattenSeq(Parts(s, kind) \o Parts(t, kind)) = FlattenSeq(Parts(s, kind)) \o FlattenSeq(Parts(t, kind))
  BY <1>1, FlattenJoins
<1>3. Parts(s \o t, kind) = Parts(s, kind) \o Parts(t, kind)
  BY PartsJoin
<1> QED BY <1>2, <1>3, OfKindIs

LEMMA OfKindOne ==
  ASSUME NEW S, NEW x \in S, NEW kind
  PROVE  OfKind(<<x>>, kind) = IF x.kind = kind THEN <<x>> ELSE <<>>
<1> DEFINE y == IF x.kind = kind THEN <<x>> ELSE <<>>
<1>1. y \in Seq(S)
  OBVIOUS
<1>2. Parts(<<x>>, kind) = <<y>>
  BY DEF Parts
<1> HIDE DEF y
<1>3. OfKind(<<x>>, kind) = y
  BY <1>1, <1>2, FlattenOne, OfKindIs
<1> QED BY <1>3 DEF y

LEMMA OfKindNone == ASSUME NEW kind PROVE OfKind(<<>>, kind) = <<>>
<1>1. Parts(<<>>, kind) = <<>>
  BY DEF Parts
<1> QED BY <1>1, FlattenNone, OfKindIs

Extends(b, a, y) == Len(b) = Len(a) + 1 /\ b[Len(a) + 1] = y /\ \A i \in 1 .. Len(a) : b[i] = a[i]
LEMMA ExtendsIs ==
  ASSUME NEW S, NEW a \in Seq(S), NEW b \in Seq(S), NEW y \in S, Extends(b, a, y)
  PROVE  b = Append(a, y)
<1>1. PICK c, k : c = Append(a, y) /\ k = Len(a)
  OBVIOUS
<1>2. k \in Nat /\ c \in Seq(S) /\ Len(c) = k + 1 /\ c[k + 1] = y /\ \A i \in 1 .. k : c[i] = a[i]
  BY <1>1
<1>3. Len(b) = k + 1 /\ b[k + 1] = y /\ \A i \in 1 .. k : b[i] = a[i]
  BY <1>1 DEF Extends
<1>4. \A i \in 1 .. k + 1 : i \in 1 .. k \/ i = k + 1
  BY <1>2
<1>5. \A i \in 1 .. Len(b) : b[i] = c[i]
  BY <1>2, <1>3, <1>4
<1> QED BY <1>1, <1>2, <1>3, <1>5, SeqEqual

\* The entities of one kind among those of several sequences.
LEMMA OfKindOfMany ==
  ASSUME NEW S, NEW ss \in Seq(Seq(S)), NEW kind
  PROVE  OfKind(FlattenSeq(ss), kind) = FlattenSeq([i \in 1 .. Len(ss) |-> OfKind(ss[i], kind)])
<1> DEFINE Each(uu) == [i \in 1 .. Len(uu) |-> OfKind(uu[i], kind)]
           T == {n \in Nat : \A uu \in Seq(Seq(S)) : Len(uu) = n => OfKind(FlattenSeq(uu), kind) = FlattenSeq(Each(uu))}
<1>0. \A uu \in Seq(Seq(S)) : Each(uu) \in Seq(Seq(S)) /\ Len(Each(uu)) = Len(uu)
  <2> TAKE uu \in Seq(Seq(S))
  <2>1. Len(uu) \in Nat /\ \A i \in 1 .. Len(uu) : uu[i] \in Seq(S)
    OBVIOUS
  <2>2. \A i \in 1 .. Len(uu) : OfKind(uu[i], kind) \in Seq(S)
    BY <2>1, OfKindTypes
  <2> QED BY <2>1, <2>2
<1>1. 0 \in T
  <2>1. \A uu \in Seq(Seq(S)) : Len(uu) = 0 => uu = <<>> /\ Each(uu) = <<>>
    BY <1>0
  <2> QED BY <2>1, FlattenNone, OfKindNone
<1>2. ASSUME NEW n \in Nat, n \in T PROVE n + 1 \in T
  <2> SUFFICES ASSUME NEW uu \in Seq(Seq(S)), Len(uu) = n + 1
               PROVE  OfKind(FlattenSeq(uu), kind) = FlattenSeq(Each(uu))
    OBVIOUS
  <2>1. uu # <<>>
    OBVIOUS
  <2>2. PICK r \in Seq(Seq(S)), x \in Seq(S) : uu = Append(r, x) /\ Len(r) + 1 = Len(uu)
    BY <2>1, FrontAndLast
  <2>3. OfKind(FlattenSeq(r), kind) = FlattenSeq(Each(r))
    <3>1. Len(r) = n
      BY <2>2
    <3> HIDE DEF Each
    <3> QED BY <1>2, <3>1
  <2>4. FlattenSeq(uu) = FlattenSeq(r) \o x /\ FlattenSeq(r) \in Seq(S)
    BY <2>2, FlattenMore, FlattenTypes
  <2>5. OfKind(FlattenSeq(uu), kind) = OfKind(FlattenSeq(r), kind) \o OfKind(x, kind)
    <3>1. PICK s \in Seq(S) : s = FlattenSeq(r)
      BY <2>4, Zenon
    <3> HIDE DEF Each, T
    <3>2. OfKind(s \o x, kind) = OfKind(s, kind) \o OfKind(x, kind)
      <4>1. s \in Seq(S) /\ x \in Seq(S)
        OBVIOUS
      <4> QED BY <4>1, OfKindJoins
    <3> QED BY <2>4, <3>1, <3>2, Zenon
  <2>6. Each(uu) = Append(Each(r), OfKind(x, kind))
    <3>1. \A i \in 1 .. Len(r) : uu[i] = r[i]
      BY <2>2
    <3>2. uu[Len(r) + 1] = x /\ Len(r) \in Nat
      BY <2>2
    <3>3. Len(Each(r)) = Len(r) /\ Each(r) \in Seq(Seq(S)) /\ Len(Each(uu)) = Len(uu) /\ Each(uu) \in Seq(Seq(S))
      BY <1>0
    <3>4. \A i \in 1 .. Len(r) : Each(uu)[i] = Each(r)[i]
      BY <2>2, <3>1, <3>2
    <3>5. Each(uu)[Len(r) + 1] = OfKind(x, kind)
      BY <2>2, <3>2
    <3>6. OfKind(x, kind) \in Seq(S)
      BY OfKindTypes
    <3> HIDE DEF Each, T
    <3>7. PICK a, b, y, k : a = Each(r) /\ b = Each(uu) /\ y = OfKind(x, kind) /\ k = Len(r)
      OBVIOUS
    <3>8. a \in Seq(Seq(S)) /\ b \in Seq(Seq(S)) /\ y \in Seq(S) /\ Extends(b, a, y)
      BY <2>2, <3>2, <3>3, <3>4, <3>5, <3>6, <3>7 DEF Extends
    <3>9. b = Append(a, y)
      BY <3>8, ExtendsIs
    <3> QED BY <3>7, <3>9
  <2>7. FlattenSeq(Each(uu)) = FlattenSeq(Each(r)) \o OfKind(x, kind)
    <3>1. OfKind(x, kind) \in Seq(S) /\ Each(r) \in Seq(Seq(S))
      BY <1>0, OfKindTypes
    <3> HIDE DEF Each
    <3>2. FlattenSeq(Each(r)) \in Seq(S)
      BY <3>1, FlattenTypes
    <3> QED BY <2>6, <3>1, <3>2, FlattenMore
  <2> QED BY <2>3, <2>5, <2>7
<1> HIDE DEF T
<1>3. Nat \subseteq T
  BY <1>1, <1>2, InductionOnNat
<1>4. Len(ss) \in Nat
  OBVIOUS
<1> QED BY <1>3, <1>4 DEF T

LEMMA OfKindAll ==
  ASSUME NEW S, NEW s \in Seq(S), NEW kind, \A i \in 1 .. Len(s) : s[i].kind = kind
  PROVE  OfKind(s, kind) = s
<1> DEFINE T == {n \in Nat : \A u \in Seq(S) : Len(u) = n /\ (\A i \in 1 .. Len(u) : u[i].kind = kind) => OfKind(u, kind) = u}
<1>1. 0 \in T
  <2>1. \A u \in Seq(S) : Len(u) = 0 => u = <<>>
    OBVIOUS
  <2> QED BY <2>1, OfKindNone
<1>2. ASSUME NEW n \in Nat, n \in T PROVE n + 1 \in T
  <2> SUFFICES ASSUME NEW u \in Seq(S), Len(u) = n + 1, \A i \in 1 .. Len(u) : u[i].kind = kind
               PROVE  OfKind(u, kind) = u
    OBVIOUS
  <2>1. u # <<>>
    OBVIOUS
  <2>2. PICK r \in Seq(S), x \in S : u = Append(r, x) /\ Len(r) + 1 = Len(u)
    BY <2>1, FrontAndLast
  <2>3. Len(r) = n /\ (\A i \in 1 .. Len(r) : u[i] = r[i]) /\ u[n + 1] = x
    BY <2>2
  <2>4. (\A i \in 1 .. Len(r) : r[i].kind = kind) /\ x.kind = kind
    BY <2>3
  <2>5. OfKind(r, kind) = r /\ OfKind(<<x>>, kind) = <<x>>
    BY <1>2, <2>3, <2>4, OfKindOne
  <2>6. PICK y : y = <<x>>
    OBVIOUS
  <2>7. y \in Seq(S) /\ u = r \o y
    BY <2>2, <2>6
  <2>8. OfKind(u, kind) = OfKind(r, kind) \o OfKind(y, kind)
    BY <2>7, OfKindJoins
  <2> QED BY <2>5, <2>6, <2>7, <2>8
<1> HIDE DEF T
<1>3. Nat \subseteq T
  BY <1>1, <1>2, InductionOnNat
<1>4. Len(s) \in Nat
  OBVIOUS
<1> QED BY <1>3, <1>4 DEF T

LEMMA OfKindOther ==
  ASSUME NEW S, NEW s \in Seq(S), NEW kind, \A i \in 1 .. Len(s) : s[i].kind # kind
  PROVE  OfKind(s, kind) = <<>>
<1>1. \A i \in 1 .. Len(Parts(s, kind)) : Parts(s, kind)[i] = <<>>
  <2>1. DOMAIN s = 1 .. Len(s)
    OBVIOUS
  <2>2. Len(Parts(s, kind)) = Len(s)
    BY PartsTypes
  <2> QED BY <2>1, <2>2 DEF Parts
<1> QED BY <1>1, PartsTypes, FlattenEmpties, OfKindIs

-----------------------------------------------------------------------------
(* Decoding a group gives entities of its kind, or an exception.           *)
LEMMA Tagging ==
  ASSUME NEW b, NEW g, NEW e
  PROVE  Tagged(b, g, e) = <<Throw>> \/ Tagged(b, g, e) = <<e>>
BY DEF Tagged

Gives(s, kind) == IsList(s) /\ \A i \in 1 .. Len(s) : s[i] = Throw \/ s[i].kind = kind
LEMMA OneGiven ==
  ASSUME NEW kind, NEW e, e = Throw \/ e.kind = kind
  PROVE  Gives(<<e>>, kind)
<1>1. ToSet(<<e>>) = {e}
  BY DEF ToSet
<1>2. <<e>> \in Seq({e}) /\ Len(<<e>>) = 1 /\ <<e>>[1] = e
  OBVIOUS
<1> QED BY <1>1, <1>2 DEF Gives, IsList

LEMMA ListGiven ==
  ASSUME NEW S, NEW s \in Seq(S), NEW kind, \A i \in 1 .. Len(s) : s[i] = Throw \/ s[i].kind = kind
  PROVE  Gives(s, kind)
<1>1. DOMAIN s = 1 .. Len(s) /\ Len(s) \in Nat
  OBVIOUS
<1>2. \A i \in 1 .. Len(s) : s[i] \in ToSet(s)
  BY <1>1 DEF ToSet
<1>3. s = [i \in 1 .. Len(s) |-> s[i]]
  BY <1>1
<1>4. s \in [1 .. Len(s) -> ToSet(s)]
  BY <1>2, <1>3
<1>5. s \in Seq(ToSet(s))
  BY <1>1, <1>4
<1> QED BY <1>5 DEF Gives, IsList

LEMMA GroupDecodes ==
  ASSUME NEW b, NEW g, g.kind \in Kinds \cup {"dense"},
         g.kind = "dense" => IsList(g.ids) /\ IsList(g.lats) /\ IsList(g.lons)
  PROVE  Gives(DecodeGroup(b, g), KindOf(g))
<1>1. CASE g.kind = "node"
  <2> PICK e : e = [kind |-> "node", id |-> g.id, tags |-> TagMap(b, g.keys, g.values),
                lat |-> b.latOffset + b.granularity * g.lat, lon |-> b.lonOffset + b.granularity * g.lon]
    OBVIOUS
  <2>1. DecodeGroup(b, g) = Tagged(b, g, e)
    BY <1>1 DEF DecodeGroup, DecodeSparseNode
  <2>2. e.kind = "node" /\ KindOf(g) = "node"
    BY <1>1 DEF KindOf
  <2> QED BY <2>1, <2>2, Tagging, OneGiven
<1>2. CASE g.kind = "way"
  <2> PICK e : e = [kind |-> "way", id |-> g.id, tags |-> TagMap(b, g.keys, g.values), nodes |-> RunningSums(g.refs)]
    OBVIOUS
  <2>1. DecodeGroup(b, g) = Tagged(b, g, e)
    BY <1>2 DEF DecodeGroup, DecodeWay
  <2>2. e.kind = "way" /\ KindOf(g) = "way"
    BY <1>2 DEF KindOf
  <2> QED BY <2>1, <2>2, Tagging, OneGiven
<1>3. CASE g.kind = "relation"
  <2>1. DecodeGroup(b, g) = DecodeRelation(b, g) /\ KindOf(g) = "relation"
    BY <1>3 DEF DecodeGroup, KindOf
  <2>2. \E members : \/ DecodeRelation(b, g) = <<Throw>>
                     \/ DecodeRelation(b, g) = Tagged(b, g, [kind |-> "relation", id |-> g.id, tags |-> TagMap(b, g.keys, g.values), members |-> members])
    BY DEF DecodeRelation
  <2>3. PICK members : \/ DecodeRelation(b, g) = <<Throw>>
                       \/ DecodeRelation(b, g) = Tagged(b, g, [kind |-> "relation", id |-> g.id, tags |-> TagMap(b, g.keys, g.values), members |-> members])
    BY <2>2
  <2> PICK e : e = [kind |-> "relation", id |-> g.id, tags |-> TagMap(b, g.keys, g.values), members |-> members]
    OBVIOUS
  <2>4. e.kind = "relation"
    OBVIOUS
  <2>5. DecodeGroup(b, g) = <<Throw>> \/ DecodeGroup(b, g) = <<e>>
    BY <2>1, <2>3, Tagging
  <2> QED BY <2>1, <2>4, <2>5, OneGiven
<1>4. CASE g.kind = "dense"
  <2>1. DecodeGroup(b, g) = DecodeDenseNodes(b, g) /\ KindOf(g) = "node"
    BY <1>4 DEF DecodeGroup, KindOf
  <2>2. Len(g.ids) \in Nat /\ Len(g.lats) \in Nat /\ Len(g.lons) \in Nat
    BY <1>4 DEF IsList
  <2>a. \E n \in Nat : \E I, A, O, N :
          /\ N = [i \in 1 .. n |-> [kind |-> "node", id |-> I[i], tags |-> <<>>, lat |-> A[i], lon |-> O[i]]]
          /\ DecodeDenseNodes(b, g) = N \/ DecodeDenseNodes(b, g) = Append(N, Throw)
    BY <2>2 DEF DecodeDenseNodes
  <2>b. PICK n \in Nat : \E I, A, O, N :
          /\ N = [i \in 1 .. n |-> [kind |-> "node", id |-> I[i], tags |-> <<>>, lat |-> A[i], lon |-> O[i]]]
          /\ DecodeDenseNodes(b, g) = N \/ DecodeDenseNodes(b, g) = Append(N, Throw)
    BY <2>a
  <2>3. PICK I, A, O, N :
          /\ N = [i \in 1 .. n |-> [kind |-> "node", id |-> I[i], tags |-> <<>>, lat |-> A[i], lon |-> O[i]]]
          /\ DecodeDenseNodes(b, g) = N \/ DecodeDenseNodes(b, g) = Append(N, Throw)
    BY <2>b
  <2>4. \A i \in 1 .. n : N[i].kind = "node"
    <3> TAKE i \in 1 .. n
    <3>1. N[i] = [kind |-> "node", id |-> I[i], tags |-> <<>>, lat |-> A[i], lon |-> O[i]]
      BY <2>3
    <3> QED BY <3>1
  <2> DEFINE S == {N[i] : i \in 1 .. n} \cup {Throw}
  <2>5. N \in Seq(S) /\ Len(N) = n
    <3>1. \A i \in 1 .. n : N[i] \in S
      OBVIOUS
    <3> HIDE DEF S
    <3>2. DOMAIN N = 1 .. n /\ N = [i \in 1 .. n |-> N[i]]
      BY <2>3
    <3>3. N \in [1 .. n -> S]
      BY <3>1, <3>2
    <3> QED BY <3>3
  <2>6. Throw \in S
    OBVIOUS
  <2> HIDE DEF S
  <2>7. CASE DecodeDenseNodes(b, g) = N
    BY <2>1, <2>4, <2>5, <2>7, ListGiven
  <2>8. CASE DecodeDenseNodes(b, g) = Append(N, Throw)
    <3> PICK M : M = Append(N, Throw)
      OBVIOUS
    <3>1. M \in Seq(S) /\ Len(M) = n + 1 /\ M[n + 1] = Throw /\ \A i \in 1 .. n : M[i] = N[i]
      BY <2>5, <2>6
    <3>2. \A i \in 1 .. Len(M) : M[i] = Throw \/ M[i].kind = "node"
      BY <2>4, <3>1
    <3>3. Gives(M, "node")
      BY <3>1, <3>2, ListGiven
    <3>4. DecodeGroup(b, g) = M
      BY <2>1, <2>8
    <3> QED BY <2>1, <3>3, <3>4
  <2> QED BY <2>3, <2>7, <2>8
<1> QED BY <1>1, <1>2, <1>3, <1>4 DEF Kinds

\* What the groups of a block give, as far as they are asked for.
Share(b, g, active) == IF KindOf(g) \in active THEN DecodeGroup(b, g) ELSE <<>>
Given(b, active) == [i \in DOMAIN b.groups |-> Share(b, b.groups[i], active)]

LEMMA GroupsGive ==
  ASSUME NEW f \in Files, NEW i \in DataIn(f)
  PROVE  /\ Len(f[i].groups) \in Nat /\ DOMAIN f[i].groups = 1 .. Len(f[i].groups)
         /\ \A j \in 1 .. Len(f[i].groups) :
              /\ KindOf(f[i].groups[j]) \in Kinds
              /\ Gives(DecodeGroup(f[i], f[i].groups[j]), KindOf(f[i].groups[j]))
              /\ DecodeGroup(f[i], f[i].groups[j]) \in Seq(Calls(f))
<1> PICK b : b = f[i]
  OBVIOUS
<1>1. i \in DOMAIN f /\ b.type = "OSMData"
  BY FilesAssumption DEF DataIn, IsList
<1>2. IsList(b.groups) /\ \A g \in ToSet(b.groups) :
              /\ g.kind \in Kinds \cup {"dense"}
              /\ g.kind = "dense" => IsList(g.ids) /\ IsList(g.lats) /\ IsList(g.lons)
  BY <1>1, FilesAssumption
<1>3. Len(b.groups) \in Nat /\ DOMAIN b.groups = 1 .. Len(b.groups)
  BY <1>2 DEF IsList
<1>4. ASSUME NEW j \in 1 .. Len(b.groups), NEW g, g = b.groups[j]
      PROVE  KindOf(g) \in Kinds /\ Gives(DecodeGroup(b, g), KindOf(g)) /\ DecodeGroup(b, g) \in Seq(Calls(f))
  <2>1. g \in ToSet(b.groups)
    BY <1>3, <1>4 DEF ToSet
  <2>2. Gives(DecodeGroup(b, g), KindOf(g))
    BY <1>2, <2>1, GroupDecodes
  <2>3. ToSet(DecodeGroup(b, g)) \subseteq Calls(f)
    <3>1. ToSet(DecodeGroup(f[i], g)) \subseteq UNION {ToSet(DecodeGroup(f[i], h)) : h \in ToSet(f[i].groups)}
      BY <2>1
    <3> QED BY <3>1 DEF Calls
  <2>4. DecodeGroup(b, g) \in Seq(ToSet(DecodeGroup(b, g)))
    BY <2>2 DEF Gives, IsList
  <2>5. DecodeGroup(b, g) \in Seq(Calls(f))
    BY <2>3, <2>4
  <2>6. KindOf(g) \in Kinds
    BY <1>2, <2>1 DEF KindOf, Kinds
  <2> QED BY <2>2, <2>5, <2>6
<1> QED BY <1>3, <1>4

LEMMA GivenTypes ==
  ASSUME NEW f \in Files, NEW i \in DataIn(f), NEW active
  PROVE  /\ Given(f[i], active) \in Seq(Seq(Calls(f))) /\ Len(Given(f[i], active)) = Len(f[i].groups)
         /\ \A j \in 1 .. Len(f[i].groups) : Given(f[i], active)[j] = Share(f[i], f[i].groups[j], active)
<1>1. PICK b : b = f[i]
  OBVIOUS
<1>2. Len(b.groups) \in Nat /\ DOMAIN b.groups = 1 .. Len(b.groups)
  BY <1>1, GroupsGive
<1>3. \A j \in 1 .. Len(b.groups) : Share(b, b.groups[j], active) \in Seq(Calls(f))
  <2> TAKE j \in 1 .. Len(b.groups)
  <2>1. DecodeGroup(b, b.groups[j]) \in Seq(Calls(f)) /\ <<>> \in Seq(Calls(f))
    BY <1>1, GroupsGive
  <2> QED BY <2>1 DEF Share
<1>4. Given(b, active) = [j \in 1 .. Len(b.groups) |-> Share(b, b.groups[j], active)]
  BY <1>2 DEF Given
<1>5. Given(b, active) \in [1 .. Len(b.groups) -> Seq(Calls(f))]
  BY <1>3, <1>4
<1>6. Given(b, active) \in Seq(Seq(Calls(f))) /\ Len(Given(b, active)) = Len(b.groups)
  BY <1>2, <1>5
<1> QED BY <1>1, <1>4, <1>6

LEMMA BlockIs ==
  ASSUME NEW b, NEW active
  PROVE  DecodeBlock(b, active) = IF b.granularity = 0 THEN <<Throw>> ELSE FlattenSeq(Given(b, active))
BY DEF DecodeBlock, Given, Share

LEMMA BlockTypes ==
  ASSUME NEW f \in Files, NEW i \in DataIn(f), NEW active
  PROVE  DecodeBlock(f[i], active) \in Seq(Calls(f))
<1>1. Throw \in Calls(f)
  BY DEF Calls
<1>2. <<Throw>> \in Seq(Calls(f))
  BY <1>1
<1> QED BY <1>2, BlockIs, GivenTypes, FlattenTypes

Only(kind) == {kind}
Alone(b, kind) == DecodeBlock(b, Only(kind))

\* Decoding for several kinds gives, of each, what decoding for it alone gives.
LEMMA BlockByKind ==
  ASSUME NEW f \in Files, NEW i \in DataIn(f), NEW active, NEW kind \in Kinds, ~Within(Throw, DecodeBlock(f[i], active))
  PROVE  OfKind(DecodeBlock(f[i], active), kind) = IF kind \in active THEN Alone(f[i], kind) ELSE <<>>
<1>a. PICK b, n : b = f[i] /\ n = Len(b.groups)
  OBVIOUS
<1>b. PICK S : S = Calls(f)
  OBVIOUS
<1>c. PICK G, D : G = [j \in 1 .. n |-> KindOf(b.groups[j])] /\ D = [j \in 1 .. n |-> DecodeGroup(b, b.groups[j])]
  OBVIOUS
<1>d. PICK ss, tt : ss = Given(b, active) /\ tt = Given(b, {kind})
  OBVIOUS
<1>1. n \in Nat /\ \A j \in 1 .. n : G[j] \in Kinds /\ D[j] \in Seq(S) /\ Gives(D[j], G[j])
  BY <1>a, <1>b, <1>c, GroupsGive
<1>2. ss \in Seq(Seq(S)) /\ Len(ss) = n /\ \A j \in 1 .. n : ss[j] = IF G[j] \in active THEN D[j] ELSE <<>>
  <2>1. ss \in Seq(Seq(S)) /\ Len(ss) = n /\ \A j \in 1 .. n : ss[j] = Share(b, b.groups[j], active)
    BY <1>a, <1>b, <1>d, GivenTypes
  <2>2. \A j \in 1 .. n : G[j] = KindOf(b.groups[j]) /\ D[j] = DecodeGroup(b, b.groups[j])
    BY <1>c
  <2> QED BY <2>1, <2>2 DEF Share
<1>3. tt \in Seq(Seq(S)) /\ Len(tt) = n /\ \A j \in 1 .. n : tt[j] = IF G[j] = kind THEN D[j] ELSE <<>>
  <2>1. tt \in Seq(Seq(S)) /\ Len(tt) = n /\ \A j \in 1 .. n : tt[j] = Share(b, b.groups[j], {kind})
    BY <1>a, <1>b, <1>d, GivenTypes
  <2>2. \A j \in 1 .. n : G[j] = KindOf(b.groups[j]) /\ D[j] = DecodeGroup(b, b.groups[j])
    BY <1>c
  <2> QED BY <2>1, <2>2 DEF Share
<1>4. b.granularity # 0
  <2>1. Within(Throw, <<Throw>>)
    BY DEF Within
  <2> QED BY <1>a, <2>1, BlockIs
<1>5. DecodeBlock(b, active) = FlattenSeq(ss) /\ DecodeBlock(b, {kind}) = FlattenSeq(tt)
  BY <1>4, <1>d, BlockIs
<1>6. \A j \in 1 .. n : ~Within(Throw, ss[j])
  BY <1>2, <1>5, <1>a, FlattenKeeps
<1>7. \A j \in 1 .. n : OfKind(ss[j], kind) = IF kind \in active THEN tt[j] ELSE <<>>
  <2> TAKE j \in 1 .. n
  <2>1. CASE G[j] \notin active
    <3>1. ss[j] = <<>> /\ (kind \in active => tt[j] = <<>>)
      BY <1>2, <1>3, <2>1
    <3> QED BY <3>1, OfKindNone
  <2>2. CASE G[j] \in active
    <3>1. ss[j] = D[j] /\ D[j] \in Seq(S)
      BY <1>1, <1>2, <2>2
    <3>2. \A l \in 1 .. Len(D[j]) : D[j][l].kind = G[j]
      <4>1. \A l \in 1 .. Len(D[j]) : D[j][l] = Throw \/ D[j][l].kind = G[j]
        BY <1>1 DEF Gives
      <4>2. \A l \in 1 .. Len(D[j]) : D[j][l] # Throw
        BY <1>6, <3>1 DEF Within
      <4> QED BY <4>1, <4>2
    <3>3. CASE G[j] = kind
      <4>1. OfKind(D[j], kind) = D[j]
        BY <3>1, <3>2, <3>3, OfKindAll
      <4> QED BY <1>3, <2>2, <3>1, <3>3, <4>1
    <3>4. CASE G[j] # kind
      <4>1. OfKind(D[j], kind) = <<>>
        BY <3>1, <3>2, <3>4, OfKindOther
      <4> QED BY <1>3, <3>1, <3>4, <4>1
    <3> QED BY <3>3, <3>4
  <2> QED BY <2>1, <2>2
<1>e. PICK each : each = [j \in 1 .. Len(ss) |-> OfKind(ss[j], kind)]
  OBVIOUS
<1>8. OfKind(FlattenSeq(ss), kind) = FlattenSeq(each)
  <2>1. ss \in Seq(Seq(S))
    BY <1>2
  <2> QED BY <2>1, <1>e, OfKindOfMany
<1>9. each \in Seq(Seq(S)) /\ Len(each) = n
  <2>1. \A j \in 1 .. n : OfKind(ss[j], kind) \in Seq(S)
    BY <1>2, OfKindTypes
  <2>2. each \in [1 .. n -> Seq(S)]
    BY <1>2, <1>e, <2>1
  <2> QED BY <1>1, <2>2
<1>10. CASE kind \in active
  <2>1. \A j \in 1 .. n : each[j] = tt[j]
    BY <1>2, <1>7, <1>e, <1>10
  <2>2. each = tt
    <3>1. Len(each) = Len(tt) /\ \A j \in 1 .. Len(each) : each[j] = tt[j]
      BY <1>3, <1>9, <2>1
    <3> QED BY <1>3, <1>9, <3>1, SeqEqual
  <2> QED BY <1>a, <1>5, <1>8, <1>10, <2>2 DEF Alone, Only
<1>11. CASE kind \notin active
  <2>1. \A j \in 1 .. n : each[j] = <<>>
    BY <1>2, <1>7, <1>e, <1>11
  <2>2. FlattenSeq(each) = <<>>
    BY <1>9, <2>1, FlattenEmpties
  <2> QED BY <1>a, <1>5, <1>8, <1>11, <2>2
<1> QED BY <1>10, <1>11



-----------------------------------------------------------------------------
(* The accounts, for any state of the variables.                           *)
Decoded(f, i, active) == IF f[i].type = "OSMData" THEN DecodeBlock(f[i], active) ELSE <<>>
Content(f, active, n) == FlattenSeq([i \in 1 .. n |-> Decoded(f, i, active)])
Reading(f, bs, active) == FlattenSeq([i \in 1 .. Len(bs) |-> DecodeBlock(f[bs[i]], active)])
After(ss, kind) == \E i \in 2 .. Len(ss) : kind \in ss[i]
Final(f, w, ss, kind) == IF kind \in w /\ ~After(ss, kind) THEN Content(f, Only(kind), Len(f)) ELSE <<>>
Account(f, p, bs, pd, dl, kind) == Linked(OfKind(dl, kind), Linked(OfKind(pd, kind), Reading(f, bs, Only(kind)))) = Content(f, Only(kind), p - 1)
Balance(f, w, ss, p, bs, pd, dl) ==
  ~Within(Throw, pd) =>
    \A kind \in Kinds :
      /\ kind \in ss[1] => Account(f, p, bs, pd, dl, kind)
      /\ kind \notin ss[1] => OfKind(pd, kind) = <<>> /\ OfKind(dl, kind) = Final(f, w, ss, kind)

LEMMA BalanceIs == Accounted <=> Balance(file, wanted, scans, position, blobs, pending, delivered)
BY DEF Accounted, Balance, Account, Linked, Content, Decoded, Reading, After, Final, ContentTo, DecodedTo, Only, ContentOf, Ahead, Throwing, Within, Later

LEMMA BalanceNext == Accounted' <=> Balance(file', wanted', scans', position', blobs', pending', delivered')
BY DEF Accounted, Balance, Account, Linked, Content, Decoded, Reading, After, Final, ContentTo, DecodedTo, Only, ContentOf, Ahead, Throwing, Within, Later

LEMMA FilesAreLists == \A f \in Files : Len(f) \in Nat /\ DOMAIN f = 1 .. Len(f)
BY FilesAssumption DEF IsList

LEMMA LinkedTypes ==
  ASSUME NEW S, NEW s \in Seq(S), NEW t \in Seq(S)
  PROVE  Linked(s, t) \in Seq(S) /\ Linked(s, <<>>) = s /\ Linked(<<>>, s) = s
BY DEF Linked

LEMMA LinkedAssociates ==
  ASSUME NEW S, NEW s \in Seq(S), NEW t \in Seq(S), NEW u \in Seq(S)
  PROVE  Linked(Linked(s, t), u) = Linked(s, Linked(t, u))
BY DEF Linked

LEMMA FunctionIsList ==
  ASSUME NEW S, NEW n \in Nat, NEW f \in [1 .. n -> S]
  PROVE  f \in Seq(S) /\ Len(f) = n
OBVIOUS

LEMMA DecodedTypes ==
  ASSUME NEW f \in Files, NEW n \in 0 .. Len(f), NEW active
  PROVE  [i \in 1 .. n |-> Decoded(f, i, active)] \in Seq(Seq(Calls(f)))
<1>1. \A i \in 1 .. n : Decoded(f, i, active) \in Seq(Calls(f))
  <2> TAKE i \in 1 .. n
  <2>1. i \in 1 .. Len(f) /\ <<>> \in Seq(Calls(f))
    BY FilesAreLists
  <2>2. CASE f[i].type = "OSMData"
    <3>1. i \in DataIn(f)
      BY <2>1, <2>2 DEF DataIn
    <3>2. DecodeBlock(f[i], active) \in Seq(Calls(f))
      BY <3>1, BlockTypes
    <3> QED BY <2>2, <3>2 DEF Decoded
  <2> QED BY <2>1, <2>2 DEF Decoded
<1>2. n \in Nat
  BY FilesAreLists
<1>3. [i \in 1 .. n |-> Decoded(f, i, active)] \in [1 .. n -> Seq(Calls(f))]
  BY <1>1
<1> QED BY <1>2, <1>3

LEMMA ContentTypes ==
  ASSUME NEW f \in Files, NEW n \in 0 .. Len(f), NEW active
  PROVE  Content(f, active, n) \in Seq(Calls(f))
BY DecodedTypes, FlattenTypes DEF Content

LEMMA ContentNone == ASSUME NEW f, NEW active PROVE Content(f, active, 0) = <<>>
<1>1. [i \in 1 .. 0 |-> Decoded(f, i, active)] = <<>>
  OBVIOUS
<1> QED BY <1>1, FlattenNone DEF Content

LEMMA ContentMore ==
  ASSUME NEW f \in Files, NEW p \in 1 .. Len(f), NEW active
  PROVE  Content(f, active, p) = Linked(Content(f, active, p - 1), Decoded(f, p, active))
<1> PICK n : n = p - 1
  OBVIOUS
<1>1. n \in 0 .. Len(f) /\ p = n + 1 /\ p \in 0 .. Len(f) /\ n \in Nat
  BY FilesAreLists
<1>2. PICK r, s : r = [i \in 1 .. n |-> Decoded(f, i, active)] /\ s = [i \in 1 .. p |-> Decoded(f, i, active)]
  OBVIOUS
<1>3. r \in Seq(Seq(Calls(f))) /\ Len(r) = n /\ s \in Seq(Seq(Calls(f))) /\ Len(s) = n + 1
  BY <1>1, <1>2, DecodedTypes
<1>4. PICK x : x = Decoded(f, p, active)
  OBVIOUS
<1>5. x \in Seq(Calls(f))
  <2>1. s[p] = x /\ p \in 1 .. Len(s)
    BY <1>1, <1>2, <1>3, <1>4
  <2> QED BY <1>3, <2>1
<1>6. s = Append(r, x)
  <2>1. PICK y : y = Append(r, x)
    OBVIOUS
  <2>2. y \in Seq(Seq(Calls(f))) /\ Len(y) = n + 1 /\ y[n + 1] = x /\ \A i \in 1 .. n : y[i] = r[i]
    BY <1>3, <1>5, <2>1
  <2>3. \A i \in 1 .. n : s[i] = r[i]
    BY <1>1, <1>2
  <2>4. s[n + 1] = x
    BY <1>1, <1>2, <1>4
  <2>5. \A i \in 1 .. n + 1 : i \in 1 .. n \/ i = n + 1
    BY <1>1
  <2>6. Len(s) = Len(y) /\ \A i \in 1 .. Len(s) : s[i] = y[i]
    BY <1>3, <2>2, <2>3, <2>4, <2>5
  <2>7. s = y
    BY <1>3, <2>2, <2>6, SeqEqual
  <2> QED BY <2>1, <2>7
<1>7. FlattenSeq(Append(r, x)) = FlattenSeq(r) \o x
  BY <1>3, <1>5, FlattenTypes, FlattenMore
<1>8. Content(f, active, p) = FlattenSeq(s) /\ Content(f, active, n) = FlattenSeq(r)
  BY <1>2 DEF Content
<1> QED BY <1>4, <1>6, <1>7, <1>8 DEF Linked

LEMMA ReadingTypes ==
  ASSUME NEW f \in Files, NEW bs \in Seq(DataIn(f)), NEW active
  PROVE  /\ [i \in 1 .. Len(bs) |-> DecodeBlock(f[bs[i]], active)] \in Seq(Seq(Calls(f)))
         /\ Reading(f, bs, active) \in Seq(Calls(f))
<1>1. Len(bs) \in Nat /\ \A i \in 1 .. Len(bs) : bs[i] \in DataIn(f)
  OBVIOUS
<1>2. \A i \in 1 .. Len(bs) : DecodeBlock(f[bs[i]], active) \in Seq(Calls(f))
  BY <1>1, BlockTypes
<1>3. [i \in 1 .. Len(bs) |-> DecodeBlock(f[bs[i]], active)] \in [1 .. Len(bs) -> Seq(Calls(f))]
  BY <1>2
<1>4. [i \in 1 .. Len(bs) |-> DecodeBlock(f[bs[i]], active)] \in Seq(Seq(Calls(f)))
  BY <1>1, <1>3, FunctionIsList
<1> QED BY <1>4, FlattenTypes DEF Reading

LEMMA ReadingNone == ASSUME NEW f, NEW active PROVE Reading(f, <<>>, active) = <<>>
<1>1. [i \in 1 .. Len(<<>>) |-> DecodeBlock(f[<<>>[i]], active)] = <<>>
  OBVIOUS
<1> QED BY <1>1, FlattenNone DEF Reading

\* The blocks ahead, split anywhere.
LEMMA ReadingJoins ==
  ASSUME NEW f \in Files, NEW bs \in Seq(DataIn(f)), NEW cs \in Seq(DataIn(f)), NEW active
  PROVE  Reading(f, bs \o cs, active) = Linked(Reading(f, bs, active), Reading(f, cs, active))
<1>1. PICK ds : ds = bs \o cs
  OBVIOUS
<1>2. PICK r, s, t : /\ r = [i \in 1 .. Len(bs) |-> DecodeBlock(f[bs[i]], active)]
                     /\ s = [i \in 1 .. Len(cs) |-> DecodeBlock(f[cs[i]], active)]
                     /\ t = [i \in 1 .. Len(ds) |-> DecodeBlock(f[ds[i]], active)]
  OBVIOUS
<1>3. ds \in Seq(DataIn(f)) /\ Len(ds) = Len(bs) + Len(cs) /\ Len(bs) \in Nat /\ Len(cs) \in Nat
  BY <1>1
<1>4. (\A i \in 1 .. Len(bs) : ds[i] = bs[i]) /\ (\A i \in 1 .. Len(cs) : ds[Len(bs) + i] = cs[i])
  BY <1>1
<1>5. r \in Seq(Seq(Calls(f))) /\ s \in Seq(Seq(Calls(f))) /\ t \in Seq(Seq(Calls(f)))
  BY <1>2, <1>3, ReadingTypes
<1>6. Len(r) = Len(bs) /\ Len(s) = Len(cs) /\ Len(t) = Len(ds)
  BY <1>2, <1>3
<1>7. \A i \in 1 .. Len(bs) : t[i] = r[i]
  <2> TAKE i \in 1 .. Len(bs)
  <2>1. i \in 1 .. Len(ds) /\ ds[i] = bs[i]
    BY <1>3, <1>4
  <2> QED BY <1>2, <2>1
<1>8. \A i \in 1 .. Len(cs) : t[Len(bs) + i] = s[i]
  <2> TAKE i \in 1 .. Len(cs)
  <2>1. Len(bs) + i \in 1 .. Len(ds)
    BY <1>3
  <2>2. ds[Len(bs) + i] = cs[i]
    BY <1>4
  <2> QED BY <1>2, <2>1, <2>2
<1>9. t = r \o s
  <2>1. PICK rs : rs = r \o s
    OBVIOUS
  <2>2. rs \in Seq(Seq(Calls(f))) /\ Len(rs) = Len(t)
    <3>1. r \o s \in Seq(Seq(Calls(f))) /\ Len(r \o s) = Len(r) + Len(s)
      BY <1>5, ConcatProperties
    <3> QED BY <1>3, <1>6, <2>1, <3>1
  <2>3. (\A i \in 1 .. Len(bs) : rs[i] = r[i]) /\ (\A i \in 1 .. Len(cs) : rs[Len(bs) + i] = s[i])
    BY <1>5, <1>6, <2>1
  <2>4. \A i \in 1 .. Len(t) : t[i] = rs[i]
    <3> TAKE i \in 1 .. Len(t)
    <3>1. CASE i \in 1 .. Len(bs)
      BY <1>7, <2>3, <3>1
    <3>2. CASE i \notin 1 .. Len(bs)
      <4>1. PICK j : j = i - Len(bs)
        OBVIOUS
      <4>2. j \in 1 .. Len(cs) /\ i = Len(bs) + j
        BY <1>3, <1>6, <3>2, <4>1
      <4> QED BY <1>8, <2>3, <4>2
    <3> QED BY <3>1, <3>2
  <2>5. t = rs
    BY <1>5, <2>2, <2>4, SeqEqual
  <2> QED BY <2>1, <2>5
<1>10. FlattenSeq(r \o s) = FlattenSeq(r) \o FlattenSeq(s)
  BY <1>5, FlattenJoins
<1>11. Reading(f, ds, active) = FlattenSeq(t) /\ Reading(f, bs, active) = FlattenSeq(r) /\ Reading(f, cs, active) = FlattenSeq(s)
  BY <1>2 DEF Reading
<1> QED BY <1>1, <1>9, <1>10, <1>11 DEF Linked

LEMMA ReadingOne ==
  ASSUME NEW f \in Files, NEW p \in DataIn(f), NEW active
  PROVE  Reading(f, <<p>>, active) = DecodeBlock(f[p], active)
<1>1. PICK x : x = DecodeBlock(f[p], active)
  OBVIOUS
<1>2. [i \in 1 .. Len(<<p>>) |-> DecodeBlock(f[<<p>>[i]], active)] = <<x>>
  BY <1>1
<1>3. x \in Seq(Calls(f))
  BY <1>1, BlockTypes
<1>4. FlattenSeq(<<x>>) = x
  BY <1>3, FlattenOne
<1> QED BY <1>1, <1>2, <1>4 DEF Reading

LEMMA HeadAndRest ==
  ASSUME NEW S, NEW s \in Seq(S), s # <<>>
  PROVE  /\ s[1] \in S /\ SubSeq(s, 2, Len(s)) \in Seq(S) /\ <<s[1]>> \in Seq(S)
         /\ s = <<s[1]>> \o SubSeq(s, 2, Len(s))
         /\ Len(SubSeq(s, 2, Len(s))) = Len(s) - 1
         /\ \A i \in 1 .. Len(s) - 1 : SubSeq(s, 2, Len(s))[i] = s[i + 1]
<1>1. Len(s) \in Nat /\ Len(s) > 0 /\ s[1] \in S /\ 1 \in 1 .. Len(s) /\ Len(s) \in 1 .. Len(s) /\ 1 + 1 = 2
  OBVIOUS
<1>2. SubSeq(s, 1, Len(s)) = s
  BY SubSeqFull
<1>3. SubSeq(s, 1, Len(s)) = <<s[1]>> \o SubSeq(s, 1 + 1, Len(s))
  BY <1>1, SubSeqRecursiveFirst
<1>4. \A i \in 2 .. Len(s) : s[i] \in S
  OBVIOUS
<1>5. /\ SubSeq(s, 2, Len(s)) \in Seq(S)
      /\ Len(SubSeq(s, 2, Len(s))) = IF 2 <= Len(s) THEN Len(s) - 2 + 1 ELSE 0
      /\ \A i \in 1 .. Len(s) - 2 + 1 : SubSeq(s, 2, Len(s))[i] = s[2 + i - 1]
  BY <1>1, <1>4, SubSeqProperties
<1>6. Len(s) - 2 + 1 = Len(s) - 1 /\ \A i \in 1 .. Len(s) - 1 : 2 + i - 1 = i + 1
  BY <1>1
<1>7. Len(SubSeq(s, 2, Len(s))) = Len(s) - 1
  <2> PICK m, k : m = Len(s) /\ k = Len(SubSeq(s, 2, Len(s)))
    OBVIOUS
  <2>1. m \in Nat /\ m > 0 /\ k = IF 2 <= m THEN m - 2 + 1 ELSE 0
    BY <1>1, <1>5
  <2>2. k = m - 1
    BY <2>1
  <2> QED BY <2>2
<1>8. <<s[1]>> \in Seq(S)
  BY <1>1
<1> QED BY <1>1, <1>2, <1>3, <1>5, <1>6, <1>7, <1>8

-----------------------------------------------------------------------------
(* Every step keeps the balance.                                           *)
Typed(f, w, ss, p, bs, pd, dl) ==
  /\ f \in Files /\ w \in SUBSET Kinds /\ w # {} /\ ss \in Seq(SUBSET Kinds) /\ ss # <<>>
  /\ p \in 1 .. Len(f) + 1 /\ bs \in Seq(DataIn(f)) /\ pd \in Seq(Calls(f)) /\ dl \in Seq(Calls(f))

LEMMA AccountTypes ==
  ASSUME NEW f, NEW w, NEW ss, NEW p, NEW bs, NEW pd, NEW dl, Typed(f, w, ss, p, bs, pd, dl), NEW kind
  PROVE  /\ OfKind(dl, kind) \in Seq(Calls(f)) /\ OfKind(pd, kind) \in Seq(Calls(f))
         /\ Reading(f, bs, Only(kind)) \in Seq(Calls(f)) /\ Content(f, Only(kind), p - 1) \in Seq(Calls(f))
<1>1. f \in Files /\ bs \in Seq(DataIn(f)) /\ pd \in Seq(Calls(f)) /\ dl \in Seq(Calls(f))
  BY DEF Typed
<1>2. p - 1 \in 0 .. Len(f)
  BY FilesAreLists DEF Typed
<1>3. Content(f, Only(kind), p - 1) \in Seq(Calls(f))
  BY <1>1, <1>2, ContentTypes
<1>4. Reading(f, bs, Only(kind)) \in Seq(Calls(f))
  BY <1>1, ReadingTypes
<1>5. OfKind(dl, kind) \in Seq(Calls(f)) /\ OfKind(pd, kind) \in Seq(Calls(f))
  BY <1>1, OfKindTypes
<1> QED BY <1>3, <1>4, <1>5

LEMMA LinkedLast ==
  ASSUME NEW S, NEW s \in Seq(S), NEW t \in Seq(S), NEW u \in Seq(S), NEW x \in Seq(S)
  PROVE  Linked(s, Linked(t, Linked(u, x))) = Linked(Linked(s, Linked(t, u)), x)
<1>1. Linked(t, u) \in Seq(S)
  BY LinkedTypes
<1>2. Linked(t, Linked(u, x)) = Linked(Linked(t, u), x)
  BY LinkedAssociates
<1>3. Linked(s, Linked(Linked(t, u), x)) = Linked(Linked(s, Linked(t, u)), x)
  BY <1>1, LinkedAssociates
<1> QED BY <1>2, <1>3

LEMMA LinkedEmpty ==
  ASSUME NEW S, NEW s \in Seq(S), NEW t \in Seq(S), Linked(s, t) = <<>>
  PROVE  s = <<>> /\ t = <<>>
<1>1. Len(s \o t) = Len(s) + Len(t) /\ Len(s) \in Nat /\ Len(t) \in Nat
  OBVIOUS
<1>2. Len(s \o t) = 0
  <2>1. s \o t = <<>>
    BY DEF Linked
  <2> QED BY <2>1
<1>3. Len(s) = 0 /\ Len(t) = 0
  BY <1>1, <1>2
<1> QED BY <1>3

\* The decompressor inflates a block.
LEMMA InflatingBalances ==
  ASSUME NEW f, NEW w, NEW ss, NEW p \in DataIn(f), NEW bs, NEW pd, NEW dl, Typed(f, w, ss, p, bs, pd, dl),
         Balance(f, w, ss, p, bs, pd, dl)
  PROVE  Balance(f, w, ss, p + 1, Append(bs, p), pd, dl)
<1> SUFFICES ASSUME ~Within(Throw, pd), NEW kind \in Kinds, kind \in ss[1]
             PROVE  Account(f, p + 1, Append(bs, p), pd, dl, kind)
  BY DEF Balance
<1>1. PICK S, D, P, R, C, x : /\ S = Calls(f) /\ D = OfKind(dl, kind) /\ P = OfKind(pd, kind)
                              /\ R = Reading(f, bs, Only(kind)) /\ C = Content(f, Only(kind), p - 1) /\ x = DecodeBlock(f[p], Only(kind))
  OBVIOUS
<1>2. D \in Seq(S) /\ P \in Seq(S) /\ R \in Seq(S) /\ C \in Seq(S)
  BY <1>1, AccountTypes
<1>3. f \in Files /\ bs \in Seq(DataIn(f)) /\ p \in 1 .. Len(f) /\ f[p].type = "OSMData"
  BY DEF Typed, DataIn
<1>4. x \in Seq(S)
  BY <1>1, <1>3, BlockTypes
<1>5. Linked(D, Linked(P, R)) = C
  BY <1>1 DEF Balance, Account
<1>6. Content(f, Only(kind), p) = Linked(C, x)
  <2>1. Decoded(f, p, Only(kind)) = x
    BY <1>1, <1>3 DEF Decoded
  <2> QED BY <1>1, <1>3, <2>1, ContentMore
<1>7. Reading(f, Append(bs, p), Only(kind)) = Linked(R, x)
  <2>1. PICK one : one = <<p>>
    OBVIOUS
  <2>2. one \in Seq(DataIn(f)) /\ Append(bs, p) = bs \o one
    BY <1>3, <2>1
  <2>3. Reading(f, bs \o one, Only(kind)) = Linked(Reading(f, bs, Only(kind)), Reading(f, one, Only(kind)))
    BY <1>3, <2>2, ReadingJoins
  <2>4. Reading(f, one, Only(kind)) = x
    BY <1>1, <1>3, <2>1, ReadingOne
  <2> QED BY <1>1, <2>2, <2>3, <2>4
<1>8. Linked(D, Linked(P, Linked(R, x))) = Linked(C, x)
  BY <1>2, <1>4, <1>5, LinkedLast
<1>9. (p + 1) - 1 = p
  BY <1>3
<1> QED BY <1>1, <1>6, <1>7, <1>8, <1>9 DEF Account

\* The decompressor passes a block that holds no data.
LEMMA SkippingBalances ==
  ASSUME NEW f, NEW w, NEW ss, NEW p \in 1 .. Len(f), NEW bs, NEW pd, NEW dl, Typed(f, w, ss, p, bs, pd, dl),
         f[p].type # "OSMData", Balance(f, w, ss, p, bs, pd, dl)
  PROVE  Balance(f, w, ss, p + 1, bs, pd, dl)
<1> SUFFICES ASSUME ~Within(Throw, pd), NEW kind \in Kinds, kind \in ss[1]
             PROVE  Account(f, p + 1, bs, pd, dl, kind)
  BY DEF Balance
<1>1. f \in Files
  BY DEF Typed
<1>2. Content(f, Only(kind), p) = Linked(Content(f, Only(kind), p - 1), <<>>)
  <2>1. Decoded(f, p, Only(kind)) = <<>>
    BY DEF Decoded
  <2> QED BY <1>1, <2>1, ContentMore
<1>3. Linked(Content(f, Only(kind), p - 1), <<>>) = Content(f, Only(kind), p - 1)
  BY AccountTypes, LinkedTypes
<1>4. Account(f, p, bs, pd, dl, kind)
  BY DEF Balance
<1>5. (p + 1) - 1 = p
  OBVIOUS
<1> QED BY <1>2, <1>3, <1>4, <1>5 DEF Account

LEMMA NothingThrows == ~Within(Throw, <<>>)
BY DEF Within

\* The caller decodes the first block ahead.
LEMMA DecodingBalances ==
  ASSUME NEW f, NEW w, NEW ss, NEW p, NEW bs, NEW dl, Typed(f, w, ss, p, bs, <<>>, dl), bs # <<>>,
         Balance(f, w, ss, p, bs, <<>>, dl)
  PROVE  Balance(f, w, ss, p, SubSeq(bs, 2, Len(bs)), DecodeBlock(f[bs[1]], ss[1]), dl)
<1>1. PICK pd, rest, i : pd = DecodeBlock(f[bs[1]], ss[1]) /\ rest = SubSeq(bs, 2, Len(bs)) /\ i = bs[1]
  OBVIOUS
<1>2. f \in Files /\ bs \in Seq(DataIn(f))
  BY DEF Typed
<1>3. PICK one : one = <<i>>
  OBVIOUS
<1>4. i \in DataIn(f) /\ rest \in Seq(DataIn(f)) /\ one \in Seq(DataIn(f)) /\ bs = one \o rest
  BY <1>1, <1>2, <1>3, HeadAndRest
<1>5. pd \in Seq(Calls(f))
  BY <1>1, <1>2, <1>4, BlockTypes
<1>6. SUFFICES ASSUME ~Within(Throw, pd), NEW kind \in Kinds
               PROVE  /\ kind \in ss[1] => Account(f, p, rest, pd, dl, kind)
                      /\ kind \notin ss[1] => OfKind(pd, kind) = <<>> /\ OfKind(dl, kind) = Final(f, w, ss, kind)
  BY <1>1 DEF Balance
<1>7. OfKind(pd, kind) = IF kind \in ss[1] THEN Alone(f[i], kind) ELSE <<>>
  <2>1. i \in DataIn(f) /\ kind \in Kinds /\ ~Within(Throw, DecodeBlock(f[i], ss[1])) /\ pd = DecodeBlock(f[i], ss[1])
    BY <1>1, <1>4, <1>6
  <2>2. OfKind(DecodeBlock(f[i], ss[1]), kind) = IF kind \in ss[1] THEN Alone(f[i], kind) ELSE <<>>
    BY <1>2, <2>1, BlockByKind
  <2> QED BY <2>1, <2>2
<1>8. CASE kind \in ss[1]
  <2>1. Reading(f, bs, Only(kind)) = Linked(Alone(f[i], kind), Reading(f, rest, Only(kind)))
    <3>1. Reading(f, one \o rest, Only(kind)) = Linked(Reading(f, one, Only(kind)), Reading(f, rest, Only(kind)))
      BY <1>2, <1>4, ReadingJoins
    <3>2. Reading(f, one, Only(kind)) = Alone(f[i], kind)
      BY <1>2, <1>3, <1>4, ReadingOne DEF Alone
    <3> QED BY <1>4, <3>1, <3>2
  <2>2. Account(f, p, bs, <<>>, dl, kind)
    BY <1>8, NothingThrows DEF Balance
  <2>3. OfKind(<<>>, kind) = <<>>
    BY OfKindNone
  <2>4. Linked(<<>>, Reading(f, bs, Only(kind))) = Reading(f, bs, Only(kind))
    BY AccountTypes, LinkedTypes
  <2>5. Linked(OfKind(dl, kind), Reading(f, bs, Only(kind))) = Content(f, Only(kind), p - 1)
    BY <2>2, <2>3, <2>4 DEF Account
  <2>6. OfKind(pd, kind) = Alone(f[i], kind)
    BY <1>7, <1>8
  <2> QED BY <1>8, <2>1, <2>5, <2>6 DEF Account
<1>9. CASE kind \notin ss[1]
  <2>1. OfKind(dl, kind) = Final(f, w, ss, kind)
    BY <1>9, NothingThrows DEF Balance
  <2> QED BY <1>7, <1>9, <2>1
<1> QED BY <1>8, <1>9

\* The caller is called back.
LEMMA CallingBalances ==
  ASSUME NEW f, NEW w, NEW ss, NEW p, NEW bs, NEW pd, NEW dl, Typed(f, w, ss, p, bs, pd, dl),
         pd # <<>>, pd[1] # Throw, Balance(f, w, ss, p, bs, pd, dl)
  PROVE  Balance(f, w, ss, p, bs, SubSeq(pd, 2, Len(pd)), Append(dl, pd[1]))
<1>1. PICK S, rest, x, one : S = Calls(f) /\ rest = SubSeq(pd, 2, Len(pd)) /\ x = pd[1] /\ one = <<x>>
  OBVIOUS
<1>2. pd \in Seq(S) /\ dl \in Seq(S)
  BY <1>1 DEF Typed
<1>3. /\ x \in S /\ rest \in Seq(S) /\ one \in Seq(S) /\ pd = one \o rest
      /\ Len(rest) = Len(pd) - 1 /\ \A i \in 1 .. Len(pd) - 1 : rest[i] = pd[i + 1]
  BY <1>1, <1>2, HeadAndRest
<1>4. Append(dl, x) = dl \o one
  BY <1>1, <1>2, <1>3
<1>5. SUFFICES ASSUME ~Within(Throw, rest), NEW kind \in Kinds
               PROVE  /\ kind \in ss[1] => Account(f, p, bs, rest, Append(dl, x), kind)
                      /\ kind \notin ss[1] => OfKind(rest, kind) = <<>> /\ OfKind(Append(dl, x), kind) = Final(f, w, ss, kind)
  BY <1>1 DEF Balance
<1>6. ~Within(Throw, pd)
  <2> SUFFICES ASSUME NEW i \in 1 .. Len(pd), pd[i] = Throw PROVE FALSE
    BY DEF Within
  <2>1. PICK j : j = i - 1
    OBVIOUS
  <2>2. Len(pd) \in Nat /\ i # 1
    BY <1>2
  <2>3. j \in 1 .. Len(rest) /\ rest[j] = pd[i]
    BY <1>3, <2>1, <2>2
  <2> QED BY <1>5, <2>3 DEF Within
<1>7. PICK D, H, P, R : /\ D = OfKind(dl, kind) /\ H = OfKind(one, kind)
                        /\ P = OfKind(rest, kind) /\ R = Reading(f, bs, Only(kind))
  OBVIOUS
<1>8. D \in Seq(S) /\ H \in Seq(S) /\ P \in Seq(S) /\ R \in Seq(S)
  BY <1>1, <1>2, <1>3, <1>7, OfKindTypes, AccountTypes
<1>9. OfKind(pd, kind) = Linked(H, P) /\ OfKind(Append(dl, x), kind) = Linked(D, H)
  <2>1. OfKind(one \o rest, kind) = OfKind(one, kind) \o OfKind(rest, kind)
    BY <1>3, OfKindJoins
  <2>2. OfKind(dl \o one, kind) = OfKind(dl, kind) \o OfKind(one, kind)
    BY <1>2, <1>3, OfKindJoins
  <2> QED BY <1>3, <1>4, <1>7, <2>1, <2>2 DEF Linked
<1>10. CASE kind \in ss[1]
  <2>1. Linked(D, Linked(Linked(H, P), R)) = Content(f, Only(kind), p - 1)
    BY <1>6, <1>7, <1>9, <1>10 DEF Balance, Account
  <2>2. Linked(Linked(D, H), Linked(P, R)) = Linked(D, Linked(H, Linked(P, R)))
    BY <1>8, LinkedTypes, LinkedAssociates
  <2>3. Linked(H, Linked(P, R)) = Linked(Linked(H, P), R)
    BY <1>8, LinkedAssociates
  <2> QED BY <1>7, <1>9, <1>10, <2>1, <2>2, <2>3 DEF Account
<1>11. CASE kind \notin ss[1]
  <2>1. Linked(H, P) = <<>> /\ D = Final(f, w, ss, kind)
    BY <1>6, <1>7, <1>9, <1>11 DEF Balance
  <2>2. H = <<>> /\ P = <<>>
    BY <1>8, <2>1, LinkedEmpty
  <2>3. Linked(D, H) = D
    BY <1>8, <2>2, LinkedTypes
  <2> QED BY <1>7, <1>9, <1>11, <2>1, <2>2, <2>3
<1> QED BY <1>10, <1>11

\* Nobody reads a kind twice, and only kinds the caller asked for.
Split(w, ss) ==
  /\ \A i \in 1 .. Len(ss) : ss[i] \subseteq w
  /\ \A i, j \in 1 .. Len(ss) : i # j => ss[i] \cap ss[j] = {}

\* The next scan starts over.
LEMMA RestartBalances ==
  ASSUME NEW f, NEW w, NEW ss, NEW dl, Typed(f, w, ss, Len(f) + 1, <<>>, <<>>, dl), Split(w, ss), Len(ss) > 1,
         Balance(f, w, ss, Len(f) + 1, <<>>, <<>>, dl)
  PROVE  Balance(f, w, SubSeq(ss, 2, Len(ss)), 1, <<>>, <<>>, dl) /\ Split(w, SubSeq(ss, 2, Len(ss)))
<1>1. PICK rest, n : rest = SubSeq(ss, 2, Len(ss)) /\ n = Len(ss)
  OBVIOUS
<1>2. ss \in Seq(SUBSET Kinds) /\ ss # <<>> /\ f \in Files /\ n \in Nat /\ n > 1
  BY <1>1 DEF Typed
<1>3. rest \in Seq(SUBSET Kinds) /\ Len(rest) = n - 1 /\ \A i \in 1 .. n - 1 : rest[i] = ss[i + 1]
  BY <1>1, <1>2, HeadAndRest
<1>4. Split(w, rest)
  <2>1. \A i \in 1 .. n - 1 : i + 1 \in 1 .. n
    BY <1>2
  <2>2. \A i, j \in 1 .. n - 1 : i # j => i + 1 # j + 1
    BY <1>2
  <2> QED BY <1>1, <1>3, <2>1, <2>2 DEF Split
<1>5. rest[1] = ss[2] /\ 2 \in 2 .. n /\ 2 \in 1 .. n /\ 1 \in 1 .. n
  BY <1>2, <1>3
<1>6. \A kind : kind \notin ss[2] => (After(ss, kind) <=> After(rest, kind))
  <2> SUFFICES ASSUME NEW kind, kind \notin ss[2] PROVE After(ss, kind) <=> After(rest, kind)
    OBVIOUS
  <2>1. ASSUME After(ss, kind) PROVE After(rest, kind)
    <3>1. PICK i \in 2 .. n : kind \in ss[i]
      BY <1>1, <2>1 DEF After
    <3>2. PICK j : j = i - 1
      OBVIOUS
    <3>3. i # 2 /\ j \in 2 .. n - 1 /\ j \in 1 .. n - 1 /\ j + 1 = i
      BY <1>2, <3>1, <3>2
    <3> QED BY <1>3, <3>1, <3>3 DEF After
  <2>2. ASSUME After(rest, kind) PROVE After(ss, kind)
    <3>1. PICK i \in 2 .. n - 1 : kind \in rest[i]
      BY <1>3, <2>2 DEF After
    <3>2. i \in 1 .. n - 1 /\ i + 1 \in 2 .. n
      BY <1>2
    <3> QED BY <1>1, <1>3, <3>1, <3>2 DEF After
  <2> QED BY <2>1, <2>2
<1>7. SUFFICES ASSUME NEW kind \in Kinds
               PROVE  /\ kind \in rest[1] => Account(f, 1, <<>>, <<>>, dl, kind)
                      /\ kind \notin rest[1] => OfKind(<<>>, kind) = <<>> /\ OfKind(dl, kind) = Final(f, w, rest, kind)
  BY <1>1, <1>4 DEF Balance
<1>8. PICK D : D = OfKind(dl, kind)
  OBVIOUS
<1>9. /\ kind \in ss[1] => D = Content(f, Only(kind), Len(f))
      /\ kind \notin ss[1] => D = Final(f, w, ss, kind)
  <2>1. /\ kind \in ss[1] => Account(f, Len(f) + 1, <<>>, <<>>, dl, kind)
        /\ kind \notin ss[1] => OfKind(dl, kind) = Final(f, w, ss, kind)
    BY NothingThrows DEF Balance
  <2>2. (Len(f) + 1) - 1 = Len(f)
    BY <1>2, FilesAreLists
  <2>3. D \in Seq(Calls(f))
    BY <1>8, AccountTypes
  <2>4. Linked(D, Linked(<<>>, <<>>)) = D
    <3>1. <<>> \in Seq(Calls(f))
      OBVIOUS
    <3>2. Linked(<<>>, <<>>) = <<>>
      BY <3>1, LinkedTypes
    <3> QED BY <2>3, <3>2, LinkedTypes
  <2>5. Account(f, Len(f) + 1, <<>>, <<>>, dl, kind) => D = Content(f, Only(kind), Len(f))
    BY <1>8, <2>2, <2>4, OfKindNone, ReadingNone DEF Account
  <2> QED BY <1>8, <2>1, <2>5
<1>10. CASE kind \in ss[2]
  <2>1. kind \notin ss[1]
    BY <1>1, <1>5, <1>10 DEF Split
  <2>2. After(ss, kind)
    BY <1>1, <1>5, <1>10 DEF After
  <2>3. D = <<>>
    BY <1>9, <2>1, <2>2 DEF Final
  <2>4. Linked(<<>>, Linked(<<>>, <<>>)) = <<>>
    BY DEF Linked
  <2>5. 1 - 1 = 0
    OBVIOUS
  <2> QED BY <1>5, <1>8, <1>10, <2>3, <2>4, <2>5, OfKindNone, ReadingNone, ContentNone DEF Account
<1>11. CASE kind \notin ss[2]
  <2>1. D = Final(f, w, rest, kind)
    <3>1. CASE kind \in ss[1]
      <4>1. kind \in w
        BY <1>1, <1>5, <3>1 DEF Split
      <4>2. ~After(ss, kind)
        <5> SUFFICES ASSUME NEW i \in 2 .. n, kind \in ss[i] PROVE FALSE
          BY <1>1 DEF After
        <5>1. i \in 1 .. n /\ i # 1
          OBVIOUS
        <5> QED BY <1>1, <1>5, <3>1, <5>1 DEF Split
      <4> QED BY <1>6, <1>9, <1>11, <3>1, <4>1, <4>2 DEF Final
    <3>2. CASE kind \notin ss[1]
      BY <1>6, <1>9, <1>11, <3>2 DEF Final
    <3> QED BY <3>1, <3>2
  <2> QED BY <1>5, <1>8, <1>11, <2>1, OfKindNone
<1> QED BY <1>10, <1>11

\* A call starts with nothing read.
LEMMA StartBalances ==
  ASSUME NEW f, NEW w PROVE Balance(f, w, <<w>>, 1, <<>>, <<>>, <<>>) /\ Split(w, <<w>>)
<1>1. Linked(<<>>, Linked(<<>>, <<>>)) = <<>> /\ 1 - 1 = 0
  BY DEF Linked
<1>2. \A kind : Account(f, 1, <<>>, <<>>, <<>>, kind)
  BY <1>1, OfKindNone, ReadingNone, ContentNone DEF Account
<1>3. \A kind : kind \notin w => Final(f, w, <<w>>, kind) = <<>>
  BY DEF Final
<1>4. <<w>>[1] = w /\ Len(<<w>>) = 1
  OBVIOUS
<1>5. Split(w, <<w>>)
  BY <1>4 DEF Split
<1> QED BY <1>2, <1>3, <1>4, <1>5, OfKindNone DEF Balance

LEMMA TuplesJoin ==
  ASSUME NEW x, NEW y
  PROVE  <<x>> \o <<y>> = <<x, y>> /\ <<x>> \o <<>> = <<x>> /\ <<>> \o <<x>> = <<x>> /\ <<>> \o <<>> = <<>>
<1>1. PICK S, s, t, u : S = {x, y} /\ s = <<x>> /\ t = <<y>> /\ u = <<x, y>>
  OBVIOUS
<1>2. s \in Seq(S) /\ t \in Seq(S) /\ u \in Seq(S) /\ Len(s) = 1 /\ Len(t) = 1 /\ Len(u) = 2
      /\ s[1] = x /\ t[1] = y /\ u[1] = x /\ u[2] = y
  BY <1>1
<1>3. PICK st : st = s \o t
  OBVIOUS
<1>4. st \in Seq(S) /\ Len(st) = 2 /\ st[1] = x /\ st[2] = y
  <2>1. st \in Seq(S) /\ Len(st) = Len(s) + Len(t)
        /\ \A i \in 1 .. Len(s) + Len(t) : st[i] = IF i <= Len(s) THEN s[i] ELSE t[i - Len(s)]
    BY <1>2, <1>3, ConcatProperties
  <2>2. \A i \in 1 .. 2 : st[i] = IF i <= 1 THEN s[i] ELSE t[i - 1]
    BY <1>2, <2>1
  <2> QED BY <1>2, <2>1, <2>2
<1>5. st = u
  <2>1. Len(st) = Len(u) /\ \A i \in 1 .. Len(st) : st[i] = u[i]
    BY <1>2, <1>4
  <2> QED BY <1>2, <1>4, <2>1, SeqEqual
<1>6. s \o <<>> = s /\ <<>> \o s = s /\ <<>> \o <<>> = <<>>
  BY <1>2
<1> QED BY <1>1, <1>3, <1>5, <1>6

LEMMA TuplesJoin3 == ASSUME NEW x, NEW y, NEW z PROVE <<x, y>> \o <<z>> = <<x, y, z>> /\ <<x, y>> \o <<>> = <<x, y>>
<1>1. PICK S, s, t, u : S = {x, y, z} /\ s = <<x, y>> /\ t = <<z>> /\ u = <<x, y, z>>
  OBVIOUS
<1>2. s \in Seq(S) /\ t \in Seq(S) /\ u \in Seq(S) /\ Len(s) = 2 /\ Len(t) = 1 /\ Len(u) = 3
      /\ s[1] = x /\ s[2] = y /\ t[1] = z /\ u[1] = x /\ u[2] = y /\ u[3] = z
  BY <1>1
<1>3. PICK st : st = s \o t
  OBVIOUS
<1>4. st \in Seq(S) /\ Len(st) = 3 /\ st[1] = x /\ st[2] = y /\ st[3] = z
  <2>1. st \in Seq(S) /\ Len(st) = Len(s) + Len(t)
        /\ \A i \in 1 .. Len(s) + Len(t) : st[i] = IF i <= Len(s) THEN s[i] ELSE t[i - Len(s)]
    BY <1>2, <1>3, ConcatProperties
  <2>2. \A i \in 1 .. 3 : st[i] = IF i <= 2 THEN s[i] ELSE t[i - 2]
    BY <1>2, <2>1
  <2> QED BY <1>2, <2>1, <2>2
<1>5. st = u
  <2>1. Len(st) = Len(u) /\ \A i \in 1 .. Len(st) : st[i] = u[i]
    BY <1>2, <1>4
  <2> QED BY <1>2, <1>4, <2>1, SeqEqual
<1>6. s \o <<>> = s
  BY <1>2
<1> QED BY <1>1, <1>3, <1>5, <1>6

\* One scan for every kind asked for.
LEMMA ScansSplit ==
  ASSUME NEW w \in SUBSET Kinds, w # {}
  PROVE  /\ FirstScans(w) \in Seq(SUBSET Kinds) /\ FirstScans(w) # <<>> /\ Split(w, FirstScans(w))
         /\ \A kind \in w : \E i \in 1 .. Len(FirstScans(w)) : kind \in FirstScans(w)[i]
<1>1. PICK N, W, R : N = {"node"} /\ W = {"way"} /\ R = {"relation"}
  OBVIOUS
<1>2. /\ N \in SUBSET Kinds /\ W \in SUBSET Kinds /\ R \in SUBSET Kinds
      /\ N \cap W = {} /\ N \cap R = {} /\ W \cap R = {}
      /\ "node" \in N /\ "way" \in W /\ "relation" \in R
      /\ \A kind \in w : kind = "node" \/ kind = "way" \/ kind = "relation"
  BY <1>1 DEF Kinds
<1>3. FirstScans(w) = (IF "node" \in w THEN <<N>> ELSE <<>>) \o (IF "way" \in w THEN <<W>> ELSE <<>>)
                      \o (IF "relation" \in w THEN <<R>> ELSE <<>>)
  BY <1>1 DEF FirstScans, ScanOf
<1>4. ("node" \in w => N \subseteq w) /\ ("way" \in w => W \subseteq w) /\ ("relation" \in w => R \subseteq w)
  BY <1>1
<1>5. CASE "node" \in w /\ "way" \in w /\ "relation" \in w
  <2>1. FirstScans(w) = (<<N>> \o <<W>>) \o <<R>>
    BY <1>3, <1>5
  <2>2. FirstScans(w) = <<N, W>> \o <<R>>
    BY <2>1, TuplesJoin
  <2>3. FirstScans(w) = <<N, W, R>>
    BY <2>2, TuplesJoin3
  <2> QED BY <1>2, <1>4, <1>5, <2>3 DEF Split
<1>6. CASE "node" \in w /\ "way" \in w /\ "relation" \notin w
  <2>1. FirstScans(w) = <<N, W>>
    BY <1>3, <1>6, TuplesJoin, TuplesJoin3
  <2> QED BY <1>2, <1>4, <1>6, <2>1 DEF Split
<1>7. CASE "node" \in w /\ "way" \notin w /\ "relation" \in w
  <2>1. FirstScans(w) = <<N, R>>
    BY <1>3, <1>7, TuplesJoin, TuplesJoin3
  <2> QED BY <1>2, <1>4, <1>7, <2>1 DEF Split
<1>8. CASE "node" \in w /\ "way" \notin w /\ "relation" \notin w
  <2>1. FirstScans(w) = <<N>>
    BY <1>3, <1>8, TuplesJoin, TuplesJoin3
  <2> QED BY <1>2, <1>4, <1>8, <2>1 DEF Split
<1>9. CASE "node" \notin w /\ "way" \in w /\ "relation" \in w
  <2>1. FirstScans(w) = <<W, R>>
    BY <1>3, <1>9, TuplesJoin, TuplesJoin3
  <2> QED BY <1>2, <1>4, <1>9, <2>1 DEF Split
<1>10. CASE "node" \notin w /\ "way" \in w /\ "relation" \notin w
  <2>1. FirstScans(w) = <<W>>
    BY <1>3, <1>10, TuplesJoin, TuplesJoin3
  <2> QED BY <1>2, <1>4, <1>10, <2>1 DEF Split
<1>11. CASE "node" \notin w /\ "way" \notin w /\ "relation" \in w
  <2>1. FirstScans(w) = <<R>>
    BY <1>3, <1>11, TuplesJoin, TuplesJoin3
  <2> QED BY <1>2, <1>4, <1>11, <2>1 DEF Split
<1>12. CASE "node" \notin w /\ "way" \notin w /\ "relation" \notin w
  BY <1>2, <1>12
<1> QED BY <1>5, <1>6, <1>7, <1>8, <1>9, <1>10, <1>11, <1>12

\* An ordered call finds the file unsorted: one scan for every kind.
LEMMA SplittingBalances ==
  ASSUME NEW f, NEW w, NEW p, NEW bs, Typed(f, w, <<w>>, p, bs, <<>>, <<>>), Balance(f, w, <<w>>, p, bs, <<>>, <<>>)
  PROVE  Balance(f, w, FirstScans(w), p, bs, <<>>, <<>>)
<1>1. PICK ss : ss = FirstScans(w)
  OBVIOUS
<1>2. ss \in Seq(SUBSET Kinds) /\ ss # <<>> /\ Split(w, ss) /\ \A kind \in w : \E i \in 1 .. Len(ss) : kind \in ss[i]
  BY <1>1, ScansSplit DEF Typed
<1>3. Len(ss) \in Nat /\ 1 \in 1 .. Len(ss)
  BY <1>2
<1>4. ss[1] \subseteq w
  BY <1>2, <1>3 DEF Split
<1>5. \A kind \in Kinds : kind \in ss[1] => Account(f, p, bs, <<>>, <<>>, kind)
  BY <1>4, NothingThrows DEF Balance
<1>6. \A kind \in Kinds : kind \notin ss[1] => Final(f, w, ss, kind) = <<>>
  <2> SUFFICES ASSUME NEW kind \in w, kind \notin ss[1] PROVE After(ss, kind)
    BY DEF Final
  <2>1. PICK i \in 1 .. Len(ss) : kind \in ss[i]
    BY <1>2
  <2>2. i \in 2 .. Len(ss)
    BY <1>3, <2>1
  <2> QED BY <2>1, <2>2 DEF After
<1> QED BY <1>1, <1>5, <1>6, OfKindNone DEF Balance

-----------------------------------------------------------------------------
(* The steps of an import.                                                 *)
LEMMA TypedIs == file \in Files => (PbfTypeOK <=> Typed(file, wanted, scans, position, blobs, pending, delivered)
                                                   /\ inflater \in {"running", "ended", "threw"}
                                                   /\ outcome \in {"waiting", "reading", "done", "threw"})
BY DEF PbfTypeOK, Typed

LEMMA TypedNext == file' \in Files => (PbfTypeOK' <=> Typed(file', wanted', scans', position', blobs', pending', delivered')
                                                   /\ inflater' \in {"running", "ended", "threw"}
                                                   /\ outcome' \in {"waiting", "reading", "done", "threw"})
BY DEF PbfTypeOK, Typed

Stages ==
  /\ inflater = "ended" => position = Len(file) + 1
  /\ outcome = "waiting" => scans = <<wanted>> /\ pending = <<>> /\ delivered = <<>>
  /\ outcome = "done" => pending = <<>> /\ blobs = <<>> /\ inflater = "ended" /\ Len(scans) = 1

LEMMA InOrderIs == InOrder <=> Stages /\ Split(wanted, scans)
BY DEF InOrder, Stages, Split

LEMMA InOrderNext == InOrder' <=> Stages' /\ Split(wanted', scans')
BY DEF InOrder, Stages, Split

Inv == file \in Files /\ job \in Jobs /\ PbfInv

LEMMA PbfInvIs ==
  file \in Files =>
    (PbfInv <=> /\ Typed(file, wanted, scans, position, blobs, pending, delivered)
                /\ inflater \in {"running", "ended", "threw"} /\ outcome \in {"waiting", "reading", "done", "threw"}
                /\ Stages /\ Split(wanted, scans)
                /\ Balance(file, wanted, scans, position, blobs, pending, delivered))
BY TypedIs, InOrderIs, BalanceIs DEF PbfInv

LEMMA PbfInvNext ==
  file' \in Files =>
    (PbfInv' <=> /\ Typed(file', wanted', scans', position', blobs', pending', delivered')
                 /\ inflater' \in {"running", "ended", "threw"} /\ outcome' \in {"waiting", "reading", "done", "threw"}
                 /\ Stages' /\ Split(wanted', scans')
                 /\ Balance(file', wanted', scans', position', blobs', pending', delivered'))
BY TypedNext, InOrderNext, BalanceNext DEF PbfInv

\* A call that starts on a file holds the invariant.
LEMMA StartTyped ==
  ASSUME NEW f \in Files, NEW w \in SUBSET Kinds, w # {}
  PROVE  Typed(f, w, <<w>>, 1, <<>>, <<>>, <<>>)
<1>1. Len(f) \in Nat
  BY FilesAreLists
<1>2. <<w>> \in Seq(SUBSET Kinds) /\ <<w>> # <<>> /\ <<>> \in Seq(DataIn(f)) /\ <<>> \in Seq(Calls(f)) /\ 1 \in 1 .. Len(f) + 1
  BY <1>1
<1> QED BY <1>2 DEF Typed

LEMMA InitHolds == Init => Inv
<1> SUFFICES ASSUME Init PROVE Inv
  OBVIOUS
<1>1. /\ file \in Files /\ job \in Jobs /\ wanted = {"way"} /\ scans = <<wanted>> /\ position = 1 /\ inflater = "running"
      /\ blobs = <<>> /\ pending = <<>> /\ delivered = <<>> /\ outcome = "reading"
  BY DEF Init, InitPbf
<1>2. wanted \in SUBSET Kinds /\ wanted # {}
  BY <1>1 DEF Kinds
<1>3. Typed(file, wanted, scans, position, blobs, pending, delivered)
  BY <1>1, <1>2, StartTyped
<1>4. Balance(file, wanted, scans, position, blobs, pending, delivered) /\ Split(wanted, scans)
  BY <1>1, StartBalances
<1>5. Stages
  BY <1>1 DEF Stages
<1> QED BY <1>1, <1>3, <1>4, <1>5, PbfInvIs DEF Inv

LEMMA InflatesHolds == Inv /\ Inflates /\ UNCHANGED importVars => Inv'
<1> SUFFICES ASSUME Inv, Inflates, UNCHANGED importVars PROVE Inv'
  OBVIOUS
<1>1. file' = file /\ job' = job /\ wanted' = wanted /\ scans' = scans /\ pending' = pending /\ delivered' = delivered /\ outcome' = outcome
  BY DEF Inflates, sourceVars, scanVars, importVars
<1>2. file \in Files /\ job \in Jobs /\ PbfInv
  BY DEF Inv
<1>3. /\ Typed(file, wanted, scans, position, blobs, pending, delivered) /\ inflater \in {"running", "ended", "threw"}
      /\ outcome \in {"waiting", "reading", "done", "threw"} /\ Stages /\ Split(wanted, scans)
      /\ Balance(file, wanted, scans, position, blobs, pending, delivered)
  BY <1>2, PbfInvIs
<1>4. inflater = "running" /\ outcome \in {"waiting", "reading"} /\ position \in DataIn(file)
  BY <1>3 DEF Inflates, Running, DataIn, Typed
<1>5. \/ blobs' = Append(blobs, position) /\ position' = position + 1 /\ inflater' = inflater
      \/ inflater' = "threw" /\ blobs' = blobs /\ position' = position
  BY DEF Inflates
<1>6. Typed(file, wanted, scans, position', blobs', pending, delivered)
  <2>1. Len(file) \in Nat
    BY <1>2, FilesAreLists
  <2>2. position \in 1 .. Len(file)
    BY <1>4 DEF DataIn
  <2>3. position + 1 \in 1 .. Len(file) + 1
    BY <2>1, <2>2
  <2>4. Append(blobs, position) \in Seq(DataIn(file))
    BY <1>3, <1>4 DEF Typed
  <2> QED BY <1>3, <1>5, <2>3, <2>4 DEF Typed
<1>7. Balance(file, wanted, scans, position', blobs', pending, delivered)
  BY <1>3, <1>4, <1>5, InflatingBalances
<1>8. Stages'
  BY <1>1, <1>3, <1>4, <1>5 DEF Stages
<1>9. inflater' \in {"running", "ended", "threw"}
  BY <1>3, <1>5
<1>10. PbfInv'
  BY <1>1, <1>2, <1>3, <1>6, <1>7, <1>8, <1>9, PbfInvNext
<1> QED BY <1>1, <1>2, <1>10 DEF Inv

LEMMA PassesHolds == Inv /\ (ReadsHeader \/ SkipsBlock \/ EndsFile) /\ UNCHANGED importVars => Inv'
<1> SUFFICES ASSUME Inv, ReadsHeader \/ SkipsBlock \/ EndsFile, UNCHANGED importVars PROVE Inv'
  OBVIOUS
<1>1. /\ file' = file /\ job' = job /\ wanted' = wanted /\ scans' = scans /\ pending' = pending /\ delivered' = delivered
      /\ outcome' = outcome /\ blobs' = blobs
  BY DEF ReadsHeader, SkipsBlock, EndsFile, sourceVars, scanVars, importVars
<1>2. file \in Files /\ job \in Jobs /\ PbfInv
  BY DEF Inv
<1>3. /\ Typed(file, wanted, scans, position, blobs, pending, delivered) /\ inflater \in {"running", "ended", "threw"}
      /\ outcome \in {"waiting", "reading", "done", "threw"} /\ Stages /\ Split(wanted, scans)
      /\ Balance(file, wanted, scans, position, blobs, pending, delivered)
  BY <1>2, PbfInvIs
<1>4. inflater = "running" /\ outcome \in {"waiting", "reading"}
  BY DEF ReadsHeader, SkipsBlock, EndsFile, Running
<1>5. \/ position <= Len(file) /\ file[position].type # "OSMData" /\ position' = position + 1 /\ inflater' = inflater
      \/ inflater' = "threw" /\ position' = position
      \/ inflater' = "ended" /\ position' = position /\ position = Len(file) + 1
  BY DEF ReadsHeader, SkipsBlock, EndsFile
<1>6. Typed(file, wanted, scans, position', blobs, pending, delivered)
  <2>1. Len(file) \in Nat /\ position \in 1 .. Len(file) + 1
    BY <1>2, <1>3, FilesAreLists DEF Typed
  <2>2. position' \in 1 .. Len(file) + 1
    BY <1>5, <2>1
  <2> QED BY <1>3, <2>2 DEF Typed
<1>7. Balance(file, wanted, scans, position', blobs, pending, delivered)
  <2>1. CASE position <= Len(file) /\ file[position].type # "OSMData" /\ position' = position + 1
    <3>1. position \in 1 .. Len(file)
      BY <1>2, <1>3, <2>1, FilesAreLists DEF Typed
    <3> QED BY <1>3, <2>1, <3>1, SkippingBalances
  <2>2. CASE position' = position
    BY <1>3, <2>2
  <2> QED BY <1>5, <2>1, <2>2
<1>8. Stages'
  BY <1>1, <1>3, <1>4, <1>5 DEF Stages
<1>9. inflater' \in {"running", "ended", "threw"}
  BY <1>3, <1>5
<1>10. PbfInv'
  BY <1>1, <1>2, <1>3, <1>6, <1>7, <1>8, <1>9, PbfInvNext
<1> QED BY <1>1, <1>2, <1>10 DEF Inv

LEMMA SeesStatusHolds == Inv /\ SeesStatus /\ UNCHANGED importVars => Inv'
<1> SUFFICES ASSUME Inv, SeesStatus, UNCHANGED importVars PROVE Inv'
  OBVIOUS
<1>1. /\ file' = file /\ job' = job /\ wanted' = wanted /\ pending' = pending /\ delivered' = delivered
      /\ blobs' = blobs /\ position' = position /\ inflater' = inflater /\ outcome' = "reading" /\ outcome = "waiting"
      /\ scans' = <<wanted>> \/ scans' = FirstScans(wanted)
  BY DEF SeesStatus, sourceVars, inflaterVars, importVars
<1>2. file \in Files /\ job \in Jobs /\ PbfInv
  BY DEF Inv
<1>3. /\ Typed(file, wanted, scans, position, blobs, pending, delivered) /\ inflater \in {"running", "ended", "threw"}
      /\ Stages /\ Split(wanted, scans)
      /\ Balance(file, wanted, scans, position, blobs, pending, delivered)
  BY <1>2, PbfInvIs
<1>4. scans = <<wanted>> /\ pending = <<>> /\ delivered = <<>>
  BY <1>1, <1>3 DEF Stages
<1>5. Typed(file, wanted, FirstScans(wanted), position, blobs, pending, delivered) /\ Split(wanted, FirstScans(wanted))
  BY <1>3, ScansSplit DEF Typed
<1>6. Balance(file, wanted, FirstScans(wanted), position, blobs, pending, delivered)
  BY <1>3, <1>4, SplittingBalances
<1>7. Stages'
  BY <1>1, <1>3 DEF Stages
<1>8. /\ Typed(file, wanted, scans', position, blobs, pending, delivered) /\ Split(wanted, scans')
      /\ Balance(file, wanted, scans', position, blobs, pending, delivered)
  BY <1>1, <1>3, <1>4, <1>5, <1>6
<1>9. PbfInv'
  BY <1>1, <1>2, <1>3, <1>7, <1>8, PbfInvNext
<1> QED BY <1>1, <1>2, <1>9 DEF Inv

LEMMA DecodeHolds == Inv /\ Decode /\ UNCHANGED importVars => Inv'
<1> SUFFICES ASSUME Inv, Decode, UNCHANGED importVars PROVE Inv'
  OBVIOUS
<1>1. /\ file' = file /\ job' = job /\ wanted' = wanted /\ scans' = scans /\ delivered' = delivered
      /\ position' = position /\ inflater' = inflater /\ outcome' = outcome /\ outcome = "reading"
      /\ pending = <<>> /\ blobs # <<>>
      /\ blobs' = SubSeq(blobs, 2, Len(blobs)) /\ pending' = DecodeBlock(file[blobs[1]], scans[1])
  BY DEF Decode, sourceVars, inflaterVars, importVars
<1>2. file \in Files /\ job \in Jobs /\ PbfInv
  BY DEF Inv
<1>3. /\ Typed(file, wanted, scans, position, blobs, pending, delivered) /\ inflater \in {"running", "ended", "threw"}
      /\ outcome \in {"waiting", "reading", "done", "threw"} /\ Stages /\ Split(wanted, scans)
      /\ Balance(file, wanted, scans, position, blobs, pending, delivered)
  BY <1>2, PbfInvIs
<1>4. Balance(file, wanted, scans, position, blobs', pending', delivered)
  BY <1>1, <1>3, DecodingBalances
<1>5. Typed(file, wanted, scans, position, blobs', pending', delivered)
  <2>1. blobs \in Seq(DataIn(file))
    BY <1>3 DEF Typed
  <2>2. blobs[1] \in DataIn(file) /\ SubSeq(blobs, 2, Len(blobs)) \in Seq(DataIn(file))
    BY <1>1, <2>1, HeadAndRest
  <2>3. DecodeBlock(file[blobs[1]], scans[1]) \in Seq(Calls(file))
    BY <1>2, <2>2, BlockTypes
  <2> QED BY <1>1, <1>3, <2>2, <2>3 DEF Typed
<1>6. Stages'
  BY <1>1, <1>3 DEF Stages
<1>7. PbfInv'
  BY <1>1, <1>2, <1>3, <1>4, <1>5, <1>6, PbfInvNext
<1> QED BY <1>1, <1>2, <1>7 DEF Inv

LEMMA CallsBackHolds == Inv /\ CallsBack /\ job' = job => Inv'
<1> SUFFICES ASSUME Inv, CallsBack, job' = job PROVE Inv'
  OBVIOUS
<1>1. /\ file' = file /\ job' = job /\ wanted' = wanted /\ scans' = scans /\ blobs' = blobs
      /\ position' = position /\ inflater' = inflater /\ outcome' = outcome /\ outcome = "reading"
      /\ pending # <<>> /\ pending[1] # Throw
      /\ pending' = SubSeq(pending, 2, Len(pending)) /\ delivered' = Append(delivered, pending[1])
  BY DEF CallsBack, sourceVars, inflaterVars
<1>2. file \in Files /\ job \in Jobs /\ PbfInv
  BY DEF Inv
<1>3. /\ Typed(file, wanted, scans, position, blobs, pending, delivered) /\ inflater \in {"running", "ended", "threw"}
      /\ outcome \in {"waiting", "reading", "done", "threw"} /\ Stages /\ Split(wanted, scans)
      /\ Balance(file, wanted, scans, position, blobs, pending, delivered)
  BY <1>2, PbfInvIs
<1>4. Balance(file, wanted, scans, position, blobs, pending', delivered')
  BY <1>1, <1>3, CallingBalances
<1>5. Typed(file, wanted, scans, position, blobs, pending', delivered')
  <2>1. pending \in Seq(Calls(file)) /\ delivered \in Seq(Calls(file))
    BY <1>3 DEF Typed
  <2>2. pending[1] \in Calls(file) /\ SubSeq(pending, 2, Len(pending)) \in Seq(Calls(file))
    BY <1>1, <2>1, HeadAndRest
  <2>3. Append(delivered, pending[1]) \in Seq(Calls(file))
    BY <2>1, <2>2
  <2> QED BY <1>1, <1>3, <2>2, <2>3 DEF Typed
<1>6. Stages'
  BY <1>1, <1>3 DEF Stages
<1>7. PbfInv'
  BY <1>1, <1>2, <1>3, <1>4, <1>5, <1>6, PbfInvNext
<1> QED BY <1>1, <1>2, <1>7 DEF Inv

LEMMA ThrowsHolds == Inv /\ Throws /\ UNCHANGED importVars => Inv'
<1> SUFFICES ASSUME Inv, Throws, UNCHANGED importVars PROVE Inv'
  OBVIOUS
<1>1. /\ file' = file /\ job' = job /\ wanted' = wanted /\ scans' = scans /\ blobs' = blobs /\ position' = position
      /\ inflater' = inflater /\ pending' = pending /\ delivered' = delivered /\ outcome' = "threw"
  BY DEF Throws, sourceVars, inflaterVars, scanVars, importVars
<1>2. file \in Files /\ job \in Jobs /\ PbfInv
  BY DEF Inv
<1>3. Stages /\ (Stages => Stages')
  BY <1>1, <1>2, PbfInvIs DEF Stages
<1>4. PbfInv'
  BY <1>1, <1>2, <1>3, PbfInvIs, PbfInvNext
<1> QED BY <1>1, <1>2, <1>4 DEF Inv

LEMMA EndsScanHolds == Inv /\ EndsScan /\ UNCHANGED importVars => Inv'
<1> SUFFICES ASSUME Inv, EndsScan, UNCHANGED importVars PROVE Inv'
  OBVIOUS
<1>1. /\ file' = file /\ job' = job /\ wanted' = wanted /\ pending' = pending /\ delivered' = delivered
      /\ outcome = "reading" /\ pending = <<>> /\ blobs = <<>> /\ inflater = "ended"
  BY DEF EndsScan, sourceVars, importVars
<1>2. file \in Files /\ job \in Jobs /\ PbfInv
  BY DEF Inv
<1>3. /\ Typed(file, wanted, scans, position, blobs, pending, delivered)
      /\ outcome \in {"waiting", "reading", "done", "threw"} /\ Stages /\ Split(wanted, scans)
      /\ Balance(file, wanted, scans, position, blobs, pending, delivered)
  BY <1>2, PbfInvIs
<1>4. position = Len(file) + 1
  BY <1>1, <1>3 DEF Stages
<1>5. CASE Len(scans) > 1
  <2>1. /\ position' = 1 /\ inflater' = "running" /\ blobs' = <<>> /\ outcome' = outcome
        /\ scans' = SubSeq(scans, 2, Len(scans))
    BY <1>5 DEF EndsScan, OpenReaders
  <2>2. Balance(file, wanted, scans', 1, <<>>, <<>>, delivered) /\ Split(wanted, scans')
    BY <1>1, <1>3, <1>4, <1>5, <2>1, RestartBalances
  <2>3. Typed(file, wanted, scans', 1, <<>>, <<>>, delivered)
    <3>1. scans \in Seq(SUBSET Kinds) /\ scans # <<>>
      BY <1>3 DEF Typed
    <3>2. scans' \in Seq(SUBSET Kinds) /\ Len(scans') = Len(scans) - 1
      BY <2>1, <3>1, HeadAndRest
    <3>3. scans' # <<>>
      BY <1>5, <3>1, <3>2
    <3>4. 1 \in 1 .. Len(file) + 1
      BY <1>2, FilesAreLists
    <3> QED BY <1>1, <1>3, <3>2, <3>3, <3>4 DEF Typed
  <2>4. Stages'
    BY <1>1, <2>1 DEF Stages
  <2>5. PbfInv'
    BY <1>1, <1>2, <2>1, <2>2, <2>3, <2>4, PbfInvNext
  <2> QED BY <1>1, <1>2, <2>5 DEF Inv
<1>6. CASE ~ (Len(scans) > 1)
  <2>1. outcome' = "done" /\ position' = position /\ inflater' = inflater /\ scans' = scans /\ blobs' = blobs
    BY <1>6 DEF EndsScan, inflaterVars
  <2>2. Len(scans) = 1
    <3>1. scans \in Seq(SUBSET Kinds) /\ scans # <<>>
      BY <1>3 DEF Typed
    <3>2. PICK n : n = Len(scans)
      OBVIOUS
    <3>3. n \in Nat /\ n # 0
      BY <3>1, <3>2
    <3>4. n = 1
      BY <1>6, <3>2, <3>3
    <3> QED BY <3>2, <3>4
  <2>3. Stages'
    BY <1>1, <1>4, <2>1, <2>2 DEF Stages
  <2>4. PbfInv'
    BY <1>1, <1>2, <1>3, <2>1, <2>3, PbfInvNext
  <2> QED BY <1>1, <1>2, <2>4 DEF Inv
<1> QED BY <1>5, <1>6

LEMMA StartsLoadingHolds == Inv /\ StartsLoading => Inv'
<1> SUFFICES ASSUME Inv, StartsLoading PROVE Inv'
  OBVIOUS
<1>1. /\ file' = file /\ job' = job /\ wanted' = (IF job.turns THEN Kinds ELSE {"node", "way"}) /\ scans' = <<wanted'>>
      /\ position' = 1 /\ inflater' = "running" /\ blobs' = <<>> /\ pending' = <<>> /\ delivered' = <<>>
      /\ outcome' = "waiting"
  BY DEF StartsLoading, Call, OpenReaders
<1>2. file \in Files /\ job \in Jobs
  BY DEF Inv
<1>3. wanted' \in SUBSET Kinds /\ wanted' # {}
  BY <1>1 DEF Kinds
<1>4. Typed(file, wanted', scans', position', blobs', pending', delivered')
  BY <1>1, <1>2, <1>3, StartTyped
<1>5. Balance(file, wanted', scans', position', blobs', pending', delivered') /\ Split(wanted', scans')
  BY <1>1, StartBalances
<1>6. Stages'
  BY <1>1 DEF Stages
<1>7. PbfInv'
  BY <1>1, <1>2, <1>4, <1>5, <1>6, PbfInvNext
<1> QED BY <1>1, <1>2, <1>7 DEF Inv

LEMMA StillHolds == Inv /\ UNCHANGED <<pbfVars, job>> => Inv'
<1> SUFFICES ASSUME Inv, UNCHANGED <<pbfVars, job>> PROVE Inv'
  OBVIOUS
<1>1. /\ file' = file /\ job' = job /\ wanted' = wanted /\ scans' = scans /\ blobs' = blobs /\ position' = position
      /\ inflater' = inflater /\ pending' = pending /\ delivered' = delivered /\ outcome' = outcome
  BY DEF pbfVars, sourceVars, inflaterVars, scanVars
<1>2. file \in Files /\ job \in Jobs /\ PbfInv
  BY DEF Inv
<1>3. Stages /\ (Stages => Stages')
  BY <1>1, <1>2, PbfInvIs DEF Stages
<1>4. PbfInv'
  BY <1>1, <1>2, <1>3, PbfInvIs, PbfInvNext
<1> QED BY <1>1, <1>2, <1>4 DEF Inv

LEMMA NextHolds == Inv /\ [Next]_vars => Inv'
<1> SUFFICES ASSUME Inv, [Next]_vars PROVE Inv'
  OBVIOUS
<1>1. CASE Decompress /\ UNCHANGED importVars
  BY <1>1, InflatesHolds, PassesHolds DEF Decompress
<1>2. CASE SeesStatus /\ UNCHANGED importVars
  BY <1>2, SeesStatusHolds
<1>3. CASE Decode /\ UNCHANGED importVars
  BY <1>3, DecodeHolds
<1>4. CASE Throws /\ UNCHANGED importVars
  BY <1>4, ThrowsHolds
<1>5. CASE EndsScan /\ UNCHANGED importVars
  BY <1>5, EndsScanHolds
<1>6. CASE MapsWay \/ LoadsEntity
  BY <1>6, CallsBackHolds DEF MapsWay, LoadsEntity
<1>7. CASE StartsLoading
  BY <1>7, StartsLoadingHolds
<1>8. CASE BuildsGraph \/ Fails
  BY <1>8, StillHolds DEF BuildsGraph, Fails
<1>9. CASE UNCHANGED vars
  BY <1>9, StillHolds DEF vars, importVars
<1> QED BY <1>1, <1>2, <1>3, <1>4, <1>5, <1>6, <1>7, <1>8, <1>9 DEF Next, Reads, Import

(***************************************************************************)
(* In every import, whatever the files hold and however far the            *)
(* decompressor is ahead of the decoder, nothing is lost, read twice or    *)
(* out of order on the way from the file to the callbacks (OsmDecoder's    *)
(* decompressor, its reader and the scans of an ordered call).             *)
(***************************************************************************)
THEOREM ImportInvariant == Spec => []PbfInv
<1>1. Init => Inv
  BY InitHolds
<1>2. Inv /\ [Next]_vars => Inv'
  BY NextHolds
<1>3. Inv => PbfInv
  BY DEF Inv
<1> QED BY <1>1, <1>2, <1>3, PTL DEF Spec

LEMMA InvGivesEntities == Inv => EveryEntityOnce
<1> SUFFICES ASSUME Inv, outcome = "done", NEW kind \in Kinds
             PROVE  OfKind(delivered, kind) = IF kind \in wanted THEN ContentOf(kind) ELSE <<>>
  BY DEF EveryEntityOnce
<1>1. file \in Files /\ PbfInv
  BY DEF Inv
<1>2. /\ Typed(file, wanted, scans, position, blobs, pending, delivered) /\ Stages /\ Split(wanted, scans)
      /\ Balance(file, wanted, scans, position, blobs, pending, delivered)
  BY <1>1, PbfInvIs
<1>3. pending = <<>> /\ blobs = <<>> /\ position = Len(file) + 1 /\ Len(scans) = 1
  BY <1>2 DEF Stages
<1>4. PICK D : D = OfKind(delivered, kind)
  OBVIOUS
<1>5. ContentOf(kind) = Content(file, Only(kind), Len(file))
  BY DEF ContentOf, ContentTo, DecodedTo, Only, Content, Decoded
<1>6. CASE kind \in scans[1]
  <2>1. Linked(D, Linked(OfKind(<<>>, kind), Reading(file, <<>>, Only(kind)))) = Content(file, Only(kind), position - 1)
    BY <1>2, <1>3, <1>4, <1>6, NothingThrows DEF Balance, Account
  <2>2. position - 1 = Len(file)
    BY <1>1, <1>3, FilesAreLists
  <2>3. Linked(D, Linked(<<>>, <<>>)) = D
    <3>1. <<>> \in Seq(Calls(file)) /\ D \in Seq(Calls(file))
      BY <1>2, <1>4, AccountTypes
    <3>2. Linked(<<>>, <<>>) = <<>>
      BY <3>1, LinkedTypes
    <3> QED BY <3>1, <3>2, LinkedTypes
  <2>4. kind \in wanted
    <3>1. 1 \in 1 .. Len(scans)
      BY <1>3
    <3> QED BY <1>2, <1>6, <3>1 DEF Split
  <2> QED BY <1>4, <1>5, <2>1, <2>2, <2>3, <2>4, OfKindNone, ReadingNone
<1>7. CASE kind \notin scans[1]
  <2>1. D = Final(file, wanted, scans, kind)
    BY <1>2, <1>3, <1>4, <1>7, NothingThrows DEF Balance
  <2>2. ~After(scans, kind)
    BY <1>3 DEF After
  <2> QED BY <1>4, <1>5, <2>1, <2>2 DEF Final
<1> QED BY <1>6, <1>7

(***************************************************************************)
(* A call that returns has called back once for every entity of the file   *)
(* it was asked for, kind by kind in the file's order, whether it took one *)
(* scan or three (unordered_read_osm_pbf, ordered_read_osm_pbf).           *)
(***************************************************************************)
THEOREM EntitiesOnce == Spec => []EveryEntityOnce
<1>1. Init => Inv
  BY InitHolds
<1>2. Inv /\ [Next]_vars => Inv'
  BY NextHolds
<1>3. Inv => EveryEntityOnce
  BY InvGivesEntities
<1> QED BY <1>1, <1>2, <1>3, PTL DEF Spec

-----------------------------------------------------------------------------
(* Speeds.                                                                 *)
SpeedEntries(x) == Len(x) \in Nat /\ \A i \in 1 .. Len(x) : x[i].n \in Nat

LEMMA InfinityIs == InfWeight \in Nat /\ InfWeight > 1000
BY SMT DEF InfWeight

LEMMA WordSpeedsAre == \A w \in DOMAIN WordSpeeds : WordSpeeds[w] \in 1 .. InfWeight
BY InfinityIs DEF WordSpeeds

LEMMA ParsedSpeed == ASSUME NEW e, e.n \in Nat PROVE ParseMaxspeed(e) \in Nat
<1> PICK n \in Nat : n = e.n
  OBVIOUS
<1>1. InfWeight \in Nat /\ (n * 1609) \div 1000 \in Nat /\ (n * 1852) \div 1000 \in Nat
  BY InfinityIs
<1>2. \A w \in DOMAIN WordSpeeds : WordSpeeds[w] \in Nat
  BY <1>1, WordSpeedsAre
<1>a. PICK mph, knots : mph = (n * 1609) \div 1000 /\ knots = (n * 1852) \div 1000
  OBVIOUS
<1>3. ParseMaxspeed(e) = IF e.word # "" THEN (IF e.word \in DOMAIN WordSpeeds THEN WordSpeeds[e.word] ELSE InfWeight)
                         ELSE IF e.unit = "mph" THEN mph ELSE IF e.unit = "knots" THEN knots ELSE n
  BY <1>a DEF ParseMaxspeed
<1>4. mph \in Nat /\ knots \in Nat
  BY <1>1, <1>a
<1>5. \A w : (IF w \in DOMAIN WordSpeeds THEN WordSpeeds[w] ELSE InfWeight) \in Nat
  BY <1>2, InfinityIs
<1> QED BY <1>3, <1>4, <1>5

LEMMA SpeedTagRead ==
  ASSUME NEW t, NEW key, Has(t, key) => SpeedEntries(t[key])
  PROVE  ParseSpeedTag(t, key) \in 1 .. InfWeight
<1>0. InfWeight \in Nat /\ InfWeight > 0
  BY InfinityIs
<1>1. ParseSpeedTagAsIs(t, key) \in 0 .. InfWeight
  <2>1. CASE ~Has(t, key)
    BY <1>0, <2>1 DEF ParseSpeedTagAsIs
  <2>2. CASE Has(t, key)
    <3> DEFINE S == {InfWeight} \cup {ParseMaxspeed(t[key][i]) : i \in 1 .. Len(t[key])}
    <3>1. S \in SUBSET Nat /\ S # {} /\ InfWeight \in S
      BY <1>0, <2>2, ParsedSpeed DEF SpeedEntries
    <3>2. ParseSpeedTagAsIs(t, key) = Min(S)
      BY <2>2 DEF ParseSpeedTagAsIs
    <3> HIDE DEF S
    <3>3. \E x \in S : \A y \in S : x <= y
      BY <3>1, NatHasLeast
    <3>4. Min(S) \in S /\ \A y \in S : Min(S) <= y
      BY <3>3 DEF Min
    <3>5. Min(S) \in Nat /\ Min(S) <= InfWeight
      BY <3>1, <3>4
    <3> QED BY <1>0, <3>2, <3>5
  <2> QED BY <2>1, <2>2
<1> QED BY <1>0, <1>1 DEF ParseSpeedTag

LEMMA DefaultsAre ==
  /\ \A k \in DOMAIN CarSpeeds : CarSpeeds[k] \in 1 .. InfWeight - 1
  /\ \A k \in DOMAIN MotorcycleSpeeds : MotorcycleSpeeds[k] \in 1 .. InfWeight - 1
<1>1. \A k \in DOMAIN CarSpeeds : CarSpeeds[k] \in 1 .. 100
  BY DEF CarSpeeds
<1>2. \A k \in DOMAIN MotorcycleSpeeds : MotorcycleSpeeds[k] \in 1 .. 100
  BY DEF MotorcycleSpeeds
<1> QED BY <1>1, <1>2, InfinityIs

LEMMA DefaultSpeedIs ==
  ASSUME NEW t, NEW speeds, \A k \in DOMAIN speeds : speeds[k] \in 1 .. InfWeight - 1, NEW j \in {15, 20}
  PROVE  DefaultSpeed(t, speeds, j) \in 1 .. InfWeight - 1
<1>1. {j, 5, 50} \subseteq 1 .. InfWeight - 1
  BY InfinityIs
<1> QED BY <1>1 DEF DefaultSpeed, Is

SpeedTagsIn(t) == \A key \in {"maxspeed", "maxspeed:motorcycle"} : Has(t, key) => SpeedEntries(t[key])
LEMMA WaySpeed ==
  ASSUME NEW profile \in {"car", "motorcycle"}, NEW t, SpeedTagsIn(t)
  PROVE  WayValue(profile, t) \in 1 .. InfWeight - 1
<1>0. InfWeight \in Nat
  BY InfinityIs
<1>1. ParseSpeedTag(t, "maxspeed") \in 1 .. InfWeight /\ ParseSpeedTag(t, "maxspeed:motorcycle") \in 1 .. InfWeight
  BY SpeedTagRead DEF SpeedTagsIn
<1>2. CarSpeed(t) \in 1 .. InfWeight - 1
  <2>1. DefaultSpeed(t, CarSpeeds, 15) \in 1 .. InfWeight - 1
    BY DefaultsAre, DefaultSpeedIs
  <2> QED BY <1>0, <1>1, <2>1 DEF CarSpeed
<1>3. MotorcycleSpeed(t) \in 1 .. InfWeight - 1
  <2>1. DefaultSpeed(t, MotorcycleSpeeds, 20) \in 1 .. InfWeight - 1
    BY DefaultsAre, DefaultSpeedIs
  <2> QED BY <1>0, <1>1, <2>1 DEF MotorcycleSpeed
<1>4. WayValue(profile, t) = IF profile = "car" THEN CarSpeed(t) ELSE MotorcycleSpeed(t)
  BY DEF WayValue
<1> QED BY <1>2, <1>3, <1>4

\* A way or a relation called back for stands in a group of its kind.
LEMMA CalledWay ==
  ASSUME NEW f \in Files, NEW e \in Calls(f), e.kind = "way"
  PROVE  \E i \in DataIn(f) : \E g \in ToSet(f[i].groups) :
           /\ g.kind = "way" /\ ~TagsBroken(f[i], g.keys, g.values)
           /\ e = [kind |-> "way", id |-> g.id, tags |-> TagMap(f[i], g.keys, g.values), nodes |-> RunningSums(g.refs)]
<1>1. e # Throw
  BY DEF Throw
<1>a. PICK i \in DataIn(f) : \E g \in ToSet(f[i].groups) : e \in ToSet(DecodeGroup(f[i], g))
  BY <1>1 DEF Calls
<1>2. PICK g \in ToSet(f[i].groups) : e \in ToSet(DecodeGroup(f[i], g))
  BY <1>a
<1> PICK b : b = f[i]
  OBVIOUS
<1>3. b.type = "OSMData" /\ i \in DOMAIN f
  BY FilesAssumption DEF DataIn, IsList
<1>4. g.kind \in Kinds \cup {"dense"} /\ (g.kind = "dense" => IsList(g.ids) /\ IsList(g.lats) /\ IsList(g.lons))
  BY <1>3, FilesAssumption
<1>5. Gives(DecodeGroup(b, g), KindOf(g))
  BY <1>4, GroupDecodes
<1>6. KindOf(g) = "way"
  <2>1. PICK k \in DOMAIN DecodeGroup(b, g) : DecodeGroup(b, g)[k] = e
    BY <1>2 DEF ToSet
  <2>2. k \in 1 .. Len(DecodeGroup(b, g))
    BY <1>5, <2>1 DEF Gives, IsList
  <2> QED BY <1>1, <1>5, <2>1, <2>2 DEF Gives
<1>7. g.kind = "way"
  BY <1>6 DEF KindOf
<1> PICK w : w = [kind |-> "way", id |-> g.id, tags |-> TagMap(b, g.keys, g.values), nodes |-> RunningSums(g.refs)]
  OBVIOUS
<1>8. DecodeGroup(b, g) = IF g.id = 0 \/ TagsBroken(b, g.keys, g.values) THEN <<Throw>> ELSE <<w>>
  BY <1>7 DEF DecodeGroup, DecodeWay, Tagged
<1>9. \A x : ToSet(<<x>>) = {x}
  BY DEF ToSet
<1>10. e = w /\ ~TagsBroken(b, g.keys, g.values)
  BY <1>1, <1>2, <1>8, <1>9
<1> QED BY <1>2, <1>7, <1>10

LEMMA TagMapAt ==
  ASSUME NEW b, NEW keys, NEW values, NEW key \in DOMAIN TagMap(b, keys, values)
  PROVE  \E j \in DOMAIN keys : b.table[keys[j]] = key /\ TagMap(b, keys, values)[key] = b.table[values[j]]
<1> DEFINE j == CHOOSE i \in DOMAIN keys : b.table[keys[i]] = key
<1>1. key \in {b.table[keys[i]] : i \in DOMAIN keys}
  BY DEF TagMap
<1>2. j \in DOMAIN keys /\ b.table[keys[j]] = key
  BY <1>1
<1>3. TagMap(b, keys, values)[key] = b.table[values[j]]
  BY <1>1 DEF TagMap
<1> QED BY <1>2, <1>3

LEMMA CalledWaySpeeds ==
  ASSUME NEW f \in Files, NEW e \in Calls(f), e.kind = "way"
  PROVE  SpeedTagsIn(e.tags)
<1>a. PICK i \in DataIn(f) : \E g \in ToSet(f[i].groups) :
           /\ g.kind = "way" /\ ~TagsBroken(f[i], g.keys, g.values)
           /\ e = [kind |-> "way", id |-> g.id, tags |-> TagMap(f[i], g.keys, g.values), nodes |-> RunningSums(g.refs)]
  BY CalledWay
<1>1. PICK g \in ToSet(f[i].groups) :
           /\ g.kind = "way" /\ ~TagsBroken(f[i], g.keys, g.values)
           /\ e = [kind |-> "way", id |-> g.id, tags |-> TagMap(f[i], g.keys, g.values), nodes |-> RunningSums(g.refs)]
  BY <1>a
<1>2. f[i].type = "OSMData" /\ i \in DOMAIN f
  BY FilesAssumption DEF DataIn, IsList
<1>3. SpeedsReadable(f[i], g)
  BY <1>1, <1>2, FilesAssumption
<1> PICK b, t : b = f[i] /\ t = TagMap(b, g.keys, g.values)
  OBVIOUS
<1>4. e.tags = t
  BY <1>1
<1> SUFFICES ASSUME NEW key \in {"maxspeed", "maxspeed:motorcycle"}, Has(t, key) PROVE SpeedEntries(t[key])
  BY <1>4 DEF SpeedTagsIn
<1>5. PICK j \in DOMAIN g.keys : b.table[g.keys[j]] = key /\ t[key] = b.table[g.values[j]]
  BY TagMapAt DEF Has
<1>8. IsList(t[key]) /\ \A x \in ToSet(t[key]) : x.n \in Nat
  BY <1>3, <1>5 DEF SpeedsReadable
<1>9. Len(t[key]) \in Nat /\ DOMAIN t[key] = 1 .. Len(t[key])
  BY <1>8 DEF IsList
<1>10. \A l \in 1 .. Len(t[key]) : t[key][l] \in ToSet(t[key])
  BY <1>9 DEF ToSet
<1> QED BY <1>8, <1>9, <1>10 DEF SpeedEntries

-----------------------------------------------------------------------------
(* Every step keeps the speeds.                                            *)
IsBuilder(b) == DOMAIN b = {"position", "arcs", "values", "restrictions"} /\ b = [x \in DOMAIN b |-> b[x]]
SpeedsIn(b) == \A w \in DOMAIN b.values : b.values[w] \in 1 .. InfWeight - 1

LEMMA EmptyBuilderIs == ASSUME NEW m PROVE IsBuilder(EmptyBuilder(m)) /\ SpeedsIn(EmptyBuilder(m))
BY DEF IsBuilder, SpeedsIn, EmptyBuilder

LEMMA NodeLoaded ==
  ASSUME NEW b, NEW m, NEW e, IsBuilder(b)
  PROVE  /\ IsBuilder(LoadNode(b, m, e)) /\ LoadNode(b, m, e).values = b.values
         /\ LoadNode(b, m, e).arcs = b.arcs /\ LoadNode(b, m, e).restrictions = b.restrictions
         /\ LoadNode(b, m, e).position =
              IF e.id \in m.modelling THEN [b.position EXCEPT ![e.id] = [lat |-> e.lat, lon |-> e.lon]] ELSE b.position
BY DEF IsBuilder, LoadNode

LEMMA RelationLoaded ==
  ASSUME NEW b, NEW profile, NEW e, IsBuilder(b)
  PROVE  /\ IsBuilder(LoadRelation(b, profile, e)) /\ LoadRelation(b, profile, e).values = b.values
         /\ LoadRelation(b, profile, e).arcs = b.arcs /\ LoadRelation(b, profile, e).position = b.position
         /\ LoadRelation(b, profile, e).restrictions = b.restrictions \o TurnRestrictions(profile, e)
BY DEF IsBuilder, LoadRelation

\* The arcs the walk along a way finds, where it ends.
Walked(b, m, profile, geometry, w) ==
  LET direction == DirectionOf(profile, w.tags)
      start == [last |-> w.nodes[1], points |-> <<>>, dist |-> 0, arcs |-> <<>>]
      walk[i \in 1 .. Len(w.nodes)] == IF i = 1 THEN start ELSE StepAlong(b, m, geometry, w, direction, walk[i - 1], i)
  IN  walk[Len(w.nodes)].arcs
Valued(b, profile, w) ==
  [v \in DOMAIN b.values \cup {w.id} |-> IF v = w.id THEN WayValue(profile, w.tags) ELSE b.values[v]]
ValuesSet(b, x) == [b EXCEPT !.values = x]
ArcsSet(b, x) == [b EXCEPT !.arcs = x]
LEMMA WayLoads ==
  ASSUME NEW b, NEW m, NEW profile, NEW geometry, NEW w
  PROVE  LoadWay(b, m, profile, geometry, w) =
           IF w.id \notin m.ways THEN b
           ELSE IF DirectionOf(profile, w.tags) = "closed" THEN ValuesSet(b, Valued(b, profile, w))
           ELSE ArcsSet(ValuesSet(b, Valued(b, profile, w)),
                        ValuesSet(b, Valued(b, profile, w)).arcs \o Walked(b, m, profile, geometry, w))
<1>1. CASE w.id \notin m.ways
  BY <1>1 DEF LoadWay
<1>2. CASE w.id \in m.ways /\ DirectionOf(profile, w.tags) = "closed"
  BY <1>2 DEF LoadWay, Valued, ValuesSet
<1>3. CASE w.id \in m.ways /\ DirectionOf(profile, w.tags) # "closed"
  BY <1>3 DEF LoadWay, Valued, Walked, ValuesSet, ArcsSet
<1> QED BY <1>1, <1>2, <1>3

LEMMA WayLoaded ==
  ASSUME NEW b, NEW m, NEW profile, NEW geometry, NEW w, IsBuilder(b)
  PROVE  /\ IsBuilder(LoadWay(b, m, profile, geometry, w))
         /\ LoadWay(b, m, profile, geometry, w).restrictions = b.restrictions
         /\ LoadWay(b, m, profile, geometry, w).position = b.position
         /\ LoadWay(b, m, profile, geometry, w).values = IF w.id \in m.ways THEN Valued(b, profile, w) ELSE b.values
         /\ LoadWay(b, m, profile, geometry, w).arcs =
              IF w.id \in m.ways /\ DirectionOf(profile, w.tags) # "closed"
              THEN b.arcs \o Walked(b, m, profile, geometry, w) ELSE b.arcs
<1>1. PICK V, v, A, c : /\ V = Valued(b, profile, w) /\ v = ValuesSet(b, V) /\ A = b.arcs \o Walked(b, m, profile, geometry, w)
                        /\ c = LoadWay(b, m, profile, geometry, w)
  OBVIOUS
<1>2. IsBuilder(v) /\ v.values = V /\ v.arcs = b.arcs /\ v.position = b.position /\ v.restrictions = b.restrictions
  BY <1>1 DEF IsBuilder, ValuesSet
<1>3. PICK u : u = ArcsSet(v, A)
  OBVIOUS
<1>4. IsBuilder(u) /\ u.values = V /\ u.arcs = A /\ u.position = b.position /\ u.restrictions = b.restrictions
  BY <1>2, <1>3 DEF IsBuilder, ArcsSet
<1>5. c = IF w.id \notin m.ways THEN b ELSE IF DirectionOf(profile, w.tags) = "closed" THEN v ELSE u
  BY <1>1, <1>2, <1>3, WayLoads
<1>6. /\ IsBuilder(c) /\ c.restrictions = b.restrictions /\ c.position = b.position
      /\ c.values = IF w.id \in m.ways THEN V ELSE b.values
      /\ c.arcs = IF w.id \in m.ways /\ DirectionOf(profile, w.tags) # "closed" THEN A ELSE b.arcs
  BY <1>2, <1>4, <1>5
<1> QED BY <1>1, <1>6

SpeedInv == IsBuilder(builder) /\ (job.profile \in {"car", "motorcycle"} => SpeedsIn(builder))

LEMMA SpeedInit == Init => SpeedInv
BY EmptyBuilderIs DEF Init, SpeedInv

LEMMA LoadingKeepsSpeeds == Inv /\ SpeedInv /\ LoadsEntity => SpeedInv'
<1> SUFFICES ASSUME Inv, SpeedInv, LoadsEntity PROVE SpeedInv'
  OBVIOUS
<1>1. PICK e : e = pending[1]
  OBVIOUS
<1>2. job' = job /\ IsBuilder(builder) /\ (job.profile \in {"car", "motorcycle"} => SpeedsIn(builder))
  BY DEF LoadsEntity, SpeedInv
<1>3. file \in Files /\ e \in Calls(file)
  <2>1. pending \in Seq(Calls(file)) /\ pending # <<>>
    BY DEF Inv, PbfInv, PbfTypeOK, LoadsEntity, CallsBack
  <2> QED BY <1>1, <2>1 DEF Inv
<1>4. \/ e.kind = "node" /\ builder' = LoadNode(builder, mapping, e)
      \/ e.kind = "way" /\ builder' = LoadWay(builder, mapping, job.profile, Geometry, e)
      \/ e.kind = "relation" /\ builder' = LoadRelation(builder, job.profile, e)
  BY <1>1 DEF LoadsEntity, OnNode, OnWay, OnRelation
<1>5. CASE builder' = LoadNode(builder, mapping, e)
  <2>1. IsBuilder(builder') /\ builder'.values = builder.values
    BY <1>2, <1>5, NodeLoaded
  <2> QED BY <1>2, <2>1 DEF SpeedInv, SpeedsIn
<1>6. CASE builder' = LoadRelation(builder, job.profile, e)
  <2>1. IsBuilder(builder') /\ builder'.values = builder.values
    BY <1>2, <1>6, RelationLoaded
  <2> QED BY <1>2, <2>1 DEF SpeedInv, SpeedsIn
<1>7. CASE e.kind = "way" /\ builder' = LoadWay(builder, mapping, job.profile, Geometry, e)
  <2>1. /\ IsBuilder(builder')
        /\ builder'.values = IF e.id \in mapping.ways THEN Valued(builder, job.profile, e) ELSE builder.values
    BY <1>2, <1>7, WayLoaded
  <2> SUFFICES ASSUME job.profile \in {"car", "motorcycle"} PROVE SpeedsIn(builder')
    BY <1>2, <2>1 DEF SpeedInv
  <2>2. WayValue(job.profile, e.tags) \in 1 .. InfWeight - 1
    BY <1>3, <1>7, CalledWaySpeeds, WaySpeed
  <2>3. \A w \in DOMAIN Valued(builder, job.profile, e) : Valued(builder, job.profile, e)[w] \in 1 .. InfWeight - 1
    BY <1>2, <2>2 DEF Valued, SpeedsIn
  <2> QED BY <1>2, <2>1, <2>3 DEF SpeedsIn
<1> QED BY <1>4, <1>5, <1>6, <1>7

LEMMA SpeedStep == Inv /\ SpeedInv /\ [Next]_vars => SpeedInv'
<1> SUFFICES ASSUME Inv, SpeedInv, [Next]_vars PROVE SpeedInv'
  OBVIOUS
<1>1. CASE UNCHANGED importVars
  BY <1>1 DEF SpeedInv, SpeedsIn, importVars
<1>2. CASE MapsWay \/ BuildsGraph \/ Fails
  BY <1>2 DEF SpeedInv, SpeedsIn, MapsWay, BuildsGraph, Fails
<1>3. CASE LoadsEntity
  BY <1>3, LoadingKeepsSpeeds
<1>4. CASE StartsLoading
  BY <1>4, EmptyBuilderIs DEF SpeedInv, SpeedsIn, StartsLoading
<1> QED BY <1>1, <1>2, <1>3, <1>4 DEF Next, Reads, Import, vars

LEMMA SpeedInvSuffices == SpeedInv => SpeedsAreUsable
<1> SUFFICES ASSUME SpeedInv, job.profile \in {"car", "motorcycle"}, NEW w \in DOMAIN builder.values
             PROVE  builder.values[w] > 0 /\ builder.values[w] < InfWeight
  BY DEF SpeedsAreUsable
<1> QED BY InfinityIs DEF SpeedInv, SpeedsIn

(***************************************************************************)
(* Every way of a graph for cars or motorcycles gets a speed that travel   *)
(* times can be divided by, whatever its tags say (get_osm_car_speed,      *)
(* parse_maxspeed_tag).                                                    *)
(***************************************************************************)
THEOREM UsableSpeeds == Spec => []SpeedsAreUsable
<1>1. Init => Inv /\ SpeedInv
  BY InitHolds, SpeedInit
<1>2. Inv /\ SpeedInv /\ [Next]_vars => Inv' /\ SpeedInv'
  BY NextHolds, SpeedStep
<1>3. SpeedInv => SpeedsAreUsable
  BY SpeedInvSuffices
<1> QED BY <1>1, <1>2, <1>3, PTL DEF Spec

-----------------------------------------------------------------------------
(* The entities of a kind, in the order a call hands them over.            *)
LEMMA OfKindHas ==
  ASSUME NEW S, NEW s \in Seq(S), NEW kind
  PROVE  OfKind(s, kind) \in Seq({x \in S : x.kind = kind})
<1> PICK T : T = {x \in S : x.kind = kind}
  OBVIOUS
<1>1. DOMAIN s = 1 .. Len(s) /\ Len(s) \in Nat /\ \A i \in 1 .. Len(s) : s[i] \in S
  OBVIOUS
<1>2. <<>> \in Seq(T) /\ \A x \in T : <<x>> \in Seq(T)
  OBVIOUS
<1>3. \A i \in 1 .. Len(s) : (IF s[i].kind = kind THEN <<s[i]>> ELSE <<>>) \in Seq(T)
  BY <1>1, <1>2
<1>4. Parts(s, kind) \in [1 .. Len(s) -> Seq(T)]
  BY <1>1, <1>3 DEF Parts
<1>5. Parts(s, kind) \in Seq(Seq(T))
  BY <1>1, <1>4, FunctionIsList
<1> QED BY <1>5, OfKindIs, FlattenTypes

LEMMA OfKindAgain ==
  ASSUME NEW S, NEW s \in Seq(S), NEW kind
  PROVE  OfKind(OfKind(s, kind), kind) = OfKind(s, kind)
<1> PICK T, u : T = {x \in S : x.kind = kind} /\ u = OfKind(s, kind)
  OBVIOUS
<1>1. u \in Seq(T)
  BY OfKindHas
<1>2. \A i \in 1 .. Len(u) : u[i].kind = kind
  BY <1>1
<1> QED BY <1>1, <1>2, OfKindAll
Starts(s, t, S) == \E x \in Seq(S) : t = Linked(s, x)
LEMMA ContentGrows ==
  ASSUME NEW f \in Files, NEW active, NEW n \in 0 .. Len(f)
  PROVE  Starts(Content(f, active, n), Content(f, active, Len(f)), Calls(f))
<1> PICK S : S = Calls(f)
  OBVIOUS
<1> DEFINE T == {k \in Nat : n + k \in 0 .. Len(f) => Starts(Content(f, active, n), Content(f, active, n + k), S)}
<1>0. Len(f) \in Nat /\ n \in Nat
  BY FilesAreLists
<1>1. 0 \in T
  <2>1. Content(f, active, n) \in Seq(S) /\ <<>> \in Seq(S) /\ n + 0 = n
    BY <1>0, ContentTypes
  <2>2. Content(f, active, n) = Linked(Content(f, active, n), <<>>)
    BY <2>1, LinkedTypes
  <2> QED BY <2>1, <2>2 DEF Starts
<1>2. ASSUME NEW k \in Nat, k \in T PROVE k + 1 \in T
  <2> SUFFICES ASSUME n + (k + 1) \in 0 .. Len(f) PROVE Starts(Content(f, active, n), Content(f, active, n + (k + 1)), S)
    BY DEF T
  <2> PICK p, q : p = n + (k + 1) /\ q = n + k
    OBVIOUS
  <2>1. p \in 1 .. Len(f) /\ p - 1 = q /\ q \in 0 .. Len(f)
    BY <1>0
  <2>2. PICK x \in Seq(S) : Content(f, active, q) = Linked(Content(f, active, n), x)
    BY <1>2, <2>1 DEF Starts
  <2>3. Content(f, active, p) = Linked(Content(f, active, q), Decoded(f, p, active))
    BY <2>1, ContentMore
  <2>4. Decoded(f, p, active) \in Seq(S)
    <3>1. <<>> \in Seq(S)
      OBVIOUS
    <3>2. CASE f[p].type = "OSMData"
      <4>1. p \in DataIn(f)
        BY <2>1, <3>2 DEF DataIn
      <4> QED BY <3>2, <4>1, BlockTypes DEF Decoded
    <3> QED BY <3>1, <3>2 DEF Decoded
  <2>5. PICK y \in Seq(S) : y = Decoded(f, p, active)
    BY <2>4
  <2>6. PICK s \in Seq(S) : s = Content(f, active, n)
    BY ContentTypes
  <2>7. Linked(Linked(s, x), y) = Linked(s, Linked(x, y)) /\ Linked(x, y) \in Seq(S)
    BY LinkedAssociates, LinkedTypes
  <2> QED BY <2>2, <2>3, <2>5, <2>6, <2>7 DEF Starts
<1> HIDE DEF T
<1>3. Nat \subseteq T
  BY <1>1, <1>2, InductionOnNat
<1>4. Len(f) - n \in Nat /\ n + (Len(f) - n) = Len(f) /\ Len(f) \in 0 .. Len(f)
  BY <1>0
<1> QED BY <1>3, <1>4 DEF T

\* What is handed over next is the next entity of its kind in the file.
Entities(f, kind) == OfKind(Content(f, Only(kind), Len(f)), kind)
Met(dl, kind) == ToSet(OfKind(dl, kind))
Follows(f, dl, e) == \E y \in Seq(Calls(f)) : Entities(f, e.kind) = Linked(OfKind(dl, e.kind), Linked(<<e>>, y))

LEMMA NextEntity ==
  ASSUME NEW f, NEW w, NEW ss, NEW p, NEW bs, NEW pd, NEW dl,
         Typed(f, w, ss, p, bs, pd, dl), Balance(f, w, ss, p, bs, pd, dl), ~Within(Throw, pd), pd # <<>>,
         NEW e, e = pd[1], e.kind \in Kinds
  PROVE  Follows(f, dl, e) /\ e.kind \in ss[1]
<1> PICK S, kind : S = Calls(f) /\ kind = e.kind
  OBVIOUS
<1>0. f \in Files /\ pd \in Seq(S) /\ dl \in Seq(S)
  BY DEF Typed
<1>1. PICK rest : rest = SubSeq(pd, 2, Len(pd))
  OBVIOUS
<1>2. PICK one : one = <<e>>
  OBVIOUS
<1>3. e \in S /\ one \in Seq(S) /\ rest \in Seq(S)
  BY <1>0, <1>1, <1>2, HeadAndRest
<1>4. pd = one \o rest
  BY <1>0, <1>1, <1>2, HeadAndRest
<1>5. OfKind(one \o rest, kind) = OfKind(one, kind) \o OfKind(rest, kind)
  BY <1>3, OfKindJoins
<1>6. OfKind(one, kind) = one
  <2>1. OfKind(<<e>>, kind) = IF e.kind = kind THEN <<e>> ELSE <<>>
    BY <1>3, OfKindOne
  <2> QED BY <1>2, <2>1
<1>7. PICK r, d : r = OfKind(rest, kind) /\ d = OfKind(dl, kind)
  OBVIOUS
<1>8. r \in Seq(S) /\ d \in Seq(S)
  BY <1>0, <1>3, <1>7, OfKindTypes
<1>9. OfKind(pd, kind) = Linked(one, r)
  BY <1>4, <1>5, <1>6, <1>7 DEF Linked
<1>10. OfKind(pd, kind) # <<>>
  <2>1. Len(Linked(one, r)) = Len(one) + Len(r) /\ Len(one) = 1 /\ Len(r) \in Nat
    BY <1>2, <1>3, <1>8 DEF Linked
  <2> QED BY <1>9, <2>1
<1>11. kind \in ss[1]
  BY <1>10 DEF Balance
<1>12. Account(f, p, bs, pd, dl, kind)
  BY <1>11 DEF Balance
<1>13. PICK a, c : a = Reading(f, bs, Only(kind)) /\ c = Content(f, Only(kind), p - 1)
  OBVIOUS
<1>14. a \in Seq(S) /\ c \in Seq(S)
  BY <1>13, AccountTypes
<1>15. Linked(d, Linked(Linked(one, r), a)) = c
  BY <1>7, <1>9, <1>12, <1>13 DEF Account
<1>16. PICK x \in Seq(S) : Content(f, Only(kind), Len(f)) = Linked(c, x)
  <2>1. p - 1 \in 0 .. Len(f)
    BY <1>0, FilesAreLists DEF Typed
  <2>2. Starts(c, Content(f, Only(kind), Len(f)), S)
    BY <1>0, <1>13, <2>1, ContentGrows
  <2> QED BY <2>2 DEF Starts
<1>17. PICK z \in Seq(S) : z = Linked(Linked(r, a), x)
  BY <1>8, <1>14, <1>16, LinkedTypes
<1>18. Linked(c, x) = Linked(d, Linked(one, z))
  <2>1. PICK ra \in Seq(S) : ra = Linked(r, a)
    BY <1>8, <1>14, LinkedTypes
  <2>2. Linked(Linked(one, r), a) = Linked(one, ra)
    BY <1>3, <1>8, <1>14, <2>1, LinkedAssociates
  <2>3. PICK o \in Seq(S) : o = Linked(one, ra)
    BY <1>3, LinkedTypes
  <2>4. Linked(Linked(d, o), x) = Linked(d, Linked(o, x))
    BY <1>8, LinkedAssociates
  <2>5. Linked(Linked(one, ra), x) = Linked(one, Linked(ra, x))
    BY <1>3, LinkedAssociates
  <2> QED BY <1>15, <1>17, <2>1, <2>2, <2>3, <2>4, <2>5
<1>19. PICK u \in Seq(S) : u = Linked(one, z)
  BY <1>3, LinkedTypes
<1>20. OfKind(Linked(d, u), kind) = Linked(OfKind(d, kind), OfKind(u, kind))
  <2>0. d \in Seq(S) /\ u \in Seq(S)
    BY <1>8, <1>19
  <2>1. OfKind(d \o u, kind) = OfKind(d, kind) \o OfKind(u, kind)
    BY <2>0, OfKindJoins
  <2> QED BY <2>1 DEF Linked
<1>21. OfKind(u, kind) = Linked(OfKind(one, kind), OfKind(z, kind))
  BY <1>3, <1>19, OfKindJoins DEF Linked
<1>22. OfKind(d, kind) = d
  BY <1>0, <1>7, OfKindAgain
<1>23. OfKind(z, kind) \in Seq(S)
  BY OfKindTypes
<1>24. Entities(f, kind) = Linked(d, Linked(one, OfKind(z, kind)))
  BY <1>6, <1>16, <1>18, <1>19, <1>20, <1>21, <1>22 DEF Entities
<1> QED BY <1>2, <1>7, <1>11, <1>23, <1>24 DEF Follows

LEMMA MembersOfLinked ==
  ASSUME NEW S, NEW s \in Seq(S), NEW t \in Seq(S)
  PROVE  ToSet(Linked(s, t)) = ToSet(s) \cup ToSet(t)
<1> PICK u : u = Linked(s, t)
  OBVIOUS
<1>1. /\ u = s \o t /\ DOMAIN u = 1 .. Len(s) + Len(t) /\ Len(s) \in Nat /\ Len(t) \in Nat
      /\ \A i \in 1 .. Len(s) : u[i] = s[i]
      /\ \A i \in 1 .. Len(t) : u[Len(s) + i] = t[i]
  BY DEF Linked
<1>2. DOMAIN s = 1 .. Len(s) /\ DOMAIN t = 1 .. Len(t)
  OBVIOUS
<1>3. ASSUME NEW x \in ToSet(u) PROVE x \in ToSet(s) \cup ToSet(t)
  <2>1. PICK i \in 1 .. Len(s) + Len(t) : u[i] = x
    BY <1>1 DEF ToSet
  <2>2. CASE i \in 1 .. Len(s)
    BY <1>1, <1>2, <2>1, <2>2 DEF ToSet
  <2>3. CASE i \notin 1 .. Len(s)
    <3>1. i - Len(s) \in 1 .. Len(t) /\ Len(s) + (i - Len(s)) = i
      BY <1>1, <2>3
    <3>2. t[i - Len(s)] = x
      BY <1>1, <2>1, <3>1
    <3> QED BY <1>2, <3>1, <3>2 DEF ToSet
  <2> QED BY <2>2, <2>3
<1>4. ASSUME NEW x \in ToSet(s) \cup ToSet(t) PROVE x \in ToSet(u)
  <2>1. CASE x \in ToSet(s)
    <3>1. PICK i \in 1 .. Len(s) : s[i] = x
      BY <1>2, <2>1 DEF ToSet
    <3>2. i \in 1 .. Len(s) + Len(t)
      BY <1>1
    <3> QED BY <1>1, <3>1, <3>2 DEF ToSet
  <2>2. CASE x \in ToSet(t)
    <3>1. PICK i \in 1 .. Len(t) : t[i] = x
      BY <1>2, <2>2 DEF ToSet
    <3>2. Len(s) + i \in 1 .. Len(s) + Len(t)
      BY <1>1
    <3> QED BY <1>1, <3>1, <3>2 DEF ToSet
  <2> QED BY <2>1, <2>2
<1> QED BY <1>3, <1>4

LEMMA MembersOfOne == \A x : ToSet(<<x>>) = {x}
BY DEF ToSet

LEMMA MembersIn == ASSUME NEW S, NEW s \in Seq(S) PROVE ToSet(s) \subseteq S
BY DEF ToSet

LEMMA MetMore ==
  ASSUME NEW S, NEW dl \in Seq(S), NEW e \in S, NEW kind
  PROVE  /\ OfKind(Append(dl, e), kind) = IF e.kind = kind THEN Linked(OfKind(dl, kind), <<e>>) ELSE OfKind(dl, kind)
         /\ Met(Append(dl, e), kind) = IF e.kind = kind THEN Met(dl, kind) \cup {e} ELSE Met(dl, kind)
<1>1. PICK one : one = <<e>>
  OBVIOUS
<1>2. one \in Seq(S)
  BY <1>1
<1>3. Append(dl, e) = dl \o one
  BY <1>1
<1>4. OfKind(dl \o one, kind) = OfKind(dl, kind) \o OfKind(one, kind)
  BY <1>2, OfKindJoins
<1>5. OfKind(one, kind) = IF e.kind = kind THEN one ELSE <<>>
  BY <1>1, OfKindOne
<1>6. PICK d \in Seq(S) : d = OfKind(dl, kind)
  BY OfKindTypes
<1>7. Linked(d, <<>>) = d
  BY LinkedTypes
<1>8. OfKind(Append(dl, e), kind) = IF e.kind = kind THEN Linked(d, one) ELSE d
  BY <1>3, <1>4, <1>5, <1>6, <1>7 DEF Linked
<1>9. ToSet(Linked(d, one)) = ToSet(d) \cup {e}
  <2>1. ToSet(Linked(d, one)) = ToSet(d) \cup ToSet(one)
    BY <1>2, <1>6, MembersOfLinked
  <2> QED BY <1>1, <2>1, MembersOfOne
<1> QED BY <1>1, <1>6, <1>8, <1>9 DEF Met

Longer(more, dl, e) == more = Append(dl, e)
MetMeets(more, dl, e) ==
  \A kind :
    /\ OfKind(more, kind) = IF e.kind = kind THEN Linked(OfKind(dl, kind), <<e>>) ELSE OfKind(dl, kind)
    /\ Met(more, kind) = IF e.kind = kind THEN Met(dl, kind) \cup {e} ELSE Met(dl, kind)
LEMMA MetNext ==
  ASSUME NEW S, NEW dl \in Seq(S), NEW e \in S, NEW more, Longer(more, dl, e)
  PROVE  MetMeets(more, dl, e)
BY MetMore DEF Longer, MetMeets

LEMMA MetTypes ==
  ASSUME NEW S, NEW dl \in Seq(S), NEW kind
  PROVE  \A e \in Met(dl, kind) : e \in S /\ e.kind = kind
<1>1. PICK T : T = {x \in S : x.kind = kind}
  OBVIOUS
<1>2. OfKind(dl, kind) \in Seq(T)
  BY <1>1, OfKindHas
<1>3. Met(dl, kind) \subseteq T
  BY <1>2, MembersIn DEF Met
<1> QED BY <1>1, <1>3

LEMMA MetNone == \A kind : Met(<<>>, kind) = {}
BY OfKindNone DEF Met, ToSet

LEMMA EntitiesApart ==
  ASSUME NEW f \in Files, NEW kind \in {"node", "way"}
  PROVE  IdsDiffer(Entities(f, kind))
<1>1. Entities(f, kind) = OfKind(DecodedTo(f, {kind}, Len(f)), kind)
  BY DEF Entities, Content, Decoded, Only, DecodedTo
<1> QED BY <1>1, FilesAssumption

LEMMA FollowsGives ==
  ASSUME NEW f \in Files, NEW dl \in Seq(Calls(f)), NEW e \in Calls(f), Follows(f, dl, e)
  PROVE  /\ e \in ToSet(Entities(f, e.kind))
         /\ Met(dl, e.kind) \subseteq ToSet(Entities(f, e.kind))
         /\ e.kind \in {"node", "way"} => \A d \in Met(dl, e.kind) : d.id # e.id
<1> PICK S, kind, d, one, all : S = Calls(f) /\ kind = e.kind /\ d = OfKind(dl, kind) /\ one = <<e>> /\ all = Entities(f, kind)
  OBVIOUS
<1>1. d \in Seq(S) /\ one \in Seq(S)
  BY OfKindTypes
<1>2. PICK y \in Seq(S) : all = Linked(d, Linked(one, y))
  BY DEF Follows
<1>3. PICK u \in Seq(S) : u = Linked(one, y)
  BY <1>1, LinkedTypes
<1>a. ToSet(Linked(d, u)) = ToSet(d) \cup ToSet(u)
  BY <1>1, <1>3, MembersOfLinked
<1>b. ToSet(Linked(one, y)) = ToSet(one) \cup ToSet(y)
  BY <1>1, MembersOfLinked
<1>4. ToSet(all) = ToSet(d) \cup ToSet(u) /\ ToSet(u) = ToSet(one) \cup ToSet(y)
  BY <1>2, <1>3, <1>a, <1>b
<1>5. e \in ToSet(all) /\ ToSet(d) \subseteq ToSet(all)
  BY <1>4, MembersOfOne
<1>6. ASSUME kind \in {"node", "way"}, NEW x \in ToSet(d) PROVE x.id # e.id
  <2>1. IdsDiffer(all)
    BY <1>6, EntitiesApart
  <2>2. PICK i \in 1 .. Len(d) : d[i] = x
    BY <1>1 DEF ToSet
  <2>3. Len(d) \in Nat /\ Len(u) >= 1 /\ Len(u) \in Nat /\ u[1] = e
    BY <1>1, <1>3 DEF Linked
  <2>4. DOMAIN all = 1 .. Len(d) + Len(u) /\ all[i] = x /\ all[Len(d) + 1] = e
    BY <1>1, <1>2, <1>3, <2>2, <2>3 DEF Linked
  <2>5. i \in DOMAIN all /\ Len(d) + 1 \in DOMAIN all /\ i # Len(d) + 1
    BY <2>3, <2>4
  <2> QED BY <2>1, <2>4, <2>5 DEF IdsDiffer
<1> QED BY <1>5, <1>6 DEF Met

-----------------------------------------------------------------------------
(* The first scan: the ids in use are those of the ways met so far.        *)
NodesOf(w) == {w.nodes[i] : i \in DOMAIN w.nodes}
UsedIn(profile, W) == {w \in W : Len(w.nodes) >= 2 /\ IsWayUsed(profile, w.tags)}
NodesIn(U) == UNION {NodesOf(w) : w \in U}
EndsIn(U, n) == \E w \in U : n \in {w.nodes[1], w.nodes[Len(w.nodes)]}
TwiceIn(U, n) ==
  \E v, w \in U : \E i \in DOMAIN v.nodes, j \in DOMAIN w.nodes :
    v.nodes[i] = n /\ w.nodes[j] = n /\ (v # w \/ i # j)
JunctionsIn(U, all) == {n \in NodesIn(U) : all \/ EndsIn(U, n) \/ TwiceIn(U, n)}
IsMapping(m) == m = [ways |-> m.ways, modelling |-> m.modelling, routing |-> m.routing]
MapIs(m, U, all) ==
  IsMapping(m) /\ m.ways = {w.id : w \in U} /\ m.modelling = NodesIn(U) /\ m.routing = JunctionsIn(U, all)

LEMMA NothingMapped == \A all : MapIs(EmptyMapping, {}, all)
BY DEF MapIs, IsMapping, EmptyMapping, NodesIn, JunctionsIn

Again(m, ns, i) == {ns[k] : k \in {k \in 1 .. i : ns[k] \in m.modelling \/ \E l \in 1 .. k - 1 : ns[l] = ns[k]}}
FirstOf(ns, i) == {ns[j] : j \in 1 .. i}
Seen(m, id, ns, i) ==
  [ways |-> m.ways \cup {id}, modelling |-> m.modelling \cup FirstOf(ns, i), routing |-> m.routing \cup Again(m, ns, i)]

LEMMA FirstOfMore == ASSUME NEW ns, NEW i \in Nat PROVE FirstOf(ns, i + 1) = FirstOf(ns, i) \cup {ns[i + 1]}
<1>1. \A j : j \in 1 .. i + 1 <=> (j \in 1 .. i \/ j = i + 1)
  OBVIOUS
<1> QED BY <1>1, Zenon DEF FirstOf

LEMMA AgainMore ==
  ASSUME NEW m, NEW ns, NEW i \in Nat
  PROVE  Again(m, ns, i + 1) = IF ns[i + 1] \in m.modelling \cup FirstOf(ns, i) THEN Again(m, ns, i) \cup {ns[i + 1]} ELSE Again(m, ns, i)
<1>1. \A j : j \in 1 .. i + 1 <=> (j \in 1 .. i \/ j = i + 1)
  OBVIOUS
<1>2. (i + 1) - 1 = i
  OBVIOUS
<1> DEFINE Hits(k) == ns[k] \in m.modelling \/ \E l \in 1 .. k - 1 : ns[l] = ns[k]
<1>3. Hits(i + 1) <=> ns[i + 1] \in m.modelling \cup FirstOf(ns, i)
  BY <1>2, Zenon DEF FirstOf
<1>4. \A n : n \in Again(m, ns, i) <=> \E k \in 1 .. i : Hits(k) /\ n = ns[k]
  BY Zenon DEF Again
<1>5. \A n : n \in Again(m, ns, i + 1) <=> \E k \in 1 .. i + 1 : Hits(k) /\ n = ns[k]
  BY Zenon DEF Again
<1> HIDE DEF Hits
<1> QED BY <1>1, <1>3, <1>4, <1>5

LEMMA SeenMore ==
  ASSUME NEW m, NEW id, NEW ns, NEW i \in Nat
  PROVE  MapNode(Seen(m, id, ns, i), ns[i + 1]) = Seen(m, id, ns, i + 1)
<1> PICK n, M, A, W, R : /\ n = ns[i + 1] /\ M = m.modelling \cup FirstOf(ns, i) /\ A = Again(m, ns, i)
                         /\ W = m.ways \cup {id} /\ R = m.routing \cup A
  OBVIOUS
<1>1. Seen(m, id, ns, i) = [ways |-> W, modelling |-> M, routing |-> R]
  BY DEF Seen
<1>2. Seen(m, id, ns, i + 1) = [ways |-> W, modelling |-> M \cup {n}, routing |-> m.routing \cup Again(m, ns, i + 1)]
  <2>1. m.modelling \cup FirstOf(ns, i + 1) = M \cup {n}
    BY FirstOfMore
  <2> QED BY <2>1 DEF Seen
<1>3. CASE n \in M
  <2>1. m.routing \cup Again(m, ns, i + 1) = R \cup {n} /\ M \cup {n} = M
    BY <1>3, AgainMore
  <2>2. MapNode([ways |-> W, modelling |-> M, routing |-> R], n) = [ways |-> W, modelling |-> M, routing |-> R \cup {n}]
    BY <1>3 DEF MapNode
  <2> QED BY <1>1, <1>2, <2>1, <2>2
<1>4. CASE n \notin M
  <2>1. m.routing \cup Again(m, ns, i + 1) = R
    BY <1>4, AgainMore
  <2>2. MapNode([ways |-> W, modelling |-> M, routing |-> R], n) = [ways |-> W, modelling |-> M \cup {n}, routing |-> R]
    BY <1>4 DEF MapNode
  <2> QED BY <1>1, <1>2, <2>1, <2>2
<1> QED BY <1>3, <1>4

Sights(g, m, id, ns, n) ==
  g = [i \in 0 .. n |-> IF i = 0 THEN [m EXCEPT !.ways = @ \cup {id}] ELSE MapNode(g[i - 1], ns[i])]

LEMMA SeenFirst ==
  ASSUME NEW m, NEW id, NEW ns, IsMapping(m)
  PROVE  [m EXCEPT !.ways = @ \cup {id}] = Seen(m, id, ns, 0)
<1>1. FirstOf(ns, 0) = {} /\ Again(m, ns, 0) = {}
  BY DEF FirstOf, Again
<1>2. PICK W, M, R : W = m.ways /\ M = m.modelling /\ R = m.routing
  OBVIOUS
<1>3. m = [ways |-> W, modelling |-> M, routing |-> R]
  BY <1>2 DEF IsMapping
<1>4. [m EXCEPT !.ways = @ \cup {id}] = [ways |-> W \cup {id}, modelling |-> M, routing |-> R]
  BY <1>3
<1> QED BY <1>1, <1>2, <1>4 DEF Seen

LEMMA SightsExist ==
  ASSUME NEW m, NEW id, NEW ns, NEW n \in Nat, IsMapping(m)
  PROVE  \E g : Sights(g, m, id, ns, n)
<1> PICK g : g = [i \in 0 .. n |-> Seen(m, id, ns, i)]
  OBVIOUS
<1>1. \A i \in 0 .. n : g[i] = IF i = 0 THEN [m EXCEPT !.ways = @ \cup {id}] ELSE MapNode(g[i - 1], ns[i])
  <2> TAKE i \in 0 .. n
  <2>1. CASE i = 0
    BY <2>1, SeenFirst
  <2>2. CASE i # 0
    <3>1. PICK j \in Nat : j = i - 1 /\ j + 1 = i /\ j \in 0 .. n
      BY <2>2
    <3>2. MapNode(Seen(m, id, ns, j), ns[j + 1]) = Seen(m, id, ns, j + 1)
      BY SeenMore
    <3> QED BY <2>2, <3>1, <3>2
  <2> QED BY <2>1, <2>2
<1>2. g = [i \in 0 .. n |-> IF i = 0 THEN [m EXCEPT !.ways = @ \cup {id}] ELSE MapNode(g[i - 1], ns[i])]
  BY <1>1
<1> QED BY <1>2 DEF Sights

LEMMA SightsAre ==
  ASSUME NEW g, NEW m, NEW id, NEW ns, NEW n \in Nat, IsMapping(m), Sights(g, m, id, ns, n)
  PROVE  g[n] = Seen(m, id, ns, n)
<1> DEFINE T == {i \in Nat : i \in 0 .. n => g[i] = Seen(m, id, ns, i)}
<1>0. \A i \in 0 .. n : g[i] = IF i = 0 THEN [m EXCEPT !.ways = @ \cup {id}] ELSE MapNode(g[i - 1], ns[i])
  BY DEF Sights
<1>1. 0 \in T
  BY <1>0, SeenFirst
<1>2. ASSUME NEW i \in Nat, i \in T PROVE i + 1 \in T
  <2> SUFFICES ASSUME i + 1 \in 0 .. n PROVE g[i + 1] = Seen(m, id, ns, i + 1)
    OBVIOUS
  <2>1. i \in 0 .. n /\ i + 1 # 0 /\ (i + 1) - 1 = i
    OBVIOUS
  <2>2. g[i] = Seen(m, id, ns, i)
    BY <1>2, <2>1
  <2>3. g[i + 1] = MapNode(g[i], ns[i + 1])
    BY <1>0, <2>1
  <2> QED BY <2>2, <2>3, SeenMore
<1> HIDE DEF T
<1>3. n \in T
  BY <1>1, <1>2, InductionOnNat
<1> QED BY <1>3 DEF T

LongWay(w) == DOMAIN w.nodes = 1 .. Len(w.nodes) /\ Len(w.nodes) \in Nat /\ Len(w.nodes) >= 2
AllSeen(m, w) ==
  [ways |-> m.ways \cup {w.id}, modelling |-> m.modelling \cup NodesOf(w), routing |-> m.routing \cup NodesOf(w)]
WithEnds(m, w) == [m EXCEPT !.routing = @ \cup {w.nodes[1], w.nodes[Len(w.nodes)]}]

LEMMA MapWayIs ==
  ASSUME NEW m, NEW profile, NEW all \in BOOLEAN, NEW w, IsMapping(m), LongWay(w), IsWayUsed(profile, w.tags)
  PROVE  MapWay(m, profile, all, w) = IF all THEN AllSeen(m, w) ELSE WithEnds(Seen(m, w.id, w.nodes, Len(w.nodes)), w)
<1>1. ~(Len(w.nodes) < 2)
  BY DEF LongWay
<1>2. CASE all
  BY <1>1, <1>2, Zenon DEF MapWay, AllSeen, NodesOf
<1>3. CASE ~all
  <2> PICK n, ns, id : n = Len(w.nodes) /\ ns = w.nodes /\ id = w.id
    OBVIOUS
  <2> DEFINE g == CHOOSE g : Sights(g, m, id, ns, n)
  <2>1. n \in Nat
    BY DEF LongWay
  <2>2. Sights(g, m, id, ns, n)
    BY <2>1, SightsExist
  <2>3. MapWay(m, profile, all, w) = WithEnds(g[n], w)
    BY <1>1, <1>3 DEF MapWay, Sights, WithEnds
  <2> HIDE DEF g
  <2>4. g[n] = Seen(m, id, ns, n)
    BY <2>1, <2>2, SightsAre
  <2> QED BY <1>3, <2>3, <2>4
<1> QED BY <1>2, <1>3

LEMMA WayUnmapped ==
  ASSUME NEW m, NEW profile, NEW all, NEW w, Len(w.nodes) \in Nat, ~(Len(w.nodes) >= 2 /\ IsWayUsed(profile, w.tags))
  PROVE  MapWay(m, profile, all, w) = m
<1>1. Len(w.nodes) < 2 \/ ~IsWayUsed(profile, w.tags)
  OBVIOUS
<1> QED BY <1>1 DEF MapWay

LEMMA NodesMore == ASSUME NEW U, NEW w PROVE NodesIn(U \cup {w}) = NodesIn(U) \cup NodesOf(w)
BY DEF NodesIn

LEMMA EndsMore ==
  ASSUME NEW U, NEW w, NEW n
  PROVE  EndsIn(U \cup {w}, n) <=> EndsIn(U, n) \/ n \in {w.nodes[1], w.nodes[Len(w.nodes)]}
BY DEF EndsIn

AgainIn(U, w, n) == \E k \in DOMAIN w.nodes : w.nodes[k] = n /\ (n \in NodesIn(U) \/ \E l \in DOMAIN w.nodes : l < k /\ w.nodes[l] = n)
LEMMA TwiceMore ==
  ASSUME NEW U, NEW w, NEW n, LongWay(w), w \notin U
  PROVE  TwiceIn(U \cup {w}, n) <=> TwiceIn(U, n) \/ AgainIn(U, w, n)
<1>1. ASSUME TwiceIn(U \cup {w}, n), ~TwiceIn(U, n) PROVE AgainIn(U, w, n)
  <2>1. PICK v \in U \cup {w}, u \in U \cup {w} : \E i \in DOMAIN v.nodes, j \in DOMAIN u.nodes :
           v.nodes[i] = n /\ u.nodes[j] = n /\ (v # u \/ i # j)
    BY <1>1, Zenon DEF TwiceIn
  <2>2. PICK i \in DOMAIN v.nodes, j \in DOMAIN u.nodes : v.nodes[i] = n /\ u.nodes[j] = n /\ (v # u \/ i # j)
    BY <2>1
  <2>3. v = w \/ u = w
    BY <1>1, <2>2, Zenon DEF TwiceIn
  <2>4. CASE v = w /\ u = w
    <3>1. i \in 1 .. Len(w.nodes) /\ j \in 1 .. Len(w.nodes) /\ i # j
      BY <2>2, <2>4 DEF LongWay
    <3>2. i < j \/ j < i
      BY <3>1 DEF LongWay
    <3> QED BY <2>2, <2>4, <3>2, Zenon DEF AgainIn
  <2>5. CASE v = w /\ u \in U
    <3>1. n \in NodesIn(U)
      BY <2>2, <2>5 DEF NodesIn, NodesOf
    <3> QED BY <2>2, <2>5, <3>1, Zenon DEF AgainIn
  <2>6. CASE v \in U /\ u = w
    <3>1. n \in NodesIn(U)
      BY <2>2, <2>6 DEF NodesIn, NodesOf
    <3> QED BY <2>2, <2>6, <3>1, Zenon DEF AgainIn
  <2> QED BY <2>3, <2>4, <2>5, <2>6
<1>2. ASSUME TwiceIn(U, n) PROVE TwiceIn(U \cup {w}, n)
  BY <1>2 DEF TwiceIn
<1>3. ASSUME AgainIn(U, w, n) PROVE TwiceIn(U \cup {w}, n)
  <2>1. PICK k \in DOMAIN w.nodes : w.nodes[k] = n /\ (n \in NodesIn(U) \/ \E l \in DOMAIN w.nodes : l < k /\ w.nodes[l] = n)
    BY <1>3, Zenon DEF AgainIn
  <2>2. CASE n \in NodesIn(U)
    <3>1. PICK v \in U : \E i \in DOMAIN v.nodes : v.nodes[i] = n
      BY <2>2 DEF NodesIn, NodesOf
    <3>2. PICK i \in DOMAIN v.nodes : v.nodes[i] = n
      BY <3>1
    <3>3. v # w /\ v \in U \cup {w} /\ w \in U \cup {w}
      OBVIOUS
    <3> QED BY <2>1, <3>2, <3>3, Zenon DEF TwiceIn
  <2>3. CASE \E l \in DOMAIN w.nodes : l < k /\ w.nodes[l] = n
    <3>1. PICK l \in DOMAIN w.nodes : l < k /\ w.nodes[l] = n
      BY <2>3
    <3>2. k # l
      BY <2>1, <3>1 DEF LongWay
    <3> QED BY <2>1, <3>1, <3>2, Zenon DEF TwiceIn
  <2> QED BY <2>1, <2>2, <2>3
<1> QED BY <1>1, <1>2, <1>3

LongWays(U) == \A w \in U : LongWay(w)
LEMMA JunctionsMore ==
  ASSUME NEW U, NEW w, NEW all, LongWays(U), LongWay(w), w \notin U
  PROVE  JunctionsIn(U \cup {w}, all) =
           IF all THEN NodesIn(U) \cup NodesOf(w)
           ELSE JunctionsIn(U, all) \cup {n \in NodesOf(w) : AgainIn(U, w, n)} \cup {w.nodes[1], w.nodes[Len(w.nodes)]}
<1> PICK V : V = U \cup {w}
  OBVIOUS
<1>1. NodesIn(V) = NodesIn(U) \cup NodesOf(w)
  BY NodesMore
<1>2. \A n : EndsIn(V, n) <=> EndsIn(U, n) \/ n \in {w.nodes[1], w.nodes[Len(w.nodes)]}
  BY EndsMore
<1>3. \A n : TwiceIn(V, n) <=> TwiceIn(U, n) \/ AgainIn(U, w, n)
  BY TwiceMore
<1>4. CASE all
  BY <1>1, <1>4 DEF JunctionsIn
<1>5. CASE ~all
  <2>1. {w.nodes[1], w.nodes[Len(w.nodes)]} \subseteq NodesOf(w)
    BY DEF NodesOf, LongWay
  <2>2. \A n : EndsIn(U, n) => n \in NodesIn(U)
    <3> SUFFICES ASSUME NEW n, NEW v \in U, n \in {v.nodes[1], v.nodes[Len(v.nodes)]} PROVE n \in NodesIn(U)
      BY DEF EndsIn
    <3>1. 1 \in DOMAIN v.nodes /\ Len(v.nodes) \in DOMAIN v.nodes
      BY DEF LongWays, LongWay
    <3> QED BY <3>1 DEF NodesIn, NodesOf
  <2>3. \A n : AgainIn(U, w, n) => n \in NodesOf(w)
    BY DEF AgainIn, NodesOf
  <2>4. \A n : TwiceIn(U, n) => n \in NodesIn(U)
    BY DEF TwiceIn, NodesIn, NodesOf
  <2>5. \A n : n \in JunctionsIn(V, all) <=> n \in NodesIn(V) /\ (EndsIn(V, n) \/ TwiceIn(V, n))
    BY <1>5 DEF JunctionsIn
  <2>6. \A n : n \in JunctionsIn(U, all) <=> n \in NodesIn(U) /\ (EndsIn(U, n) \/ TwiceIn(U, n))
    BY <1>5 DEF JunctionsIn
  <2>7. \A n : n \in JunctionsIn(V, all)
                <=> n \in JunctionsIn(U, all) \/ (n \in NodesOf(w) /\ AgainIn(U, w, n)) \/ n \in {w.nodes[1], w.nodes[Len(w.nodes)]}
    BY <1>1, <1>2, <1>3, <2>1, <2>2, <2>3, <2>4, <2>5, <2>6
  <2> QED BY <1>5, <2>7
<1> QED BY <1>4, <1>5

LEMMA AgainIs ==
  ASSUME NEW m, NEW U, NEW w, LongWay(w), m.modelling = NodesIn(U)
  PROVE  Again(m, w.nodes, Len(w.nodes)) = {n \in NodesOf(w) : AgainIn(U, w, n)}
<1> PICK ns, N, M : ns = w.nodes /\ N = Len(w.nodes) /\ M = m.modelling
  OBVIOUS
<1>1. DOMAIN ns = 1 .. N /\ N \in Nat
  BY DEF LongWay
<1>2. \A k \in 1 .. N : (\E l \in 1 .. k - 1 : ns[l] = ns[k]) <=> (\E l \in 1 .. N : l < k /\ ns[l] = ns[k])
  <2> TAKE k \in 1 .. N
  <2>1. \A l : l \in 1 .. k - 1 <=> l \in 1 .. N /\ l < k
    BY <1>1
  <2> QED BY <2>1, Zenon
<1>3. \A n : n \in Again(m, ns, N) <=> \E k \in 1 .. N : ns[k] = n /\ (n \in M \/ \E l \in 1 .. k - 1 : ns[l] = ns[k])
  BY Zenon DEF Again
<1>4. \A n : AgainIn(U, w, n) <=> \E k \in 1 .. N : ns[k] = n /\ (n \in M \/ \E l \in 1 .. N : l < k /\ ns[l] = n)
  BY <1>1, Zenon DEF AgainIn
<1>5. \A n : n \in Again(m, ns, N) <=> AgainIn(U, w, n)
  <2> TAKE n
  <2>1. ASSUME n \in Again(m, ns, N) PROVE AgainIn(U, w, n)
    <3>1. PICK k \in 1 .. N : ns[k] = n /\ (n \in M \/ \E l \in 1 .. k - 1 : ns[l] = ns[k])
      BY <1>3, <2>1
    <3>2. n \in M \/ \E l \in 1 .. N : l < k /\ ns[l] = n
      BY <1>2, <3>1
    <3> QED BY <1>4, <3>1, <3>2
  <2>2. ASSUME AgainIn(U, w, n) PROVE n \in Again(m, ns, N)
    <3>1. PICK k \in 1 .. N : ns[k] = n /\ (n \in M \/ \E l \in 1 .. N : l < k /\ ns[l] = n)
      BY <1>4, <2>2
    <3>2. n \in M \/ \E l \in 1 .. k - 1 : ns[l] = ns[k]
      BY <1>2, <3>1
    <3> QED BY <1>3, <3>1, <3>2
  <2> QED BY <2>1, <2>2
<1>6. \A n : AgainIn(U, w, n) => n \in NodesOf(w)
  BY DEF AgainIn, NodesOf
<1> QED BY <1>5, <1>6

LEMMA WayMapped ==
  ASSUME NEW m, NEW profile, NEW all \in BOOLEAN, NEW U, NEW w,
         MapIs(m, U, all), LongWays(U), LongWay(w), w \notin U, IsWayUsed(profile, w.tags)
  PROVE  MapIs(MapWay(m, profile, all, w), U \cup {w}, all)
<1>0. IsMapping(m) /\ m.ways = {v.id : v \in U} /\ m.modelling = NodesIn(U) /\ m.routing = JunctionsIn(U, all)
  BY DEF MapIs
<1>1. MapWay(m, profile, all, w) = IF all THEN AllSeen(m, w) ELSE WithEnds(Seen(m, w.id, w.nodes, Len(w.nodes)), w)
  BY <1>0, MapWayIs
<1>2. PICK I, N, J : I = m.ways \cup {w.id} /\ N = m.modelling \cup NodesOf(w) /\ J = JunctionsIn(U \cup {w}, all)
  OBVIOUS
<1>3. I = {v.id : v \in U \cup {w}}
  BY <1>0, <1>2
<1>4. N = NodesIn(U \cup {w})
  BY <1>0, <1>2, NodesMore
<1>5. MapWay(m, profile, all, w) = [ways |-> I, modelling |-> N, routing |-> J]
  <2>1. CASE all
    <3>1. J = JunctionsIn(U, all) \cup NodesOf(w)
      <4>1. J = NodesIn(U) \cup NodesOf(w)
        BY <1>2, <2>1, JunctionsMore
      <4>2. JunctionsIn(U, all) = NodesIn(U)
        BY <2>1 DEF JunctionsIn
      <4> QED BY <4>1, <4>2
    <3> QED BY <1>0, <1>1, <1>2, <2>1, <3>1 DEF AllSeen
  <2>2. CASE ~all
    <3>1. PICK A, E : A = Again(m, w.nodes, Len(w.nodes)) /\ E = {w.nodes[1], w.nodes[Len(w.nodes)]}
      OBVIOUS
    <3>2. J = m.routing \cup A \cup E
      <4>1. A = {n \in NodesOf(w) : AgainIn(U, w, n)}
        BY <1>0, <3>1, AgainIs
      <4>2. J = JunctionsIn(U, all) \cup {n \in NodesOf(w) : AgainIn(U, w, n)} \cup {w.nodes[1], w.nodes[Len(w.nodes)]}
        BY <1>2, <2>2, JunctionsMore
      <4> QED BY <1>0, <3>1, <4>1, <4>2
    <3>3. FirstOf(w.nodes, Len(w.nodes)) = NodesOf(w)
      BY DEF FirstOf, NodesOf, LongWay
    <3>4. Seen(m, w.id, w.nodes, Len(w.nodes)) = [ways |-> I, modelling |-> N, routing |-> m.routing \cup A]
      BY <1>2, <3>1, <3>3 DEF Seen
    <3>5. WithEnds([ways |-> I, modelling |-> N, routing |-> m.routing \cup A], w) = [ways |-> I, modelling |-> N, routing |-> m.routing \cup A \cup E]
      <4>1. PICK B, r : B = m.routing \cup A /\ r = [ways |-> I, modelling |-> N, routing |-> B]
        OBVIOUS
      <4>2. WithEnds(r, w) = [r EXCEPT !.routing = @ \cup E]
        BY <3>1, Zenon DEF WithEnds
      <4>3. [r EXCEPT !.routing = @ \cup E] = [ways |-> I, modelling |-> N, routing |-> B \cup E]
        BY <4>1
      <4> QED BY <4>1, <4>2, <4>3
    <3> QED BY <1>1, <2>2, <3>2, <3>4, <3>5
  <2> QED BY <2>1, <2>2
<1>6. PICK r : r = MapWay(m, profile, all, w)
  OBVIOUS
<1>7. r = [ways |-> r.ways, modelling |-> r.modelling, routing |-> r.routing] /\ r.ways = I /\ r.modelling = N /\ r.routing = J
  BY <1>5, <1>6
<1>8. MapIs(r, U \cup {w}, all)
  BY <1>2, <1>3, <1>4, <1>7 DEF MapIs, IsMapping
<1> QED BY <1>6, <1>8

LEMMA UsedMore ==
  ASSUME NEW profile, NEW W, NEW w
  PROVE  UsedIn(profile, W \cup {w}) =
           IF Len(w.nodes) >= 2 /\ IsWayUsed(profile, w.tags) THEN UsedIn(profile, W) \cup {w} ELSE UsedIn(profile, W)
BY DEF UsedIn

-----------------------------------------------------------------------------
(* The nodes of a way are ids.                                             *)
SumsOf(g, ds, n) == g = [i \in 0 .. n |-> IF i = 0 THEN 0 ELSE g[i - 1] + ds[i]]
LEMMA SumsExist ==
  ASSUME NEW ds
  PROVE  \A n \in Nat : \E g : SumsOf(g, ds, n)
<1> DEFINE T == {n \in Nat : \E g : SumsOf(g, ds, n)}
<1>1. 0 \in T
  <2>1. PICK g : g = [i \in 0 .. 0 |-> 0]
    OBVIOUS
  <2>2. g = [i \in 0 .. 0 |-> IF i = 0 THEN 0 ELSE g[i - 1] + ds[i]]
    BY <2>1
  <2> QED BY <2>2 DEF SumsOf
<1>2. ASSUME NEW n \in Nat, n \in T PROVE n + 1 \in T
  <2>1. PICK g : SumsOf(g, ds, n)
    BY <1>2
  <2>2. PICK h : h = [i \in 0 .. n + 1 |-> IF i = n + 1 THEN g[n] + ds[n + 1] ELSE g[i]]
    OBVIOUS
  <2>3. \A i \in 0 .. n : g[i] = IF i = 0 THEN 0 ELSE g[i - 1] + ds[i]
    BY <2>1 DEF SumsOf
  <2>4. \A i \in 0 .. n + 1 : h[i] = IF i = n + 1 THEN g[n] + ds[n + 1] ELSE g[i]
    BY <2>2
  <2>5. \A i \in 0 .. n + 1 : h[i] = IF i = 0 THEN 0 ELSE h[i - 1] + ds[i]
    <3> TAKE i \in 0 .. n + 1
    <3>1. CASE i = n + 1
      <4>1. i # 0 /\ i - 1 = n /\ n \in 0 .. n + 1 /\ n # n + 1
        BY <3>1
      <4> QED BY <2>4, <3>1, <4>1
    <3>2. CASE i # n + 1 /\ i # 0
      <4>1. i \in 0 .. n /\ i - 1 \in 0 .. n + 1 /\ i - 1 # n + 1
        BY <3>2
      <4>2. h[i] = g[i] /\ h[i - 1] = g[i - 1]
        BY <2>4, <3>2, <4>1
      <4>3. g[i] = g[i - 1] + ds[i]
        BY <2>3, <3>2, <4>1
      <4> QED BY <3>2, <4>2, <4>3
    <3>3. CASE i = 0
      <4>1. i # n + 1 /\ i \in 0 .. n
        BY <3>3
      <4> QED BY <2>3, <2>4, <3>3, <4>1
    <3> QED BY <3>1, <3>2, <3>3
  <2>6. h = [i \in 0 .. n + 1 |-> IF i = 0 THEN 0 ELSE h[i - 1] + ds[i]]
    BY <2>2, <2>5
  <2>7. SumsOf(h, ds, n + 1)
    BY <2>6 DEF SumsOf
  <2> QED BY <2>7
<1> HIDE DEF T
<1>3. Nat \subseteq T
  BY <1>1, <1>2, InductionOnNat
<1> QED BY <1>3 DEF T

LEMMA SumsTypes ==
  ASSUME NEW g, NEW ds \in Seq(Int), SumsOf(g, ds, Len(ds))
  PROVE  \A n \in 0 .. Len(ds) : g[n] \in Int
<1> DEFINE T == {n \in Nat : n <= Len(ds) => g[n] \in Int}
<1>0. Len(ds) \in Nat /\ \A i \in 0 .. Len(ds) : g[i] = IF i = 0 THEN 0 ELSE g[i - 1] + ds[i]
  BY DEF SumsOf
<1>1. 0 \in T
  BY <1>0
<1>2. ASSUME NEW n \in Nat, n \in T PROVE n + 1 \in T
  <2> SUFFICES ASSUME n + 1 <= Len(ds) PROVE g[n + 1] \in Int
    OBVIOUS
  <2>1. n + 1 \in 0 .. Len(ds) /\ n + 1 \in 1 .. Len(ds) /\ n + 1 # 0 /\ (n + 1) - 1 = n /\ g[n] \in Int
    BY <1>0, <1>2
  <2>2. ds[n + 1] \in Int
    BY <2>1
  <2> QED BY <1>0, <2>1, <2>2
<1> HIDE DEF T
<1>3. Nat \subseteq T
  BY <1>1, <1>2, InductionOnNat
<1> QED BY <1>0, <1>3 DEF T

LEMMA RunningSumsAre ==
  ASSUME NEW ds, Len(ds) \in Nat
  PROVE  \E g : SumsOf(g, ds, Len(ds)) /\ RunningSums(ds) = [i \in DOMAIN ds |-> g[i]]
<1> DEFINE g == CHOOSE g : SumsOf(g, ds, Len(ds))
<1>1. SumsOf(g, ds, Len(ds))
  BY SumsExist
<1>2. RunningSums(ds) = [i \in DOMAIN ds |-> g[i]]
  BY DEF RunningSums, SumsOf
<1> HIDE DEF g
<1> QED BY <1>1, <1>2

LEMMA RunningSumsTypes ==
  ASSUME NEW ds \in Seq(Int)
  PROVE  RunningSums(ds) \in Seq(Int) /\ Len(RunningSums(ds)) = Len(ds)
<1>1. Len(ds) \in Nat /\ DOMAIN ds = 1 .. Len(ds)
  OBVIOUS
<1>2. PICK g : SumsOf(g, ds, Len(ds)) /\ RunningSums(ds) = [i \in DOMAIN ds |-> g[i]]
  BY <1>1, RunningSumsAre
<1>3. \A n \in 1 .. Len(ds) : g[n] \in Int
  BY <1>1, <1>2, SumsTypes
<1>4. RunningSums(ds) \in [1 .. Len(ds) -> Int]
  BY <1>1, <1>2, <1>3
<1> QED BY <1>1, <1>4, FunctionIsList

LEMMA WayNodes ==
  ASSUME NEW f \in Files, NEW e \in Calls(f), e.kind = "way"
  PROVE  e.nodes \in Seq(Int)
<1>a. PICK i \in DataIn(f) : \E g \in ToSet(f[i].groups) :
           /\ g.kind = "way" /\ ~TagsBroken(f[i], g.keys, g.values)
           /\ e = [kind |-> "way", id |-> g.id, tags |-> TagMap(f[i], g.keys, g.values), nodes |-> RunningSums(g.refs)]
  BY CalledWay
<1>1. PICK g \in ToSet(f[i].groups) :
           /\ g.kind = "way" /\ ~TagsBroken(f[i], g.keys, g.values)
           /\ e = [kind |-> "way", id |-> g.id, tags |-> TagMap(f[i], g.keys, g.values), nodes |-> RunningSums(g.refs)]
  BY <1>a
<1>2. f[i].type = "OSMData" /\ i \in DOMAIN f
  BY FilesAssumption DEF DataIn, IsList
<1>3. g.refs \in Seq(Int)
  BY <1>1, <1>2, FilesAssumption
<1> QED BY <1>1, <1>3, RunningSumsTypes

LEMMA CallsHaveKinds ==
  ASSUME NEW f \in Files, NEW e \in Calls(f), e # Throw
  PROVE  e.kind \in Kinds
<1>a. PICK i \in DataIn(f) : \E g \in ToSet(f[i].groups) : e \in ToSet(DecodeGroup(f[i], g))
  BY DEF Calls
<1>1. PICK g \in ToSet(f[i].groups) : e \in ToSet(DecodeGroup(f[i], g))
  BY <1>a
<1>2. PICK j \in 1 .. Len(f[i].groups) : f[i].groups[j] = g
  BY GroupsGive DEF ToSet
<1>3. KindOf(g) \in Kinds /\ Gives(DecodeGroup(f[i], g), KindOf(g))
  BY <1>2, GroupsGive
<1>4. PICK k \in DOMAIN DecodeGroup(f[i], g) : DecodeGroup(f[i], g)[k] = e
  BY <1>1 DEF ToSet
<1>5. k \in 1 .. Len(DecodeGroup(f[i], g))
  BY <1>3, <1>4 DEF Gives, IsList
<1> QED BY <1>3, <1>4, <1>5 DEF Gives

-----------------------------------------------------------------------------
(* As long as nothing is thrown, the ids in use are those of the ways.     *)
Sound == ~Within(Throw, pending) /\ outcome # "threw"

LEMMA SoundBefore == Inv /\ [Next]_vars /\ Sound' => Sound
<1> SUFFICES ASSUME Inv, [Next]_vars, Sound' PROVE Sound
  OBVIOUS
<1>1. CASE (Decompress \/ SeesStatus \/ Throws \/ EndsScan) \/ BuildsGraph \/ Fails \/ UNCHANGED vars
  <2>1. pending' = pending
    BY <1>1 DEF Decompress, Inflates, ReadsHeader, SkipsBlock, EndsFile, SeesStatus, Throws, EndsScan, BuildsGraph, Fails,
                vars, pbfVars, scanVars
  <2>2. outcome' = "threw" \/ outcome # "threw"
    BY <1>1 DEF Decompress, Inflates, ReadsHeader, SkipsBlock, EndsFile, SeesStatus, Throws, EndsScan, BuildsGraph, Fails,
                vars, pbfVars, Running
  <2> QED BY <2>1, <2>2 DEF Sound, Within
<1>2. CASE Decode
  BY <1>2, NothingThrows DEF Decode, Sound
<1>3. CASE MapsWay \/ LoadsEntity
  <2>1. /\ pending # <<>> /\ pending[1] # Throw /\ outcome = "reading" /\ pending' = SubSeq(pending, 2, Len(pending))
        /\ pending \in Seq(Calls(file))
    BY <1>3 DEF MapsWay, LoadsEntity, CallsBack, Inv, PbfInv, PbfTypeOK
  <2>2. PICK S, pd, rest : S = Calls(file) /\ pd = pending /\ rest = pending'
    OBVIOUS
  <2>3. Len(rest) = Len(pd) - 1 /\ \A i \in 1 .. Len(pd) - 1 : rest[i] = pd[i + 1]
    BY <2>1, <2>2, HeadAndRest
  <2>4. ~Within(Throw, rest)
    BY <2>2 DEF Sound, Within
  <2>5. ASSUME NEW i \in 1 .. Len(pd), pd[i] = Throw PROVE FALSE
    <3>1. Len(pd) \in Nat /\ i # 1
      BY <2>1, <2>2, <2>5
    <3>2. i - 1 \in 1 .. Len(pd) - 1 /\ (i - 1) + 1 = i
      BY <3>1
    <3>3. rest[i - 1] = Throw /\ i - 1 \in 1 .. Len(rest)
      BY <2>3, <2>5, <3>2
    <3> QED BY <2>4, <3>3 DEF Within
  <2> QED BY <2>1, <2>2, <2>5 DEF Sound, Within
<1>4. CASE StartsLoading
  <2>1. outcome = "done" /\ pending = <<>>
    BY <1>4 DEF StartsLoading, Inv, PbfInv, InOrder
  <2> QED BY <2>1, NothingThrows DEF Sound
<1> QED BY <1>1, <1>2, <1>3, <1>4 DEF Next, Reads, Import

HandedTo(e) ==
  /\ e \in Calls(file) /\ e.kind \in Kinds /\ e.kind \in wanted /\ delivered \in Seq(Calls(file))
  /\ Follows(file, delivered, e) /\ delivered' = Append(delivered, e) /\ MetMeets(delivered', delivered, e)
  /\ file' = file /\ wanted' = wanted /\ outcome' = outcome
LEMMA HandedOver == ASSUME Inv, Sound, CallsBack PROVE HandedTo(pending[1])
<1> PICK e : e = pending[1]
  OBVIOUS
<1>1. /\ pending # <<>> /\ e # Throw /\ delivered' = Append(delivered, e) /\ file' = file /\ wanted' = wanted /\ outcome' = outcome
      /\ pending \in Seq(Calls(file)) /\ delivered \in Seq(Calls(file)) /\ file \in Files
  BY DEF CallsBack, Inv, PbfInv, PbfTypeOK, sourceVars
<1>2. e \in Calls(file)
  BY <1>1
<1>3. e.kind \in Kinds
  BY <1>1, <1>2, CallsHaveKinds
<1>4. /\ Typed(file, wanted, scans, position, blobs, pending, delivered) /\ Split(wanted, scans)
      /\ Balance(file, wanted, scans, position, blobs, pending, delivered)
  BY PbfInvIs DEF Inv
<1>5. Follows(file, delivered, e) /\ e.kind \in scans[1]
  BY <1>1, <1>3, <1>4, NextEntity DEF Sound
<1>6. e.kind \in wanted
  <2>1. 1 \in 1 .. Len(scans)
    BY <1>4 DEF Typed
  <2> QED BY <1>4, <1>5, <2>1 DEF Split
<1>7. MetMeets(delivered', delivered, e)
  <2>1. PICK S, dl, more : S = Calls(file) /\ dl = delivered /\ more = delivered'
    OBVIOUS
  <2>2. dl \in Seq(S)
    BY <1>1, <2>1
  <2>3. e \in S
    BY <1>2, <2>1
  <2>4. Longer(more, dl, e)
    BY <1>1, <2>1 DEF Longer
  <2>5. MetMeets(more, dl, e)
    BY <2>2, <2>3, <2>4, MetNext
  <2> QED BY <2>1, <2>5
<1> QED BY <1>1, <1>2, <1>3, <1>5, <1>6, <1>7 DEF HandedTo

WantedBy(j) == IF j.turns THEN Kinds ELSE {"node", "way"}
Mapping(f, w, j, dl, m) == w = {"way"} /\ MapIs(m, UsedIn(j.profile, Met(dl, "way")), j.allRouting)
Mapped(f, w, j, m) == w = WantedBy(j) /\ MapIs(m, UsedIn(j.profile, ToSet(Entities(f, "way"))), j.allRouting)
MapInv ==
  /\ phase = "mapping" /\ Sound => Mapping(file, wanted, job, delivered, mapping)
  /\ phase \in {"loading", "finished"} /\ Sound => Mapped(file, wanted, job, mapping)
  /\ phase = "finished" => outcome = "done"
  /\ phase \in {"mapping", "loading", "finished", "failed"}

LEMMA WaysAreLong ==
  ASSUME NEW f \in Files, NEW profile, NEW W, \A w \in W : w \in Calls(f) /\ w.kind = "way"
  PROVE  LongWays(UsedIn(profile, W))
<1> SUFFICES ASSUME NEW w \in W, Len(w.nodes) >= 2 PROVE LongWay(w)
  BY DEF LongWays, UsedIn
<1>1. w.nodes \in Seq(Int)
  BY WayNodes
<1> QED BY <1>1 DEF LongWay

LEMMA MapInit == Init => MapInv
<1> SUFFICES ASSUME Init PROVE MapInv
  OBVIOUS
<1>1. phase = "mapping" /\ wanted = {"way"} /\ delivered = <<>> /\ mapping = EmptyMapping
  BY DEF Init, InitPbf
<1>2. UsedIn(job.profile, Met(delivered, "way")) = {}
  BY <1>1, MetNone DEF UsedIn
<1> QED BY <1>1, <1>2, NothingMapped DEF MapInv, Mapping

LEMMA MapStays ==
  ASSUME MapInv, Sound' => Sound, UNCHANGED <<file, job, phase, mapping, wanted, delivered>>, phase = "finished" => outcome' = "done"
  PROVE  MapInv'
BY DEF MapInv, Mapping, Mapped

LEMMA MappingMaps == Inv /\ MapInv /\ Sound /\ MapsWay => MapInv'
<1> SUFFICES ASSUME Inv, MapInv, Sound, MapsWay PROVE MapInv'
  OBVIOUS
<1>1. /\ phase = "mapping" /\ phase' = "mapping" /\ CallsBack /\ job' = job
      /\ mapping' = MapWay(mapping, job.profile, job.allRouting, pending[1])
  BY DEF MapsWay
<1>2. PICK e : e = pending[1]
  OBVIOUS
<1>3. HandedTo(e)
  BY <1>1, <1>2, HandedOver
<1>4. PICK S, dl, W, U : S = Calls(file) /\ dl = delivered /\ W = Met(dl, "way") /\ U = UsedIn(job.profile, W)
  OBVIOUS
<1>5. wanted = {"way"} /\ MapIs(mapping, U, job.allRouting)
  BY <1>1, <1>4 DEF MapInv, Mapping
<1>6. e.kind = "way" /\ e \in S /\ dl \in Seq(S) /\ file \in Files /\ delivered' = Append(dl, e) /\ wanted' = wanted
  BY <1>3, <1>4, <1>5 DEF HandedTo, Inv
<1>7. Met(delivered', "way") = W \cup {e}
  <2>1. \A kind : Met(delivered', kind) = IF e.kind = kind THEN Met(delivered, kind) \cup {e} ELSE Met(delivered, kind)
    BY <1>3 DEF HandedTo, MetMeets
  <2> QED BY <1>4, <1>6, <2>1
<1>8. e \notin W
  BY <1>3, <1>4, <1>6, FollowsGives DEF HandedTo
<1>9. \A w \in W : w \in Calls(file) /\ w.kind = "way"
  BY <1>4, <1>6, MetTypes
<1>10. LongWays(U)
  BY <1>4, <1>6, <1>9, WaysAreLong
<1>11. e.nodes \in Seq(Int)
  BY <1>4, <1>6, WayNodes
<1>12. job.allRouting \in BOOLEAN
  BY JobsAssumption DEF Inv
<1>13. MapIs(mapping', UsedIn(job.profile, W \cup {e}), job.allRouting)
  <2>1. CASE Len(e.nodes) >= 2 /\ IsWayUsed(job.profile, e.tags)
    <3>1. LongWay(e)
      BY <1>11, <2>1 DEF LongWay
    <3>2. e \notin U
      BY <1>4, <1>8 DEF UsedIn
    <3>3. MapIs(MapWay(mapping, job.profile, job.allRouting, e), U \cup {e}, job.allRouting)
      BY <1>5, <1>10, <1>12, <2>1, <3>1, <3>2, WayMapped
    <3> QED BY <1>1, <1>2, <1>4, <2>1, <3>3, UsedMore
  <2>2. CASE ~(Len(e.nodes) >= 2 /\ IsWayUsed(job.profile, e.tags))
    <3>1. MapWay(mapping, job.profile, job.allRouting, e) = mapping
      BY <1>11, <2>2, WayUnmapped
    <3> QED BY <1>1, <1>2, <1>4, <1>5, <2>2, <3>1, UsedMore
  <2> QED BY <2>1, <2>2
<1> QED BY <1>1, <1>5, <1>6, <1>7, <1>13 DEF MapInv, Mapping

\* What a finished scan met of a kind it was asked for is all there is.
LEMMA AllMet ==
  ASSUME Inv, outcome = "done", NEW kind \in wanted
  PROVE  OfKind(delivered, kind) = ContentOf(kind) /\ ContentOf(kind) = Entities(file, kind)
<1>1. kind \in Kinds
  BY DEF Inv, PbfInv, PbfTypeOK
<1>2. OfKind(delivered, kind) = ContentOf(kind)
  BY <1>1, InvGivesEntities DEF EveryEntityOnce
<1>3. ContentOf(kind) = Content(file, Only(kind), Len(file))
  BY DEF ContentOf, ContentTo, DecodedTo, Only, Content, Decoded
<1>4. delivered \in Seq(Calls(file))
  BY DEF Inv, PbfInv, PbfTypeOK
<1>5. OfKind(OfKind(delivered, kind), kind) = OfKind(delivered, kind)
  BY <1>4, OfKindAgain
<1> QED BY <1>2, <1>3, <1>5 DEF Entities

LEMMA MappingEnds == Inv /\ MapInv /\ Sound /\ StartsLoading => MapInv'
<1> SUFFICES ASSUME Inv, MapInv, Sound, StartsLoading PROVE MapInv'
  OBVIOUS
<1>1. /\ phase = "mapping" /\ phase' = "loading" /\ outcome = "done" /\ job' = job /\ mapping' = mapping /\ file' = file
      /\ wanted' = WantedBy(job)
  BY DEF StartsLoading, Call, WantedBy
<1>2. wanted = {"way"} /\ MapIs(mapping, UsedIn(job.profile, Met(delivered, "way")), job.allRouting)
  BY <1>1 DEF MapInv, Mapping
<1>3. OfKind(delivered, "way") = Entities(file, "way")
  BY <1>1, <1>2, AllMet
<1> QED BY <1>1, <1>2, <1>3 DEF MapInv, Mapped, Met

LEMMA MapStep == Inv /\ MapInv /\ [Next]_vars => MapInv'
<1> SUFFICES ASSUME Inv, MapInv, [Next]_vars PROVE MapInv'
  OBVIOUS
<1>0. Sound' => Sound
  BY SoundBefore
<1>1. CASE Reads \/ UNCHANGED vars
  <2>1. UNCHANGED <<file, job, phase, mapping, wanted, delivered>>
    BY <1>1 DEF Reads, importVars, vars, pbfVars, sourceVars, scanVars,
                Decompress, Inflates, ReadsHeader, SkipsBlock, EndsFile, SeesStatus, Decode, Throws, EndsScan
  <2>2. phase = "finished" => outcome' = "done"
    BY <1>1 DEF MapInv, Reads, vars, pbfVars,
                Decompress, Inflates, ReadsHeader, SkipsBlock, EndsFile, SeesStatus, Decode, Throws, EndsScan, Running
  <2> QED BY <1>0, <2>1, <2>2, MapStays
<1>2. CASE MapsWay
  <2>1. CASE Sound
    BY <1>2, <2>1, MappingMaps
  <2>2. CASE ~Sound
    BY <1>0, <1>2, <2>2 DEF MapInv, MapsWay
  <2> QED BY <2>1, <2>2
<1>3. CASE LoadsEntity
  <2>1. UNCHANGED <<file, job, phase, mapping, wanted>> /\ phase = "loading"
    BY <1>3 DEF LoadsEntity, CallsBack, sourceVars
  <2> QED BY <1>0, <2>1 DEF MapInv, Mapped
<1>4. CASE StartsLoading
  <2>1. Sound
    BY <1>4, NothingThrows DEF StartsLoading, Sound, Inv, PbfInv, InOrder
  <2> QED BY <1>4, <2>1, MappingEnds
<1>5. CASE BuildsGraph
  <2>1. UNCHANGED <<file, job, mapping, wanted, outcome>> /\ phase = "loading" /\ phase' = "finished" /\ outcome = "done"
    BY <1>5 DEF BuildsGraph, pbfVars, sourceVars
  <2> QED BY <1>0, <2>1 DEF MapInv, Mapped
<1>6. CASE Fails
  BY <1>6 DEF Fails, MapInv
<1> QED BY <1>1, <1>2, <1>3, <1>4, <1>5, <1>6 DEF Next, Import

-----------------------------------------------------------------------------
(* The walk along a way.                                                   *)
Listed(s) == \E S : s \in Seq(S)
LEMMA ListedJoin == ASSUME NEW s, NEW t, Listed(s), Listed(t) PROVE Listed(s \o t)
<1>1. PICK S, T : s \in Seq(S) /\ t \in Seq(T)
  BY DEF Listed
<1>2. PICK U : U = S \cup T
  OBVIOUS
<1>3. s \in Seq(U) /\ t \in Seq(U)
  BY <1>1, <1>2
<1>4. s \o t \in Seq(U)
  BY <1>3
<1> QED BY <1>4 DEF Listed

LEMMA ListedAre ==
  ASSUME NEW s, Listed(s)
  PROVE  DOMAIN s = 1 .. Len(s) /\ Len(s) \in Nat /\ s \in Seq(ToSet(s)) /\ IsList(s)
<1>1. PICK S : s \in Seq(S)
  BY DEF Listed
<1>2. DOMAIN s = 1 .. Len(s) /\ Len(s) \in Nat /\ s = [i \in 1 .. Len(s) |-> s[i]]
  BY <1>1
<1>3. \A i \in 1 .. Len(s) : s[i] \in ToSet(s)
  BY <1>2 DEF ToSet
<1>4. s \in [1 .. Len(s) -> ToSet(s)]
  BY <1>2, <1>3
<1>5. s \in Seq(ToSet(s))
  BY <1>2, <1>4
<1> QED BY <1>2, <1>5 DEF IsList

Start(w) == [last |-> w.nodes[1], points |-> <<>>, dist |-> 0, arcs |-> <<>>]
Walk(g, b, m, geometry, w, direction, n) ==
  g = [i \in 1 .. n |-> IF i = 1 THEN Start(w) ELSE StepAlong(b, m, geometry, w, direction, g[i - 1], i)]

LEMMA WalkExists ==
  ASSUME NEW b, NEW m, NEW geometry, NEW w, NEW direction
  PROVE  \A n \in Nat : \E g : Walk(g, b, m, geometry, w, direction, n)
<1> DEFINE T == {n \in Nat : \E g : Walk(g, b, m, geometry, w, direction, n)}
           Next2(x, i) == StepAlong(b, m, geometry, w, direction, x, i)
<1>0. \A g, n : Walk(g, b, m, geometry, w, direction, n) <=> g = [i \in 1 .. n |-> IF i = 1 THEN Start(w) ELSE Next2(g[i - 1], i)]
  BY DEF Walk
<1> HIDE DEF Next2
<1>1. 0 \in T
  <2>1. <<>> = [i \in 1 .. 0 |-> IF i = 1 THEN Start(w) ELSE Next2(<<>>[i - 1], i)]
    OBVIOUS
  <2> QED BY <1>0, <2>1
<1>2. ASSUME NEW n \in Nat, n \in T PROVE n + 1 \in T
  <2>1. PICK g : g = [i \in 1 .. n |-> IF i = 1 THEN Start(w) ELSE Next2(g[i - 1], i)]
    BY <1>0, <1>2
  <2>2. PICK h : h = [i \in 1 .. n + 1 |-> IF i = 1 THEN Start(w) ELSE IF i = n + 1 THEN Next2(g[n], n + 1) ELSE g[i]]
    OBVIOUS
  <2>3. \A i \in 1 .. n : g[i] = IF i = 1 THEN Start(w) ELSE Next2(g[i - 1], i)
    BY <2>1
  <2>4. \A i \in 1 .. n + 1 : h[i] = IF i = 1 THEN Start(w) ELSE IF i = n + 1 THEN Next2(g[n], n + 1) ELSE g[i]
    BY <2>2
  <2>5. \A i \in 1 .. n : h[i] = g[i]
    <3> TAKE i \in 1 .. n
    <3>1. i \in 1 .. n + 1 /\ i # n + 1
      OBVIOUS
    <3> QED BY <2>3, <2>4, <3>1
  <2>6. \A i \in 1 .. n + 1 : h[i] = IF i = 1 THEN Start(w) ELSE Next2(h[i - 1], i)
    <3> TAKE i \in 1 .. n + 1
    <3>1. CASE i = n + 1 /\ i # 1
      <4>1. i - 1 = n /\ n \in 1 .. n
        BY <3>1
      <4> QED BY <2>4, <2>5, <3>1, <4>1
    <3>2. CASE i # n + 1 /\ i # 1
      <4>1. i \in 1 .. n /\ i - 1 \in 1 .. n
        BY <3>2
      <4>2. h[i] = g[i] /\ h[i - 1] = g[i - 1]
        BY <2>5, <4>1
      <4> QED BY <2>3, <3>2, <4>1, <4>2
    <3>3. CASE i = 1
      BY <2>4, <3>3
    <3> QED BY <3>1, <3>2, <3>3
  <2>7. h = [i \in 1 .. n + 1 |-> IF i = 1 THEN Start(w) ELSE Next2(h[i - 1], i)]
    BY <2>2, <2>6
  <2>8. \E gg : Walk(gg, b, m, geometry, w, direction, n + 1)
    BY <1>0, <2>7
  <2> QED BY <2>8
<1> HIDE DEF T
<1>3. Nat \subseteq T
  BY <1>1, <1>2, InductionOnNat
<1> QED BY <1>3 DEF T

LEMMA WalkedIs ==
  ASSUME NEW b, NEW m, NEW profile, NEW geometry, NEW w, Len(w.nodes) \in Nat
  PROVE  \E g : /\ Walk(g, b, m, geometry, w, DirectionOf(profile, w.tags), Len(w.nodes))
                /\ Walked(b, m, profile, geometry, w) = g[Len(w.nodes)].arcs
<1> DEFINE g == CHOOSE g : Walk(g, b, m, geometry, w, DirectionOf(profile, w.tags), Len(w.nodes))
<1>1. Walk(g, b, m, geometry, w, DirectionOf(profile, w.tags), Len(w.nodes))
  BY WalkExists
<1>2. Walked(b, m, profile, geometry, w) = g[Len(w.nodes)].arcs
  BY DEF Walked, Walk, Start
<1> HIDE DEF g
<1> QED BY <1>1, <1>2

IsWalk(x) == x = [last |-> x.last, points |-> x.points, dist |-> x.dist, arcs |-> x.arcs]
StepDist(at, w, x, i) == x.dist + GeoDist(at[w.nodes[i]], at[w.nodes[i - 1]])
ForwardArc(at, geometry, w, x, i) ==
  [tail |-> x.last, head |-> w.nodes[i], dist |-> StepDist(at, w, x, i), way |-> w.id, anti |-> FALSE,
   points |-> Kept(geometry, x.points)]
BackwardArc(at, geometry, w, x, i) ==
  [tail |-> w.nodes[i], head |-> x.last, dist |-> StepDist(at, w, x, i), way |-> w.id, anti |-> TRUE,
   points |-> Kept(geometry, Reverse(x.points))]
Forward(direction, a) == IF direction \in {"forwards", "both"} THEN <<a>> ELSE <<>>
Backward(direction, a) == IF direction \in {"backwards", "both"} THEN <<a>> ELSE <<>>
MoreArcs(at, geometry, w, direction, x, i) ==
  Linked(Linked(x.arcs, Forward(direction, ForwardArc(at, geometry, w, x, i))),
         Backward(direction, BackwardArc(at, geometry, w, x, i)))

LEMMA StepAt ==
  ASSUME NEW b, NEW m, NEW geometry, NEW w, NEW direction, NEW x, NEW i, w.nodes[i] \in m.routing
  PROVE  StepAlong(b, m, geometry, w, direction, x, i) =
           [last |-> w.nodes[i], points |-> <<>>, dist |-> 0, arcs |-> MoreArcs(b.position, geometry, w, direction, x, i)]
<1> DEFINE fw == ForwardArc(b.position, geometry, w, x, i)
           bw == BackwardArc(b.position, geometry, w, x, i)
           dist == x.dist + GeoDist(b.position[w.nodes[i]], b.position[w.nodes[i - 1]])
           f == [tail |-> x.last, head |-> w.nodes[i], dist |-> dist, way |-> w.id, anti |-> FALSE,
                 points |-> Kept(geometry, x.points)]
           r == [f EXCEPT !.tail = w.nodes[i], !.head = x.last, !.anti = TRUE, !.points = Kept(geometry, Reverse(x.points))]
<1>1. f = fw
  BY DEF ForwardArc, StepDist
<1>2. r = bw
  <2>1. PICK d, h, k, q, n : d = dist /\ h = w.nodes[i] /\ k = Kept(geometry, Reverse(x.points)) /\ q = Kept(geometry, x.points) /\ n = w.id
    OBVIOUS
  <2>2. [[tail |-> x.last, head |-> h, dist |-> d, way |-> n, anti |-> FALSE, points |-> q]
          EXCEPT !.tail = h, !.head = x.last, !.anti = TRUE, !.points = k]
        = [tail |-> h, head |-> x.last, dist |-> d, way |-> n, anti |-> TRUE, points |-> k]
    <3>1. PICK l, y, z : /\ l = x.last /\ y = [tail |-> l, head |-> h, dist |-> d, way |-> n, anti |-> FALSE, points |-> q]
                         /\ z = [y EXCEPT !.tail = h, !.head = l, !.anti = TRUE, !.points = k]
      OBVIOUS
    <3>2. z = [u \in DOMAIN z |-> z[u]] /\ DOMAIN z = {"tail", "head", "dist", "way", "anti", "points"}
      BY <3>1
    <3>3. z.tail = h /\ z.head = l /\ z.dist = d /\ z.way = n /\ z.anti = TRUE /\ z.points = k
      BY <3>1
    <3>4. z = [tail |-> h, head |-> l, dist |-> d, way |-> n, anti |-> TRUE, points |-> k]
      BY <3>2, <3>3
    <3> QED BY <3>1, <3>4
  <2> QED BY <2>1, <2>2, Zenon DEF BackwardArc, StepDist
<1>3. StepAlong(b, m, geometry, w, direction, x, i) =
           [last |-> w.nodes[i], points |-> <<>>, dist |-> 0,
            arcs |-> x.arcs \o (IF direction \in {"forwards", "both"} THEN <<f>> ELSE <<>>)
                            \o (IF direction \in {"backwards", "both"} THEN <<r>> ELSE <<>>)]
  BY Zenon DEF StepAlong
<1> HIDE DEF f, r, dist
<1> QED BY <1>1, <1>2, <1>3, Zenon DEF MoreArcs, Linked, Forward, Backward

LEMMA StepBetween ==
  ASSUME NEW b, NEW m, NEW geometry, NEW w, NEW direction, NEW x, NEW i, w.nodes[i] \notin m.routing, IsWalk(x)
  PROVE  StepAlong(b, m, geometry, w, direction, x, i) =
           [last |-> x.last, points |-> Append(x.points, b.position[w.nodes[i]]), dist |-> StepDist(b.position, w, x, i), arcs |-> x.arcs]
<1>1. PICK d, h : d = StepDist(b.position, w, x, i) /\ h = b.position[w.nodes[i]]
  OBVIOUS
<1>2. StepAlong(b, m, geometry, w, direction, x, i) = [x EXCEPT !.points = Append(@, h), !.dist = d]
  BY <1>1, Zenon DEF StepAlong, StepDist
<1>3. [x EXCEPT !.points = Append(@, h), !.dist = d] = [last |-> x.last, points |-> Append(x.points, h), dist |-> d, arcs |-> x.arcs]
  <2>1. PICK l, p, o, a : l = x.last /\ p = x.points /\ o = x.dist /\ a = x.arcs
    OBVIOUS
  <2>2. x = [last |-> l, points |-> p, dist |-> o, arcs |-> a]
    BY <2>1 DEF IsWalk
  <2>3. PICK q : q = Append(p, h)
    OBVIOUS
  <2>4. [x EXCEPT !.points = Append(@, h), !.dist = d] = [x EXCEPT !.points = q, !.dist = d]
    BY <2>1, <2>3
  <2>5. [x EXCEPT !.points = q, !.dist = d] = [last |-> l, points |-> q, dist |-> d, arcs |-> a]
    <3>1. PICK z : z = [x EXCEPT !.points = q, !.dist = d]
      OBVIOUS
    <3>2. z = [u \in DOMAIN z |-> z[u]] /\ DOMAIN z = {"last", "points", "dist", "arcs"}
      BY <2>2, <3>1
    <3>3. z.last = l /\ z.points = q /\ z.dist = d /\ z.arcs = a
      BY <2>2, <3>1
    <3> QED BY <3>1, <3>2, <3>3
  <2> QED BY <2>1, <2>3, <2>4, <2>5
<1> QED BY <1>1, <1>2, <1>3

\* The length of a leg grows with its steps.
LEMMA SumsAgree ==
  ASSUME NEW g, NEW h, NEW ds, NEW es, NEW n \in Nat, NEW k \in Nat, n <= k, SumsOf(g, ds, n), SumsOf(h, es, k),
         \A i \in 1 .. n : ds[i] = es[i]
  PROVE  g[n] = h[n]
<1> DEFINE T == {i \in Nat : i <= n => g[i] = h[i]}
<1>0. /\ \A i \in 0 .. n : g[i] = IF i = 0 THEN 0 ELSE g[i - 1] + ds[i]
      /\ \A i \in 0 .. k : h[i] = IF i = 0 THEN 0 ELSE h[i - 1] + es[i]
  BY DEF SumsOf
<1>1. 0 \in T
  BY <1>0
<1>2. ASSUME NEW i \in Nat, i \in T PROVE i + 1 \in T
  <2> SUFFICES ASSUME i + 1 <= n PROVE g[i + 1] = h[i + 1]
    OBVIOUS
  <2>1. i + 1 \in 0 .. n /\ i + 1 \in 0 .. k /\ i + 1 \in 1 .. n /\ i + 1 # 0 /\ (i + 1) - 1 = i /\ g[i] = h[i]
    BY <1>2
  <2>2. g[i + 1] = g[i] + ds[i + 1] /\ h[i + 1] = h[i] + es[i + 1]
    BY <1>0, <2>1
  <2> QED BY <2>1, <2>2
<1> HIDE DEF T
<1>3. Nat \subseteq T
  BY <1>1, <1>2, InductionOnNat
<1> QED BY <1>3 DEF T

Steps(at, w, l, i) == [k \in 1 .. i - l |-> GeoDist(at[w.nodes[l + k]], at[w.nodes[l + k - 1]])]
LEMMA LengthIs ==
  ASSUME NEW at, NEW w, NEW l \in Nat, NEW i \in Nat, l < i
  PROVE  \E g : SumsOf(g, Steps(at, w, l, i), i - l) /\ Length(at, w, <<l, i>>) = g[i - l]
<1> PICK n, ds : n = i - l /\ ds = Steps(at, w, l, i)
  OBVIOUS
<1>1. n \in Nat /\ n > 0 /\ Len(ds) = n /\ DOMAIN ds = 1 .. n
  BY DEF Steps
<1>2. PICK g : SumsOf(g, ds, n) /\ RunningSums(ds) = [k \in DOMAIN ds |-> g[k]]
  BY <1>1, RunningSumsAre
<1>3. n \in DOMAIN ds
  BY <1>1
<1>4. Length(at, w, <<l, i>>) = RunningSums(ds)[n]
  BY DEF Length, Steps
<1> QED BY <1>2, <1>3, <1>4

Gone(at, w, l, i) == IF i = l THEN 0 ELSE Length(at, w, <<l, i>>)
LEMMA GoneMore ==
  ASSUME NEW at, NEW w, NEW l \in Nat, NEW i \in Nat, l <= i
  PROVE  /\ Gone(at, w, l, i + 1) = Gone(at, w, l, i) + GeoDist(at[w.nodes[i + 1]], at[w.nodes[i]])
         /\ Gone(at, w, l, i + 1) = Length(at, w, <<l, i + 1>>)
<1> PICK n, j, d : n = i - l /\ j = i + 1 /\ d = GeoDist(at[w.nodes[i + 1]], at[w.nodes[i]])
  OBVIOUS
<1>1. n \in Nat /\ j \in Nat /\ l < j /\ j - l = n + 1 /\ l + (n + 1) = j /\ l + (n + 1) - 1 = i /\ j # l /\ n + 1 \in Nat
  OBVIOUS
<1>2. PICK es : es = Steps(at, w, l, j)
  OBVIOUS
<1>3. PICK h : SumsOf(h, es, n + 1) /\ Length(at, w, <<l, j>>) = h[n + 1]
  <2>1. \E h : SumsOf(h, Steps(at, w, l, j), j - l) /\ Length(at, w, <<l, j>>) = h[j - l]
    BY <1>1, LengthIs
  <2> QED BY <1>1, <1>2, <2>1
<1>4. es[n + 1] = d
  <2>1. \A k \in 1 .. n + 1 : es[k] = GeoDist(at[w.nodes[l + k]], at[w.nodes[l + k - 1]])
    BY <1>1, <1>2 DEF Steps
  <2>2. n + 1 \in 1 .. n + 1
    BY <1>1
  <2>3. es[n + 1] = GeoDist(at[w.nodes[j]], at[w.nodes[i]])
    BY <1>1, <2>1, <2>2
  <2> QED BY <1>1, <2>3
<1>5. h[n + 1] = h[n] + d /\ h[0] = 0
  <2>1. \A k \in 0 .. n + 1 : h[k] = IF k = 0 THEN 0 ELSE h[k - 1] + es[k]
    BY <1>3 DEF SumsOf
  <2>2. n + 1 \in 0 .. n + 1 /\ 0 \in 0 .. n + 1 /\ n + 1 # 0 /\ (n + 1) - 1 = n
    BY <1>1
  <2> QED BY <1>4, <2>1, <2>2
<1>6. CASE i = l
  BY <1>1, <1>3, <1>5, <1>6 DEF Gone
<1>7. CASE i # l
  <2>1. PICK ds : ds = Steps(at, w, l, i)
    OBVIOUS
  <2>2. PICK g : SumsOf(g, ds, n) /\ Length(at, w, <<l, i>>) = g[n]
    <3>1. l < i
      BY <1>7
    <3>2. \E g : SumsOf(g, Steps(at, w, l, i), i - l) /\ Length(at, w, <<l, i>>) = g[i - l]
      BY <3>1, LengthIs
    <3> QED BY <1>1, <2>1, <3>2
  <2>3. \A k \in 1 .. n : ds[k] = es[k]
    <3>1. \A k \in 1 .. n : k \in 1 .. n + 1
      BY <1>1
    <3>2. ds = [k \in 1 .. n |-> GeoDist(at[w.nodes[l + k]], at[w.nodes[l + k - 1]])]
      BY <1>1, <2>1, Zenon DEF Steps
    <3>3. es = [k \in 1 .. n + 1 |-> GeoDist(at[w.nodes[l + k]], at[w.nodes[l + k - 1]])]
      BY <1>1, <1>2, Zenon DEF Steps
    <3> QED BY <3>1, <3>2, <3>3
  <2>4. n <= n + 1
    BY <1>1
  <2>5. g[n] = h[n]
    BY <1>1, <1>3, <2>2, <2>3, <2>4, SumsAgree
  <2> QED BY <1>1, <1>3, <1>5, <1>7, <2>2, <2>5 DEF Gone
<1> QED BY <1>6, <1>7

Since(at, w, l, i) == [k \in 1 .. i - l |-> at[w.nodes[l + k]]]
LEMMA SinceMore ==
  ASSUME NEW at, NEW w, NEW l \in Nat, NEW i \in Nat, l <= i
  PROVE  /\ Append(Since(at, w, l, i), at[w.nodes[i + 1]]) = Since(at, w, l, i + 1)
         /\ Inside(at, w, <<l, i + 1>>) = Since(at, w, l, i)
         /\ Since(at, w, l, l) = <<>>
<1> PICK n \in Nat : n = i - l
  OBVIOUS
<1>1. (i + 1) - l = n + 1 /\ (i + 1) - l - 1 = n /\ l + (n + 1) = i + 1
  OBVIOUS
<1>2. PICK s, t : s = Since(at, w, l, i) /\ t = Since(at, w, l, i + 1)
  OBVIOUS
<1>3. s = [k \in 1 .. n |-> at[w.nodes[l + k]]] /\ t = [k \in 1 .. n + 1 |-> at[w.nodes[l + k]]]
  BY <1>1, <1>2, Zenon DEF Since
<1>4. PICK S : S = {at[w.nodes[l + k]] : k \in 1 .. n + 1}
  OBVIOUS
<1>5. s \in Seq(S) /\ Len(s) = n /\ t \in Seq(S) /\ Len(t) = n + 1
  <2>1. \A k \in 1 .. n : k \in 1 .. n + 1
    OBVIOUS
  <2>2. \A k \in 1 .. n + 1 : at[w.nodes[l + k]] \in S
    BY <1>4, Zenon
  <2>3. s \in [1 .. n -> S]
    BY <1>3, <2>1, <2>2, Zenon
  <2>4. t \in [1 .. n + 1 -> S]
    BY <1>3, <2>2, Zenon
  <2> QED BY <2>3, <2>4
<1>6. PICK h : h = at[w.nodes[i + 1]]
  OBVIOUS
<1>7. h \in S /\ t[n + 1] = h
  <2>1. n + 1 \in 1 .. n + 1
    OBVIOUS
  <2>2. l + (n + 1) = i + 1
    BY <1>1
  <2>3. h = at[w.nodes[l + (n + 1)]]
    BY <1>6, <2>2, Zenon
  <2>4. t[n + 1] = at[w.nodes[l + (n + 1)]]
    BY <1>3, <2>1, Zenon
  <2>5. at[w.nodes[l + (n + 1)]] \in S
    BY <1>4, <2>1, Zenon
  <2> QED BY <2>3, <2>4, <2>5, Zenon
<1>8. PICK u : u = Append(s, h)
  OBVIOUS
<1>9. u \in Seq(S) /\ Len(u) = n + 1 /\ u[n + 1] = h /\ \A k \in 1 .. n : u[k] = s[k]
  BY <1>5, <1>7, <1>8
<1>10. \A k \in 1 .. n : t[k] = s[k]
  BY <1>3
<1>11. \A k \in 1 .. n + 1 : k \in 1 .. n \/ k = n + 1
  OBVIOUS
<1>12. \A k \in 1 .. Len(u) : u[k] = t[k]
  BY <1>7, <1>9, <1>10, <1>11
<1>13. u = t
  BY <1>5, <1>9, <1>12, SeqEqual
<1>14. Inside(at, w, <<l, i + 1>>) = s
  BY <1>1, <1>3 DEF Inside
<1>15. Since(at, w, l, l) = <<>>
  BY DEF Since
<1> QED BY <1>2, <1>6, <1>8, <1>13, <1>14, <1>15

LastStop(J, w, l, i) == l \in 1 .. i /\ w.nodes[l] \in J /\ \A k \in l + 1 .. i : w.nodes[k] \notin J
LegsTo(J, w, i) == {l \in Legs(J, w) : l[2] <= i}
LegsGrow(J, w, l, i) ==
  LegsTo(J, w, i + 1) = IF w.nodes[i + 1] \in J THEN LegsTo(J, w, i) \cup {<<l, i + 1>>} ELSE LegsTo(J, w, i)
LEMMA LegsMore ==
  ASSUME NEW J, NEW w, NEW l, NEW i \in Nat, LongWay(w), i + 1 <= Len(w.nodes), LastStop(J, w, l, i)
  PROVE  LegsGrow(J, w, l, i)
<1> PICK N, D, ns : N = Len(w.nodes) /\ D = 1 .. N /\ ns = w.nodes
  OBVIOUS
<1> DEFINE IsLeg(p, q) == p < q /\ ns[p] \in J /\ ns[q] \in J /\ \A k \in p + 1 .. q - 1 : ns[k] \notin J
<1>0. N \in Nat /\ l \in D /\ l <= i /\ l \in Nat /\ i + 1 \in D /\ (i + 1) - 1 = i
  BY DEF LastStop, LongWay
<1>1. \A x : x \in Legs(J, w) <=> \E p, q \in D : x = <<p, q>> /\ IsLeg(p, q)
  <2>0. DOMAIN w.nodes = D
    BY DEF LongWay
  <2>1. \A p, q \in D : <<p, q>> \in Legs(J, w) <=> IsLeg(p, q)
    BY <2>0 DEF Legs
  <2>2. \A x \in Legs(J, w) : \E p, q \in D : x = <<p, q>>
    BY <2>0 DEF Legs
  <2> QED BY <2>1, <2>2
<1>2. \A j, x : x \in LegsTo(J, w, j) <=> \E p, q \in D : x = <<p, q>> /\ IsLeg(p, q) /\ q <= j
  BY <1>1 DEF LegsTo
<1>3. \A q \in D : q <= i + 1 <=> q <= i \/ q = i + 1
  BY <1>0
<1>4. \A p \in D : IsLeg(p, i + 1) <=> p = l /\ ns[i + 1] \in J
  <2> SUFFICES ASSUME NEW p \in D PROVE IsLeg(p, i + 1) <=> p = l /\ ns[i + 1] \in J
    OBVIOUS
  <2>1. ns[l] \in J /\ \A k \in l + 1 .. i : ns[k] \notin J
    BY DEF LastStop
  <2>2. IsLeg(l, i + 1) <=> ns[i + 1] \in J
    BY <1>0, <2>1
  <2>3. CASE p < l
    <3>1. l \in p + 1 .. (i + 1) - 1
      BY <1>0, <2>3
    <3> QED BY <1>0, <2>1, <2>3, <3>1
  <2>4. CASE l < p /\ p < i + 1
    <3>1. p \in l + 1 .. i
      BY <1>0, <2>4
    <3> QED BY <1>0, <2>1, <2>4, <3>1
  <2>5. CASE p >= i + 1
    BY <1>0, <2>5
  <2>6. p = l \/ p < l \/ (l < p /\ p < i + 1) \/ p >= i + 1
    BY <1>0
  <2> QED BY <2>2, <2>3, <2>4, <2>5, <2>6
<1> HIDE DEF IsLeg
<1>5. \A x : x \in LegsTo(J, w, i + 1) <=> x \in LegsTo(J, w, i) \/ (x = <<l, i + 1>> /\ ns[i + 1] \in J)
  BY <1>0, <1>2, <1>3, <1>4
<1> QED BY <1>5 DEF LegsGrow

LegArc(at, geometry, w, l, anti) ==
  [tail |-> w.nodes[l[IF anti THEN 2 ELSE 1]], head |-> w.nodes[l[IF anti THEN 1 ELSE 2]],
   dist |-> Length(at, w, l), way |-> w.id, anti |-> anti,
   points |-> Kept(geometry, IF anti THEN Reverse(Inside(at, w, l)) ELSE Inside(at, w, l))]
Senses(direction) == {anti \in BOOLEAN : direction \in {"both", IF anti THEN "backwards" ELSE "forwards"}}
ArcsOn(at, geometry, w, direction, L) == {LegArc(at, geometry, w, l, anti) : l \in L, anti \in Senses(direction)}

LEMMA ArcsAlongAre ==
  ASSUME NEW at, NEW J, NEW profile, NEW geometry, NEW w
  PROVE  ArcsAlong(at, J, profile, geometry, w) = ArcsOn(at, geometry, w, DirectionOf(profile, w.tags), Legs(J, w))
BY DEF ArcsAlong, ArcsOn, LegArc, Senses

WalkAt(at, J, geometry, w, direction, x, i) ==
  /\ IsWalk(x) /\ Listed(x.arcs) /\ ToSet(x.arcs) = ArcsOn(at, geometry, w, direction, LegsTo(J, w, i))
  /\ \E l : /\ LastStop(J, w, l, i) /\ x.last = w.nodes[l]
            /\ x.points = Since(at, w, l, i) /\ x.dist = Gone(at, w, l, i)

LEMMA WalkStarts ==
  ASSUME NEW at, NEW J, NEW geometry, NEW w, NEW direction, w.nodes[1] \in J, LongWay(w)
  PROVE  WalkAt(at, J, geometry, w, direction, Start(w), 1)
<1> PICK x : x = Start(w)
  OBVIOUS
<1>1. x.last = w.nodes[1] /\ x.points = <<>> /\ x.dist = 0 /\ x.arcs = <<>> /\ IsWalk(x)
  BY DEF Start, IsWalk
<1>2. Listed(<<>>)
  <2>1. <<>> \in Seq({})
    OBVIOUS
  <2> QED BY <2>1 DEF Listed
<1>3. LegsTo(J, w, 1) = {}
  <2> SUFFICES ASSUME NEW l \in LegsTo(J, w, 1) PROVE FALSE
    OBVIOUS
  <2>1. l[1] < l[2] /\ l[2] <= 1 /\ l \in (DOMAIN w.nodes) \X (DOMAIN w.nodes)
    BY DEF LegsTo, Legs
  <2>2. l[1] \in 1 .. Len(w.nodes) /\ l[2] \in 1 .. Len(w.nodes)
    BY <2>1 DEF LongWay
  <2> QED BY <2>1, <2>2 DEF LongWay
<1>4. LastStop(J, w, 1, 1)
  BY DEF LastStop
<1>5. Since(at, w, 1, 1) = <<>> /\ Gone(at, w, 1, 1) = 0
  BY DEF Since, Gone
<1>6. ToSet(<<>>) = {} /\ ArcsOn(at, geometry, w, direction, {}) = {}
  BY DEF ToSet, ArcsOn
<1> QED BY <1>1, <1>2, <1>3, <1>4, <1>5, <1>6, Zenon DEF WalkAt

LEMMA ListedMembers ==
  ASSUME NEW s, NEW t, Listed(s), Listed(t)
  PROVE  Listed(Linked(s, t)) /\ ToSet(Linked(s, t)) = ToSet(s) \cup ToSet(t)
<1>1. PICK S, T : s \in Seq(S) /\ t \in Seq(T)
  BY DEF Listed
<1>2. PICK U : U = S \cup T
  OBVIOUS
<1>3. s \in Seq(U) /\ t \in Seq(U)
  BY <1>1, <1>2
<1>4. ToSet(Linked(s, t)) = ToSet(s) \cup ToSet(t)
  BY <1>3, MembersOfLinked
<1> QED BY <1>4, ListedJoin DEF Linked

LEMMA OneListed == ASSUME NEW x PROVE Listed(<<x>>) /\ Listed(<<>>) /\ ToSet(<<x>>) = {x} /\ ToSet(<<>>) = {}
<1>1. <<x>> \in Seq({x}) /\ <<>> \in Seq({x})
  OBVIOUS
<1>2. ToSet(<<x>>) = {x} /\ ToSet(<<>>) = {}
  BY DEF ToSet
<1>3. Listed(<<x>>)
  BY <1>1 DEF Listed
<1>4. Listed(<<>>)
  BY <1>1 DEF Listed
<1> QED BY <1>2, <1>3, <1>4

LEMMA MoreArcsAre ==
  ASSUME NEW at, NEW geometry, NEW w, NEW direction, NEW x, NEW i, Listed(x.arcs), NEW fw, NEW bw,
         fw = ForwardArc(at, geometry, w, x, i), bw = BackwardArc(at, geometry, w, x, i)
  PROVE  /\ Listed(MoreArcs(at, geometry, w, direction, x, i))
         /\ ToSet(MoreArcs(at, geometry, w, direction, x, i)) =
              ToSet(x.arcs) \cup {IF anti THEN bw ELSE fw : anti \in Senses(direction)}
<1> PICK a, f, b : a = x.arcs /\ f = Forward(direction, fw) /\ b = Backward(direction, bw)
  OBVIOUS
<1>1. Listed(f) /\ ToSet(f) = IF direction \in {"forwards", "both"} THEN {fw} ELSE {}
  BY OneListed DEF Forward
<1>2. Listed(b) /\ ToSet(b) = IF direction \in {"backwards", "both"} THEN {bw} ELSE {}
  BY OneListed DEF Backward
<1>3. Listed(Linked(a, f)) /\ ToSet(Linked(a, f)) = ToSet(a) \cup ToSet(f)
  BY <1>1, ListedMembers
<1>4. Listed(Linked(Linked(a, f), b)) /\ ToSet(Linked(Linked(a, f), b)) = (ToSet(a) \cup ToSet(f)) \cup ToSet(b)
  BY <1>2, <1>3, ListedMembers
<1>5. MoreArcs(at, geometry, w, direction, x, i) = Linked(Linked(a, f), b)
  BY DEF MoreArcs
<1>6. {IF anti THEN bw ELSE fw : anti \in Senses(direction)} = ToSet(f) \cup ToSet(b)
  <2>1. FALSE \in Senses(direction) <=> direction \in {"forwards", "both"}
    BY DEF Senses
  <2>2. TRUE \in Senses(direction) <=> direction \in {"backwards", "both"}
    BY DEF Senses
  <2>3. Senses(direction) \subseteq BOOLEAN
    BY DEF Senses
  <2>4. PICK Z : Z = Senses(direction)
    OBVIOUS
  <2>5. \A y : y \in {IF anti THEN bw ELSE fw : anti \in Z} <=> (TRUE \in Z /\ y = bw) \/ (FALSE \in Z /\ y = fw)
    <3> TAKE y
    <3>1. ASSUME y \in {IF anti THEN bw ELSE fw : anti \in Z} PROVE (TRUE \in Z /\ y = bw) \/ (FALSE \in Z /\ y = fw)
      <4>1. PICK anti \in Z : y = IF anti THEN bw ELSE fw
        BY <3>1
      <4>2. anti = TRUE \/ anti = FALSE
        BY <2>3, <2>4
      <4> QED BY <4>1, <4>2
    <3>2. ASSUME TRUE \in Z, y = bw PROVE y \in {IF anti THEN bw ELSE fw : anti \in Z}
      <4>1. y = IF TRUE THEN bw ELSE fw
        BY <3>2
      <4> QED BY <3>2, <4>1
    <3>3. ASSUME FALSE \in Z, y = fw PROVE y \in {IF anti THEN bw ELSE fw : anti \in Z}
      <4>1. y = IF FALSE THEN bw ELSE fw
        BY <3>3
      <4> QED BY <3>3, <4>1
    <3> QED BY <3>1, <3>2, <3>3
  <2> QED BY <1>1, <1>2, <2>1, <2>2, <2>4, <2>5
<1> QED BY <1>4, <1>5, <1>6

LEMMA ArcsOnMore ==
  ASSUME NEW at, NEW geometry, NEW w, NEW direction, NEW L, NEW l
  PROVE  ArcsOn(at, geometry, w, direction, L \cup {l})
           = ArcsOn(at, geometry, w, direction, L) \cup {LegArc(at, geometry, w, l, anti) : anti \in Senses(direction)}
<1> PICK Z : Z = Senses(direction)
  OBVIOUS
<1>1. \A M, x : x \in ArcsOn(at, geometry, w, direction, M) <=> \E k \in M : \E anti \in Z : x = LegArc(at, geometry, w, k, anti)
  BY DEF ArcsOn
<1>2. \A x : x \in ArcsOn(at, geometry, w, direction, L \cup {l})
              <=> x \in ArcsOn(at, geometry, w, direction, L) \/ \E anti \in Z : x = LegArc(at, geometry, w, l, anti)
  BY <1>1
<1>3. \A x : x \in {LegArc(at, geometry, w, l, anti) : anti \in Z} <=> \E anti \in Z : x = LegArc(at, geometry, w, l, anti)
  BY Zenon
<1> QED BY <1>2, <1>3

LEMMA WalkSteps ==
  ASSUME NEW b, NEW m, NEW geometry, NEW w, NEW direction, NEW x, NEW i \in Nat, LongWay(w), i + 1 <= Len(w.nodes),
         WalkAt(b.position, m.routing, geometry, w, direction, x, i)
  PROVE  WalkAt(b.position, m.routing, geometry, w, direction, StepAlong(b, m, geometry, w, direction, x, i + 1), i + 1)
<1> PICK at, J, j, ns : at = b.position /\ J = m.routing /\ j = i + 1 /\ ns = w.nodes
  OBVIOUS
<1>1. IsWalk(x) /\ Listed(x.arcs) /\ ToSet(x.arcs) = ArcsOn(at, geometry, w, direction, LegsTo(J, w, i))
  BY Zenon DEF WalkAt
<1>2. PICK l : LastStop(J, w, l, i) /\ x.last = ns[l] /\ x.points = Since(at, w, l, i) /\ x.dist = Gone(at, w, l, i)
  BY Zenon DEF WalkAt
<1>3. l \in Nat /\ l <= i /\ j - 1 = i /\ j \in Nat /\ l # j
  BY <1>2 DEF LastStop
<1>4. StepDist(at, w, x, j) = Gone(at, w, l, j) /\ Gone(at, w, l, j) = Length(at, w, <<l, j>>)
  <2>0. l \in Nat /\ i \in Nat
    BY <1>3
  <2>a. l <= i
    BY <1>3
  <2>1. Gone(at, w, l, i + 1) = Gone(at, w, l, i) + GeoDist(at[w.nodes[i + 1]], at[w.nodes[i]]) /\ Gone(at, w, l, i + 1) = Length(at, w, <<l, i + 1>>)
    BY <2>0, <2>a, GoneMore
  <2> QED BY <1>2, <1>3, <2>1 DEF StepDist
<1>5. Append(x.points, at[ns[j]]) = Since(at, w, l, j) /\ Inside(at, w, <<l, j>>) = x.points /\ Since(at, w, j, j) = <<>>
  <2>0. l \in Nat /\ i \in Nat /\ j \in Nat
    BY <1>3
  <2>a. l <= i
    BY <1>3
  <2>1. /\ Append(Since(at, w, l, i), at[w.nodes[i + 1]]) = Since(at, w, l, i + 1)
        /\ Inside(at, w, <<l, i + 1>>) = Since(at, w, l, i)
    BY <2>0, <2>a, SinceMore
  <2>2. Since(at, w, j, j) = <<>>
    BY <2>0 DEF Since
  <2> QED BY <1>2, <2>1, <2>2
<1>6. LegsTo(J, w, j) = IF ns[j] \in J THEN LegsTo(J, w, i) \cup {<<l, j>>} ELSE LegsTo(J, w, i)
  <2>1. i + 1 <= Len(w.nodes)
    OBVIOUS
  <2>2. LastStop(J, w, l, i)
    BY <1>2
  <2>3. LegsTo(J, w, i + 1) = IF w.nodes[i + 1] \in J THEN LegsTo(J, w, i) \cup {<<l, i + 1>>} ELSE LegsTo(J, w, i)
    <3>1. LegsGrow(J, w, l, i)
      BY <2>1, <2>2, LegsMore
    <3> QED BY <3>1 DEF LegsGrow
  <2>4. w.nodes[i + 1] = ns[j]
    OBVIOUS
  <2> QED BY <2>3, <2>4
<1>7. CASE ns[j] \in J
  <2>1. PICK fw, bw : fw = ForwardArc(at, geometry, w, x, j) /\ bw = BackwardArc(at, geometry, w, x, j)
    OBVIOUS
  <2>2. fw = LegArc(at, geometry, w, <<l, j>>, FALSE)
    BY <1>2, <1>4, <1>5, <2>1 DEF ForwardArc, LegArc
  <2>3. bw = LegArc(at, geometry, w, <<l, j>>, TRUE)
    BY <1>2, <1>4, <1>5, <2>1 DEF BackwardArc, LegArc
  <2>4. PICK A : A = MoreArcs(at, geometry, w, direction, x, j)
    OBVIOUS
  <2>5. Listed(A) /\ ToSet(A) = ToSet(x.arcs) \cup {IF anti THEN bw ELSE fw : anti \in Senses(direction)}
    BY <1>1, <2>1, <2>4, MoreArcsAre
  <2>6. {IF anti THEN bw ELSE fw : anti \in Senses(direction)} = {LegArc(at, geometry, w, <<l, j>>, anti) : anti \in Senses(direction)}
    <3>1. \A anti \in Senses(direction) : (IF anti THEN bw ELSE fw) = LegArc(at, geometry, w, <<l, j>>, anti)
      <4> TAKE anti \in Senses(direction)
      <4>1. anti = TRUE \/ anti = FALSE
        BY DEF Senses
      <4> QED BY <2>2, <2>3, <4>1
    <3> PICK Z : Z = Senses(direction)
      OBVIOUS
    <3>2. \A y : y \in {IF anti THEN bw ELSE fw : anti \in Z} <=> \E anti \in Z : y = IF anti THEN bw ELSE fw
      OBVIOUS
    <3>3. \A y : y \in {LegArc(at, geometry, w, <<l, j>>, anti) : anti \in Z} <=> \E anti \in Z : y = LegArc(at, geometry, w, <<l, j>>, anti)
      OBVIOUS
    <3> QED BY <3>1, <3>2, <3>3
  <2>7. ToSet(A) = ArcsOn(at, geometry, w, direction, LegsTo(J, w, j))
    <3>1. PICK k, L : k = <<l, j>> /\ L = LegsTo(J, w, i)
      OBVIOUS
    <3>2. LegsTo(J, w, j) = L \cup {k}
      BY <1>6, <1>7, <3>1
    <3>3. ArcsOn(at, geometry, w, direction, L \cup {k})
           = ArcsOn(at, geometry, w, direction, L) \cup {LegArc(at, geometry, w, k, anti) : anti \in Senses(direction)}
      BY ArcsOnMore
    <3>4. PICK P, Q : P = {LegArc(at, geometry, w, k, anti) : anti \in Senses(direction)} /\ Q = ToSet(x.arcs)
      OBVIOUS
    <3>5. {LegArc(at, geometry, w, <<l, j>>, anti) : anti \in Senses(direction)} = P
      BY <3>1, <3>4
    <3>6. ToSet(A) = Q \cup P
      BY <2>5, <2>6, <3>4, <3>5
    <3>7. Q = ArcsOn(at, geometry, w, direction, L)
      BY <1>1, <3>1, <3>4
    <3>8. ArcsOn(at, geometry, w, direction, L \cup {k}) = Q \cup P
      BY <3>3, <3>4, <3>7
    <3> QED BY <3>2, <3>6, <3>8
  <2>8. PICK y : y = StepAlong(b, m, geometry, w, direction, x, j)
    OBVIOUS
  <2>9. y = [last |-> ns[j], points |-> <<>>, dist |-> 0, arcs |-> A]
    BY <1>7, <2>4, <2>8, StepAt
  <2>10. IsWalk(y) /\ y.last = ns[j] /\ y.points = <<>> /\ y.dist = 0 /\ y.arcs = A
    BY <2>9 DEF IsWalk
  <2>11. LastStop(J, w, j, j)
    BY <1>3, <1>7 DEF LastStop
  <2>12. Gone(at, w, j, j) = 0
    BY DEF Gone
  <2>13. WalkAt(at, J, geometry, w, direction, y, j)
    BY <1>5, <2>5, <2>7, <2>10, <2>11, <2>12, Zenon DEF WalkAt
  <2> QED BY <2>8, <2>13
<1>8. CASE ns[j] \notin J
  <2>1. PICK y : y = StepAlong(b, m, geometry, w, direction, x, j)
    OBVIOUS
  <2>2. y = [last |-> x.last, points |-> Append(x.points, at[ns[j]]), dist |-> StepDist(at, w, x, j), arcs |-> x.arcs]
    BY <1>1, <1>8, <2>1, StepBetween
  <2>3. IsWalk(y) /\ y.last = x.last /\ y.points = Since(at, w, l, j) /\ y.dist = Gone(at, w, l, j) /\ y.arcs = x.arcs
    BY <1>4, <1>5, <2>2 DEF IsWalk
  <2>4. LastStop(J, w, l, j)
    BY <1>2, <1>3, <1>8 DEF LastStop
  <2>5. LegsTo(J, w, j) = LegsTo(J, w, i)
    BY <1>6, <1>8
  <2>6. WalkAt(at, J, geometry, w, direction, y, j)
    BY <1>1, <1>2, <2>3, <2>4, <2>5, Zenon DEF WalkAt
  <2> QED BY <2>1, <2>6
<1> QED BY <1>7, <1>8
-----------------------------------------------------------------------------
(***************************************************************************)
(* One way loads the arcs of its legs.                                     *)
(***************************************************************************)
LEMMA WalkGoes ==
  ASSUME NEW b, NEW m, NEW geometry, NEW w, NEW direction, NEW g, LongWay(w), w.nodes[1] \in m.routing,
         Walk(g, b, m, geometry, w, direction, Len(w.nodes))
  PROVE  \A i \in Nat : i + 1 <= Len(w.nodes) => WalkAt(b.position, m.routing, geometry, w, direction, g[i + 1], i + 1)
<1> DEFINE T == {i \in Nat : i + 1 <= Len(w.nodes) => WalkAt(b.position, m.routing, geometry, w, direction, g[i + 1], i + 1)}
           Next2(x, i) == StepAlong(b, m, geometry, w, direction, x, i)
<1>0. Len(w.nodes) \in Nat /\ Len(w.nodes) >= 2
  BY DEF LongWay
<1>a. g = [i \in 1 .. Len(w.nodes) |-> IF i = 1 THEN Start(w) ELSE Next2(g[i - 1], i)]
  BY DEF Walk
<1> HIDE DEF Next2
<1>b. \A i \in 1 .. Len(w.nodes) : g[i] = IF i = 1 THEN Start(w) ELSE Next2(g[i - 1], i)
  BY <1>a
<1>1. 0 \in T
  <2>1. g[1] = Start(w) /\ 0 + 1 = 1
    BY <1>0, <1>b
  <2>2. WalkAt(b.position, m.routing, geometry, w, direction, Start(w), 1)
    BY WalkStarts
  <2> QED BY <2>1, <2>2
<1>2. ASSUME NEW i \in Nat, i \in T PROVE i + 1 \in T
  <2> SUFFICES ASSUME (i + 1) + 1 <= Len(w.nodes)
               PROVE  WalkAt(b.position, m.routing, geometry, w, direction, g[(i + 1) + 1], (i + 1) + 1)
    OBVIOUS
  <2> PICK k \in Nat : k = i + 1
    OBVIOUS
  <2>1. k + 1 <= Len(w.nodes) /\ k <= Len(w.nodes) /\ k + 1 \in 1 .. Len(w.nodes) /\ k + 1 # 1 /\ (k + 1) - 1 = k
    BY <1>0
  <2>2. WalkAt(b.position, m.routing, geometry, w, direction, g[k], k)
    BY <1>2, <2>1
  <2>3. g[k + 1] = Next2(g[k], k + 1)
    BY <1>b, <2>1
  <2>4. PICK x : x = g[k]
    OBVIOUS
  <2>5. WalkAt(b.position, m.routing, geometry, w, direction, StepAlong(b, m, geometry, w, direction, x, k + 1), k + 1)
    <3>1. WalkAt(b.position, m.routing, geometry, w, direction, x, k)
      BY <2>2, <2>4
    <3>2. k + 1 <= Len(w.nodes)
      BY <2>1
    <3> QED BY <3>1, <3>2, WalkSteps
  <2> QED BY <2>3, <2>4, <2>5 DEF Next2
<1> HIDE DEF T
<1>3. Nat \subseteq T
  BY <1>1, <1>2, InductionOnNat
<1> QED BY <1>3 DEF T

LEMMA WayWalked ==
  ASSUME NEW b, NEW m, NEW profile, NEW geometry, NEW w, LongWay(w), w.nodes[1] \in m.routing
  PROVE  /\ Listed(Walked(b, m, profile, geometry, w))
         /\ ToSet(Walked(b, m, profile, geometry, w)) = ArcsAlong(b.position, m.routing, profile, geometry, w)
<1>0. Len(w.nodes) \in Nat /\ Len(w.nodes) >= 2
  BY DEF LongWay
<1> PICK n \in Nat : n = Len(w.nodes)
  BY <1>0
<1>1. PICK g : /\ Walk(g, b, m, geometry, w, DirectionOf(profile, w.tags), Len(w.nodes))
               /\ Walked(b, m, profile, geometry, w) = g[n].arcs
  <2>1. Len(w.nodes) \in Nat
    BY <1>0
  <2>2. \E g : /\ Walk(g, b, m, geometry, w, DirectionOf(profile, w.tags), Len(w.nodes))
               /\ Walked(b, m, profile, geometry, w) = g[Len(w.nodes)].arcs
    BY <2>1, WalkedIs
  <2> QED BY <2>2
<1>2. WalkAt(b.position, m.routing, geometry, w, DirectionOf(profile, w.tags), g[n], n)
  <2>1. \A i \in Nat : i + 1 <= Len(w.nodes) => WalkAt(b.position, m.routing, geometry, w, DirectionOf(profile, w.tags), g[i + 1], i + 1)
    BY <1>1, WalkGoes
  <2>2. PICK i \in Nat : i + 1 = n
    <3>1. n - 1 \in Nat /\ (n - 1) + 1 = n
      BY <1>0
    <3> QED BY <3>1
  <2> QED BY <2>1, <2>2
<1>3. LegsTo(m.routing, w, n) = Legs(m.routing, w)
  <2>1. ASSUME NEW l \in Legs(m.routing, w) PROVE l[2] <= n
    <3>1. l[2] \in DOMAIN w.nodes
      BY <2>1 DEF Legs
    <3>2. l[2] \in 1 .. Len(w.nodes)
      BY <3>1 DEF LongWay
    <3> QED BY <3>2
  <2> QED BY <2>1 DEF LegsTo
<1>4. Listed(g[n].arcs) /\ ToSet(g[n].arcs) = ArcsOn(b.position, geometry, w, DirectionOf(profile, w.tags), LegsTo(m.routing, w, n))
  BY <1>2, Zenon DEF WalkAt
<1> QED BY <1>1, <1>3, <1>4, ArcsAlongAre

\* The ids in use are those of the used ways of the file.
LEMMA InUse ==
  ASSUME NEW f \in Files, NEW w, NEW j, NEW m, Mapped(f, w, j, m), NEW e \in ToSet(Entities(f, "way")), e \in Calls(f), e.kind = "way"
  PROVE  /\ e.id \in m.ways <=> Len(e.nodes) >= 2 /\ IsWayUsed(j.profile, e.tags)
         /\ e.id \in m.ways => LongWay(e) /\ e.nodes[1] \in m.routing
<1> PICK all, U : all = Entities(f, "way") /\ U = UsedIn(j.profile, ToSet(all))
  OBVIOUS
<1>1. m.ways = {u.id : u \in U} /\ m.routing = JunctionsIn(U, j.allRouting)
  BY DEF Mapped, MapIs
<1>2. IdsDiffer(all)
  BY EntitiesApart
<1>3. \A x, y \in ToSet(all) : x.id = y.id => x = y
  BY <1>2 DEF ToSet, IdsDiffer
<1>4. e.id \in m.ways <=> e \in U
  <2>1. U \subseteq ToSet(all)
    BY DEF UsedIn
  <2> QED BY <1>1, <1>3, <2>1
<1>5. e \in U <=> Len(e.nodes) >= 2 /\ IsWayUsed(j.profile, e.tags)
  BY DEF UsedIn
<1>6. ASSUME e \in U PROVE LongWay(e) /\ e.nodes[1] \in m.routing
  <2>1. e.nodes \in Seq(Int)
    BY WayNodes
  <2>2. LongWay(e)
    BY <1>5, <1>6, <2>1 DEF LongWay
  <2>3. 1 \in DOMAIN e.nodes
    BY <2>2 DEF LongWay
  <2>4. e.nodes[1] \in NodesIn(U)
    BY <1>6, <2>3 DEF NodesIn, NodesOf
  <2>5. EndsIn(U, e.nodes[1])
    BY <1>6 DEF EndsIn
  <2> QED BY <1>1, <2>2, <2>4, <2>5 DEF JunctionsIn
<1> QED BY <1>4, <1>5, <1>6

\* What a way adds to the arcs, if it is one of those in use.
Ways(at, J, profile, geometry, U) == UNION {ArcsAlong(at, J, profile, geometry, w) : w \in U}
LEMMA WayAdds ==
  ASSUME NEW b, NEW m, NEW profile, NEW geometry, NEW w, IsBuilder(b), Listed(b.arcs),
         w.id \in m.ways => LongWay(w) /\ w.nodes[1] \in m.routing
  PROVE  /\ Listed(LoadWay(b, m, profile, geometry, w).arcs)
         /\ ToSet(LoadWay(b, m, profile, geometry, w).arcs) =
              IF w.id \in m.ways THEN ToSet(b.arcs) \cup ArcsAlong(b.position, m.routing, profile, geometry, w)
              ELSE ToSet(b.arcs)
<1> PICK x, y : x = b.arcs /\ y = LoadWay(b, m, profile, geometry, w).arcs
  OBVIOUS
<1>1. y = IF w.id \in m.ways /\ DirectionOf(profile, w.tags) # "closed"
          THEN Linked(x, Walked(b, m, profile, geometry, w)) ELSE x
  BY WayLoaded DEF Linked
<1>2. CASE w.id \notin m.ways
  BY <1>1, <1>2
<1>3. CASE w.id \in m.ways /\ DirectionOf(profile, w.tags) = "closed"
  <2>1. Senses("closed") = {}
    BY DEF Senses
  <2>2. ArcsAlong(b.position, m.routing, profile, geometry, w) = {}
    BY <1>3, <2>1, ArcsAlongAre DEF ArcsOn
  <2> QED BY <1>1, <1>3, <2>2
<1>4. CASE w.id \in m.ways /\ DirectionOf(profile, w.tags) # "closed"
  <2>1. PICK a : a = Walked(b, m, profile, geometry, w)
    OBVIOUS
  <2>2. Listed(a) /\ ToSet(a) = ArcsAlong(b.position, m.routing, profile, geometry, w)
    BY <1>4, <2>1, WayWalked
  <2>3. y = Linked(x, a)
    BY <1>1, <1>4, <2>1
  <2>4. Listed(Linked(x, a)) /\ ToSet(Linked(x, a)) = ToSet(x) \cup ToSet(a)
    BY <2>2, ListedMembers
  <2> QED BY <1>4, <2>2, <2>3, <2>4
<1> QED BY <1>2, <1>3, <1>4

-----------------------------------------------------------------------------
(***************************************************************************)
(* The restrictions asked for.                                             *)
(***************************************************************************)
IsAsk(r) ==
  /\ r = [category |-> r.category, direction |-> r.direction, from |-> r.from, to |-> r.to, via |-> r.via]
  /\ r.category \in {"no", "only"}
Asks(s) == Listed(s) /\ \A x \in ToSet(s) : IsAsk(x)
LEMMA NoAsk == Asks(<<>>)
BY OneListed DEF Asks

LEMMA WaysAsListed == ASSUME NEW r, NEW role, Listed(r.members) PROVE Len(WaysAs(r, role)) \in Nat
<1> PICK ms, S : ms = r.members /\ ms \in Seq(S)
  BY DEF Listed
<1>1. PICK ss : ss = [i \in DOMAIN ms |-> IF ms[i].role = role /\ ms[i].type = "way" THEN <<ms[i]>> ELSE <<>>]
  OBVIOUS
<1>2. DOMAIN ms = 1 .. Len(ms) /\ Len(ms) \in Nat
  OBVIOUS
<1>3. \A i \in 1 .. Len(ms) : ms[i] \in S /\ <<ms[i]>> \in Seq(S) /\ <<>> \in Seq(S)
  OBVIOUS
<1>4. \A i \in 1 .. Len(ms) : ss[i] \in Seq(S)
  BY <1>1, <1>2, <1>3
<1>5. ss \in Seq(Seq(S))
  <2>1. ss \in [1 .. Len(ms) -> Seq(S)]
    BY <1>1, <1>2, <1>4
  <2> QED BY <1>2, <2>1
<1>6. WaysAs(r, role) = FlattenSeq(ss)
  BY <1>1 DEF WaysAs
<1>7. FlattenSeq(ss) \in Seq(S)
  BY <1>5, FlattenTypes
<1> QED BY <1>6, <1>7

LEMMA FunctionListed ==
  ASSUME NEW n \in Nat, NEW f, DOMAIN f = 1 .. n, f = [i \in 1 .. n |-> f[i]]
  PROVE  Listed(f) /\ Len(f) = n
<1>1. PICK S : S = {f[i] : i \in 1 .. n}
  OBVIOUS
<1>2. f \in [1 .. n -> S]
  BY <1>1
<1>3. f \in Seq(S) /\ Len(f) = n
  BY <1>2
<1> QED BY <1>3 DEF Listed

LEMMA RestrictionsAsk ==
  ASSUME NEW r, NEW value, Listed(r.members)
  PROVE  Asks(Restrictions(r, value))
<1> PICK from, to, vias, N :
      from = WaysAs(r, "from") /\ to = WaysAs(r, "to") /\ vias = MembersAs(r, "via") /\ N = Len(from) * Len(to)
  OBVIOUS
<1>1. N \in Nat
  <2>1. Len(from) \in Nat /\ Len(to) \in Nat
    BY WaysAsListed
  <2>2. \A a, b \in Nat : a * b \in Nat
    OBVIOUS
  <2> QED BY <2>1, <2>2
<1> DEFINE pairs == [k \in 0 .. N - 1 |-> <<from[(k \div Len(to)) + 1].id, to[(k % Len(to)) + 1].id>>]
           ask(k) == [category |-> value.category, direction |-> value.direction,
                      from |-> pairs[k - 1][1], to |-> pairs[k - 1][2],
                      via |-> IF vias = {} THEN NoNode ELSE r.members[CHOOSE i \in vias : TRUE].id]
<1>2. Restrictions(r, value) = <<>> \/ (value.category \in {"no", "only"} /\ Restrictions(r, value) = [k \in 1 .. N |-> ask(k)])
  BY DEF Restrictions
<1> HIDE DEF pairs
<1>3. CASE Restrictions(r, value) = <<>>
  BY <1>3, NoAsk
<1>4. CASE value.category \in {"no", "only"} /\ Restrictions(r, value) = [k \in 1 .. N |-> ask(k)]
  <2>1. \A k : IsAsk(ask(k))
    BY <1>4 DEF IsAsk
  <2> HIDE DEF ask
  <2>2. PICK s : s = Restrictions(r, value)
    OBVIOUS
  <2>3. s = [k \in 1 .. N |-> ask(k)]
    BY <1>4, <2>2
  <2>4. DOMAIN s = 1 .. N /\ s = [k \in 1 .. N |-> s[k]] /\ \A k \in 1 .. N : s[k] = ask(k)
    BY <2>3
  <2>5. Listed(s)
    BY <1>1, <2>4, FunctionListed
  <2>6. \A x \in ToSet(s) : IsAsk(x)
    BY <2>1, <2>4 DEF ToSet
  <2> QED BY <2>2, <2>5, <2>6 DEF Asks
<1> QED BY <1>2, <1>3, <1>4

LEMMA RelationAsks ==
  ASSUME NEW profile, NEW r, Listed(r.members)
  PROVE  Asks(TurnRestrictions(profile, r))
<1>1. Asks(CarTurnRestrictions(r))
  BY RestrictionsAsk, NoAsk DEF CarTurnRestrictions
<1>2. Asks(MotorcycleTurnRestrictions(r))
  BY RestrictionsAsk, NoAsk DEF MotorcycleTurnRestrictions
<1> QED BY <1>1, <1>2, NoAsk DEF TurnRestrictions

LEMMA CalledRelation ==
  ASSUME NEW f \in Files, NEW e \in Calls(f), e.kind = "relation"
  PROVE  Listed(e.members)
<1>1. e # Throw
  BY DEF Throw
<1>a. PICK i \in DataIn(f) : \E g \in ToSet(f[i].groups) : e \in ToSet(DecodeGroup(f[i], g))
  BY <1>1 DEF Calls
<1>2. PICK g \in ToSet(f[i].groups) : e \in ToSet(DecodeGroup(f[i], g))
  BY <1>a
<1> PICK b : b = f[i]
  OBVIOUS
<1>3. b.type = "OSMData" /\ i \in DOMAIN f
  BY FilesAssumption DEF DataIn, IsList
<1>4. /\ g.kind \in Kinds \cup {"dense"} /\ (g.kind = "dense" => IsList(g.ids) /\ IsList(g.lats) /\ IsList(g.lons))
      /\ (g.kind \in {"way", "relation"} => g.refs \in Seq(Int))
  BY <1>3, FilesAssumption
<1>5. Gives(DecodeGroup(b, g), KindOf(g))
  BY <1>4, GroupDecodes
<1>6. KindOf(g) = "relation"
  <2>1. PICK k \in DOMAIN DecodeGroup(b, g) : DecodeGroup(b, g)[k] = e
    BY <1>2 DEF ToSet
  <2>2. k \in 1 .. Len(DecodeGroup(b, g))
    BY <1>5, <2>1 DEF Gives, IsList
  <2> QED BY <1>1, <1>5, <2>1, <2>2 DEF Gives
<1>7. g.kind = "relation" /\ g.refs \in Seq(Int)
  BY <1>4, <1>6 DEF KindOf
<1> PICK ids, ms : ids = RunningSums(g.refs) /\ ms = [k \in DOMAIN ids |-> [type |-> g.types[k], id |-> ids[k], role |-> b.table[g.roles[k]]]]
  OBVIOUS
<1> PICK w : w = [kind |-> "relation", id |-> g.id, tags |-> TagMap(b, g.keys, g.values), members |-> ms]
  OBVIOUS
<1>8. DecodeGroup(b, g) = <<Throw>> \/ DecodeGroup(b, g) = <<w>>
  BY <1>7 DEF DecodeGroup, DecodeRelation, Tagged
<1>9. \A x : ToSet(<<x>>) = {x}
  BY DEF ToSet
<1>10. e = w
  BY <1>1, <1>2, <1>8, <1>9
<1>11. ids \in Seq(Int)
  BY <1>7, RunningSumsTypes
<1>12. Len(ids) \in Nat /\ DOMAIN ms = 1 .. Len(ids) /\ ms = [k \in 1 .. Len(ids) |-> ms[k]]
  BY <1>11
<1>13. Listed(ms)
  BY <1>12, FunctionListed
<1> QED BY <1>10, <1>13

LEMMA FlattenMembers ==
  ASSUME NEW ss, Listed(ss), \A x \in ToSet(ss) : Listed(x)
  PROVE  Listed(FlattenSeq(ss)) /\ ToSet(FlattenSeq(ss)) = UNION {ToSet(x) : x \in ToSet(ss)}
<1> PICK U : U = UNION {ToSet(x) : x \in ToSet(ss)}
  OBVIOUS
<1>1. \A x \in ToSet(ss) : x \in Seq(U)
  <2> TAKE x \in ToSet(ss)
  <2>1. x \in Seq(ToSet(x))
    BY ListedAre
  <2>2. ToSet(x) \subseteq U
    OBVIOUS
  <2> QED BY <2>1, <2>2
<1>2. DOMAIN ss = 1 .. Len(ss) /\ Len(ss) \in Nat /\ ss \in Seq(ToSet(ss))
  BY ListedAre
<1>3. ss \in Seq(Seq(U))
  <2>1. PICK T : T = ToSet(ss)
    OBVIOUS
  <2>2. T \subseteq Seq(U)
    BY <1>1, <2>1
  <2> QED BY <1>2, <2>1, <2>2
<1>4. PICK all : all = FlattenSeq(ss)
  OBVIOUS
<1>5. all \in Seq(U)
  BY <1>3, <1>4, FlattenTypes
<1>6. ToSet(all) \subseteq U
  BY <1>5, MembersIn
<1>7. ASSUME NEW x \in ToSet(ss), NEW y \in ToSet(x) PROVE y \in ToSet(all)
  <2>1. PICK i \in 1 .. Len(ss) : ss[i] = x
    BY <1>2 DEF ToSet
  <2>2. DOMAIN x = 1 .. Len(x)
    BY ListedAre
  <2>3. Within(y, ss[i])
    BY <2>1, <2>2 DEF Within, ToSet
  <2>4. Within(y, FlattenSeq(ss))
    BY <1>3, <2>3, FlattenKeeps
  <2>5. Within(y, all)
    BY <1>4, <2>4
  <2>6. DOMAIN all = 1 .. Len(all)
    BY <1>5
  <2> QED BY <2>5, <2>6 DEF Within, ToSet
<1>8. Listed(all)
  BY <1>5 DEF Listed
<1> QED BY <1>4, <1>6, <1>7, <1>8

Restr(profile, W) == UNION {ToSet(TurnRestrictions(profile, e)) : e \in W}
LEMMA AllAsked ==
  ASSUME NEW profile, NEW rs, Listed(rs), \A e \in ToSet(rs) : Asks(TurnRestrictions(profile, e)), NEW all,
         all = FlattenSeq([i \in DOMAIN rs |-> TurnRestrictions(profile, rs[i])])
  PROVE  {all[i] : i \in DOMAIN all} = Restr(profile, ToSet(rs))
<1>1. PICK ss : ss = [i \in DOMAIN rs |-> TurnRestrictions(profile, rs[i])]
  OBVIOUS
<1>2. DOMAIN rs = 1 .. Len(rs) /\ Len(rs) \in Nat
  BY ListedAre
<1>3. DOMAIN ss = 1 .. Len(rs) /\ ss = [i \in 1 .. Len(rs) |-> ss[i]]
  BY <1>1, <1>2
<1>4. Listed(ss)
  BY <1>2, <1>3, FunctionListed
<1>5. \A x : x \in ToSet(ss) <=> \E e \in ToSet(rs) : x = TurnRestrictions(profile, e)
  <2>1. \A i \in DOMAIN ss : ss[i] = TurnRestrictions(profile, rs[i])
    BY <1>1
  <2>2. DOMAIN ss = DOMAIN rs
    BY <1>1
  <2> QED BY <2>1, <2>2 DEF ToSet
<1>6. \A x \in ToSet(ss) : Listed(x)
  BY <1>5 DEF Asks
<1>7. ToSet(all) = UNION {ToSet(x) : x \in ToSet(ss)}
  BY <1>1, <1>4, <1>6, FlattenMembers
<1>8. \A y : y \in UNION {ToSet(x) : x \in ToSet(ss)} <=> y \in Restr(profile, ToSet(rs))
  BY <1>5 DEF Restr
<1>9. {all[i] : i \in DOMAIN all} = ToSet(all)
  BY DEF ToSet
<1> QED BY <1>7, <1>8, <1>9

LEMMA RestrMore == \A profile, W, e : Restr(profile, W \cup {e}) = Restr(profile, W) \cup ToSet(TurnRestrictions(profile, e))
BY DEF Restr

LEMMA RestrAsk ==
  ASSUME NEW profile, NEW W, \A e \in W : Asks(TurnRestrictions(profile, e))
  PROVE  \A r \in Restr(profile, W) : IsAsk(r)
BY DEF Restr, Asks

(***************************************************************************)
(* Loading: the restrictions are those of the relations met so far.        *)
(***************************************************************************)
Loaded(j, dl, b) ==
  Listed(b.arcs) /\ Listed(b.restrictions) /\ ToSet(b.restrictions) = Restr(j.profile, Met(dl, "relation"))
LoadInv == phase \in {"loading", "finished"} /\ Sound => Loaded(job, delivered, builder)

LEMMA LoadingStarts == StartsLoading => Loaded(job', delivered', builder')
<1> SUFFICES ASSUME StartsLoading PROVE Loaded(job', delivered', builder')
  OBVIOUS
<1>1. builder' = EmptyBuilder(mapping) /\ delivered' = <<>>
  BY DEF StartsLoading, Call
<1>2. PICK b, dl : b = builder' /\ dl = delivered'
  OBVIOUS
<1>3. b.arcs = <<>> /\ b.restrictions = <<>>
  BY <1>1, <1>2 DEF EmptyBuilder
<1>4. Met(dl, "relation") = {}
  BY <1>1, <1>2, MetNone
<1>5. Restr(job'.profile, {}) = {}
  BY DEF Restr
<1>6. Listed(<<>>) /\ ToSet(<<>>) = {}
  BY OneListed
<1> QED BY <1>2, <1>3, <1>4, <1>5, <1>6 DEF Loaded

LEMMA LoadingLoads ==
  ASSUME Inv, MapInv, SpeedInv, LoadInv, Sound, LoadsEntity
  PROVE  Loaded(job', delivered', builder')
<1>1. phase = "loading" /\ CallsBack /\ job' = job
  BY DEF LoadsEntity
<1>2. PICK e : e = pending[1]
  OBVIOUS
<1>3. HandedTo(e)
  BY <1>1, <1>2, HandedOver
<1>4. Mapped(file, wanted, job, mapping) /\ Loaded(job, delivered, builder) /\ IsBuilder(builder) /\ file \in Files
  BY <1>1 DEF MapInv, LoadInv, SpeedInv, Inv
<1>5. PICK b, c, dl, more, p, g : /\ b = builder /\ c = builder' /\ dl = delivered /\ more = delivered' /\ p = job.profile
                                  /\ g = Geometry
  OBVIOUS
<1>6. \/ e.kind = "node" /\ c = LoadNode(b, mapping, e)
      \/ e.kind = "way" /\ c = LoadWay(b, mapping, p, g, e)
      \/ e.kind = "relation" /\ c = LoadRelation(b, p, e)
  BY <1>2, <1>5 DEF LoadsEntity, OnNode, OnWay, OnRelation
<1>a. IsBuilder(b)
  BY <1>4, <1>5
<1>7. Listed(b.arcs) /\ Listed(b.restrictions) /\ ToSet(b.restrictions) = Restr(p, Met(dl, "relation"))
  BY <1>4, <1>5 DEF Loaded
<1>8. Met(more, "relation") = IF e.kind = "relation" THEN Met(dl, "relation") \cup {e} ELSE Met(dl, "relation")
  BY <1>3, <1>5 DEF HandedTo, MetMeets
<1>9. e \in Calls(file) /\ e.kind \in Kinds /\ dl \in Seq(Calls(file)) /\ Follows(file, dl, e)
  BY <1>3, <1>5 DEF HandedTo
<1>10. Listed(c.arcs) /\ Listed(c.restrictions) /\ ToSet(c.restrictions) = Restr(p, Met(more, "relation"))
  <2>1. CASE e.kind = "node" /\ c = LoadNode(b, mapping, e)
    <3>1. c.arcs = b.arcs /\ c.restrictions = b.restrictions
      BY <1>a, <2>1, NodeLoaded
    <3> QED BY <1>7, <1>8, <2>1, <3>1
  <2>2. CASE e.kind = "way" /\ c = LoadWay(b, mapping, p, g, e)
    <3>1. c.restrictions = b.restrictions
      BY <1>4, <1>5, <2>2, WayLoaded
    <3>2. e \in ToSet(Entities(file, "way"))
      BY <1>4, <1>9, <2>2, FollowsGives
    <3>3. e.id \in mapping.ways => LongWay(e) /\ e.nodes[1] \in mapping.routing
      BY <1>4, <1>9, <2>2, <3>2, InUse
    <3>4. Listed(LoadWay(b, mapping, p, g, e).arcs)
      <4>1. IsBuilder(b) /\ Listed(b.arcs)
        BY <1>4, <1>5, <1>7
      <4> QED BY <3>3, <4>1, WayAdds
    <3> QED BY <1>7, <1>8, <2>2, <3>1, <3>4
  <2>3. CASE e.kind = "relation" /\ c = LoadRelation(b, p, e)
    <3>1. c.arcs = b.arcs /\ c.restrictions = Linked(b.restrictions, TurnRestrictions(p, e))
      <4>1. LoadRelation(b, p, e).arcs = b.arcs /\ LoadRelation(b, p, e).restrictions = b.restrictions \o TurnRestrictions(p, e)
        BY <1>a, RelationLoaded
      <4> QED BY <2>3, <4>1 DEF Linked
    <3>2. Listed(TurnRestrictions(p, e))
      <4>1. Listed(e.members)
        BY <1>4, <1>9, <2>3, CalledRelation
      <4> QED BY <4>1, RelationAsks DEF Asks
    <3>3. PICK x, y : x = b.restrictions /\ y = TurnRestrictions(p, e)
      OBVIOUS
    <3>4. Listed(Linked(x, y)) /\ ToSet(Linked(x, y)) = ToSet(x) \cup ToSet(y)
      BY <1>7, <3>2, <3>3, ListedMembers
    <3>5. Restr(p, Met(more, "relation")) = Restr(p, Met(dl, "relation")) \cup ToSet(y)
      BY <1>8, <2>3, <3>3, RestrMore
    <3> QED BY <1>7, <3>1, <3>3, <3>4, <3>5
  <2> QED BY <1>6, <2>1, <2>2, <2>3
<1> QED BY <1>1, <1>5, <1>10 DEF Loaded

LEMMA LoadStep == Inv /\ MapInv /\ SpeedInv /\ LoadInv /\ [Next]_vars => LoadInv'
<1> SUFFICES ASSUME Inv, MapInv, SpeedInv, LoadInv, [Next]_vars PROVE LoadInv'
  OBVIOUS
<1>0. Sound' => Sound
  BY SoundBefore
<1>1. CASE Reads \/ UNCHANGED vars
  <2>1. UNCHANGED <<job, phase, delivered, builder>>
    BY <1>1 DEF Reads, importVars, vars, pbfVars, sourceVars, scanVars,
                Decompress, Inflates, ReadsHeader, SkipsBlock, EndsFile, SeesStatus, Decode, Throws, EndsScan
  <2> QED BY <1>0, <2>1 DEF LoadInv, Loaded
<1>2. CASE MapsWay \/ Fails
  BY <1>2 DEF LoadInv, MapsWay, Fails
<1>3. CASE LoadsEntity
  <2>1. CASE Sound
    BY <2>1, <1>3, LoadingLoads DEF LoadInv
  <2> QED BY <1>0, <2>1 DEF LoadInv
<1>4. CASE StartsLoading
  BY <1>4, LoadingStarts DEF LoadInv
<1>5. CASE BuildsGraph
  <2>1. UNCHANGED <<job, delivered, builder>> /\ phase = "loading"
    BY <1>5 DEF BuildsGraph, pbfVars, scanVars
  <2> QED BY <1>0, <2>1 DEF LoadInv, Loaded
<1> QED BY <1>1, <1>2, <1>3, <1>4, <1>5 DEF Next, Import

-----------------------------------------------------------------------------
(***************************************************************************)
(* The turns, worked out from any arcs and any restrictions.               *)
(***************************************************************************)
LEMMA MembersFinite == ASSUME NEW s, Listed(s) PROVE IsFiniteSet(ToSet(s)) /\ IsFiniteSet(DOMAIN s)
<1>1. DOMAIN s = 1 .. Len(s) /\ Len(s) \in Nat /\ s \in Seq(ToSet(s))
  BY ListedAre
<1> PICK n, T : n = Len(s) /\ T = ToSet(s)
  OBVIOUS
<1>2. IsFiniteSet(1 .. n)
  BY <1>1, FS_Interval
<1>3. s \in [1 .. n -> T]
  BY <1>1
<1>4. \A t \in T : \E i \in 1 .. n : s[i] = t
  BY <1>1 DEF ToSet
<1>5. s \in Surjection(1 .. n, T)
  BY <1>3, <1>4 DEF Surjection
<1>6. IsFiniteSet(T)
  BY <1>2, <1>5, FS_Surjection
<1> QED BY <1>1, <1>2, <1>6

LEMMA OnlyOne ==
  ASSUME NEW S, NEW T, IsFiniteSet(T), S \subseteq T, Cardinality(S) = 1
  PROVE  \E x : S = {x}
<1>1. IsFiniteSet(S)
  <2>1. S \in SUBSET T
    OBVIOUS
  <2> QED BY <2>1, FS_Subset
<1> QED BY <1>1, FS_Singleton

LEMMA MaxIn == ASSUME NEW n \in Nat, NEW S \in SUBSET (1 .. n), S # {} PROVE Max(S) \in S
<1> PICK T : T = {n - x : x \in S}
  OBVIOUS
<1>1. T \in SUBSET Nat /\ T # {}
  <2>1. \A x \in S : n - x \in Nat
    OBVIOUS
  <2>2. T \subseteq Nat
    BY <2>1
  <2>3. PICK x \in S : TRUE
    OBVIOUS
  <2>4. n - x \in T
    OBVIOUS
  <2> QED BY <2>2, <2>4
<1>2. PICK t \in T : \A y \in T : t <= y
  BY <1>1, NatHasLeast
<1>3. PICK x \in S : t = n - x
  OBVIOUS
<1>4. \A y \in S : x >= y
  <2> TAKE y \in S
  <2>1. n - y \in T
    OBVIOUS
  <2>2. t <= n - y /\ x \in 1 .. n /\ y \in 1 .. n
    BY <1>2, <2>1
  <2> QED BY <1>3, <2>2
<1> QED BY <1>4 DEF Max

HasArcs(arcs) == Len(arcs) \in Nat /\ DOMAIN arcs = 1 .. Len(arcs)
Meets(arcs, x, y) == x \in DOMAIN arcs /\ y \in DOMAIN arcs /\ arcs[x].head = arcs[y].tail

LEMMA LeavingIs ==
  ASSUME NEW arcs, HasArcs(arcs), NEW r, NEW turn \in LeavingOnly(arcs, r)
  PROVE  \E x, y : turn = <<x, y>> /\ Meets(arcs, x, y) /\ arcs[x].way = r.from
<1>1. PICK out \in ArcsOfWay(arcs, r.from) :
         turn \in (LET n == arcs[out].tail
                       into == {a \in ArcsOfWay(arcs, r.from) : arcs[a].head = n}
                   IN  IF into = {} THEN {} ELSE {<<Max(into), other>> : other \in ArcsOut(arcs, n) \ {out}})
  BY DEF LeavingOnly
<1> PICK n, into : n = arcs[out].tail /\ into = {a \in ArcsOfWay(arcs, r.from) : arcs[a].head = n}
  OBVIOUS
<1>2. into # {} /\ turn \in {<<Max(into), other>> : other \in ArcsOut(arcs, n) \ {out}}
  BY <1>1
<1>3. PICK other \in ArcsOut(arcs, n) : turn = <<Max(into), other>>
  BY <1>2
<1>4. into \in SUBSET (1 .. Len(arcs)) /\ Len(arcs) \in Nat
  BY DEF ArcsOfWay, HasArcs
<1>5. Max(into) \in into
  BY <1>2, <1>4, MaxIn
<1>6. Max(into) \in DOMAIN arcs /\ arcs[Max(into)].head = n /\ arcs[Max(into)].way = r.from
  BY <1>5 DEF ArcsOfWay
<1>7. other \in DOMAIN arcs /\ arcs[other].tail = n
  BY DEF ArcsOut
<1> QED BY <1>3, <1>6, <1>7 DEF Meets

LEMMA ViaIs ==
  ASSUME NEW arcs, HasArcs(arcs), NEW r, IsAsk(r), NEW v \in WithVia(arcs, r)
  PROVE  /\ v.from = r.from /\ v.to = r.to /\ v.category = r.category /\ r.via \in {NoNode, v.via}
         /\ \A u \in WithVia(arcs, r) : u = v
<1>1. CASE r.via # NoNode
  <2>1. WithVia(arcs, r) = {r}
    BY <1>1 DEF WithVia
  <2> QED BY <2>1
<1>2. CASE r.via = NoNode
  <2>1. /\ Cardinality(MeetingArcs(arcs, r)) = 1
        /\ WithVia(arcs, r) = {[r EXCEPT !.via = arcs[a].tail] : a \in MeetingArcs(arcs, r)}
    BY <1>2 DEF WithVia
  <2>2. PICK a : MeetingArcs(arcs, r) = {a}
    <3>1. IsFiniteSet(1 .. Len(arcs))
      BY FS_Interval DEF HasArcs
    <3>2. MeetingArcs(arcs, r) \subseteq 1 .. Len(arcs)
      BY DEF MeetingArcs, ArcsOfWay, HasArcs
    <3> QED BY <2>1, <3>1, <3>2, OnlyOne
  <2>3. WithVia(arcs, r) = {[r EXCEPT !.via = arcs[a].tail]}
    BY <2>1, <2>2
  <2>4. PICK t : t = arcs[a].tail
    OBVIOUS
  <2>5. v = [r EXCEPT !.via = t]
    BY <2>3, <2>4
  <2>6. PICK c, d, f, g, h : r = [category |-> c, direction |-> d, from |-> f, to |-> g, via |-> h]
    BY DEF IsAsk
  <2>7. v.from = r.from /\ v.to = r.to /\ v.category = r.category
    BY <2>5, <2>6
  <2> QED BY <1>2, <2>3, <2>7
<1> QED BY <1>1, <1>2

LEMMA CandidateIs ==
  ASSUME NEW b, NEW arcs, HasArcs(arcs), NEW v, NEW c \in Candidates(b, arcs, v)
  PROVE  /\ Meets(arcs, c[1], c[2]) /\ arcs[c[1]].way = v.from /\ arcs[c[2]].way = v.to /\ arcs[c[1]].head = v.via
         /\ \A d \in Candidates(b, arcs, v) : d = c
<1> DEFINE F == {a \in ArcsOfWay(arcs, v.from) : arcs[a].head = v.via}
           T == {a \in ArcsOfWay(arcs, v.to) : arcs[a].tail = v.via}
           all == {<<f, t>> : f \in F, t \in T}
           fitting == {d \in all : TurnsInto(b, v, arcs[d[1]], arcs[d[2]])}
<1>1. Candidates(b, arcs, v) = IF Cardinality(all) = 1 THEN all ELSE IF Cardinality(fitting) = 1 THEN fitting ELSE {}
  BY DEF Candidates
<1>2. F \subseteq 1 .. Len(arcs) /\ T \subseteq 1 .. Len(arcs)
  BY DEF ArcsOfWay, HasArcs
<1>3. \A d \in all : d[1] \in F /\ d[2] \in T /\ d = <<d[1], d[2]>>
  OBVIOUS
<1>4. \A a \in F : a \in DOMAIN arcs /\ arcs[a].way = v.from /\ arcs[a].head = v.via
  BY DEF ArcsOfWay
<1>5. \A a \in T : a \in DOMAIN arcs /\ arcs[a].way = v.to /\ arcs[a].tail = v.via
  BY DEF ArcsOfWay
<1>6. all \subseteq (1 .. Len(arcs)) \X (1 .. Len(arcs)) /\ fitting \subseteq (1 .. Len(arcs)) \X (1 .. Len(arcs))
  BY <1>2
<1>7. IsFiniteSet((1 .. Len(arcs)) \X (1 .. Len(arcs)))
  <2>1. IsFiniteSet(1 .. Len(arcs))
    BY FS_Interval DEF HasArcs
  <2> QED BY <2>1, FS_Product
<1>8. fitting \subseteq all
  OBVIOUS
<1> HIDE DEF all, fitting, F, T
<1>9. Candidates(b, arcs, v) \subseteq all /\ \E x : Candidates(b, arcs, v) = {x}
  <2>1. CASE Cardinality(all) = 1
    BY <1>1, <1>6, <1>7, <2>1, OnlyOne
  <2>2. CASE Cardinality(all) # 1 /\ Cardinality(fitting) = 1
    BY <1>1, <1>6, <1>7, <1>8, <2>2, OnlyOne
  <2> QED BY <1>1, <2>1, <2>2
<1>10. c \in all
  BY <1>9
<1> QED BY <1>3, <1>4, <1>5, <1>9, <1>10 DEF Meets

LEMMA TurnIs ==
  ASSUME NEW b, NEW arcs, NEW v, NEW turn \in TurnsOf(b, arcs, v)
  PROVE  \E c \in Candidates(b, arcs, v) :
           IF v.category = "no" THEN turn = c
           ELSE \E y \in DOMAIN arcs : turn = <<c[1], y>> /\ arcs[y].tail = v.via /\ y # c[2]
<1>1. PICK c \in Candidates(b, arcs, v) :
         turn \in IF v.category = "no" THEN {c} ELSE {<<c[1], other>> : other \in ArcsOut(arcs, v.via) \ {c[2]}}
  BY DEF TurnsOf
<1>2. CASE v.category # "no"
  <2>1. PICK y \in ArcsOut(arcs, v.via) : turn = <<c[1], y>> /\ y # c[2]
    BY <1>1, <1>2
  <2> QED BY <1>2, <2>1 DEF ArcsOut
<1>3. CASE v.category = "no"
  <2>1. turn = c
    BY <1>1, <1>3
  <2> QED BY <1>3, <2>1
<1> QED BY <1>2, <1>3

LEMMA TurnFrom ==
  ASSUME NEW b, NEW m, NEW arcs, NEW K, K = ToSet(b.restrictions), NEW turn \in ForbiddenTurns(b, m, arcs)
  PROVE  \E r \in K : \/ GoesStraight(r) /\ turn \in LeavingOnly(arcs, r)
                      \/ ~GoesStraight(r) /\ \E v \in WithVia(arcs, r) : turn \in TurnsOf(b, arcs, v)
<1> DEFINE known == {r \in {b.restrictions[i] : i \in DOMAIN b.restrictions} : Exported(m, r)}
           straight == {r \in known : GoesStraight(r)}
           A == UNION {LeavingOnly(arcs, r) : r \in straight}
           V == UNION {WithVia(arcs, r) : r \in known \ straight}
           B == UNION {TurnsOf(b, arcs, v) : v \in V}
<1>1. ForbiddenTurns(b, m, arcs) = A \cup B
  BY DEF ForbiddenTurns
<1>2. known \subseteq K
  BY DEF ToSet
<1>3. \A r \in known : r \in straight <=> GoesStraight(r)
  OBVIOUS
<1>4. straight \subseteq known
  OBVIOUS
<1>5. turn \in A => \E r \in straight : turn \in LeavingOnly(arcs, r)
  OBVIOUS
<1>6. turn \in B => \E v \in V : turn \in TurnsOf(b, arcs, v)
  OBVIOUS
<1>7. \A v \in V : \E r \in known \ straight : v \in WithVia(arcs, r)
  OBVIOUS
<1> HIDE DEF known, straight, A, V, B
<1>8. CASE turn \in A
  BY <1>2, <1>3, <1>4, <1>5, <1>8
<1>9. CASE turn \in B
  <2>1. PICK v \in V : turn \in TurnsOf(b, arcs, v)
    BY <1>6, <1>9
  <2>2. PICK r \in known \ straight : v \in WithVia(arcs, r)
    BY <1>7
  <2> QED BY <1>2, <1>3, <2>1, <2>2
<1> QED BY <1>1, <1>8, <1>9

Asking(K, a) == {r \in K : r.from = a.way /\ r.via \in {NoNode, a.head}}

LEMMA TurnPasses ==
  ASSUME NEW b, NEW m, NEW arcs, HasArcs(arcs), NEW K, K = ToSet(b.restrictions), \A r \in K : IsAsk(r),
         NEW turn \in ForbiddenTurns(b, m, arcs)
  PROVE  /\ Meets(arcs, turn[1], turn[2])
         /\ \E r \in Asking(K, arcs[turn[1]]) : r.category = "only" \/ r.to = arcs[turn[2]].way
<1>1. PICK r \in K : \/ GoesStraight(r) /\ turn \in LeavingOnly(arcs, r)
                     \/ ~GoesStraight(r) /\ \E v \in WithVia(arcs, r) : turn \in TurnsOf(b, arcs, v)
  BY TurnFrom
<1>2. CASE GoesStraight(r) /\ turn \in LeavingOnly(arcs, r)
  <2>1. PICK x, y : turn = <<x, y>> /\ Meets(arcs, x, y) /\ arcs[x].way = r.from
    BY <1>2, LeavingIs
  <2>2. r.via = NoNode /\ r.category = "only"
    BY <1>2 DEF GoesStraight
  <2>3. turn[1] = x /\ turn[2] = y
    BY <2>1
  <2> QED BY <2>1, <2>2, <2>3 DEF Asking
<1>3. ASSUME NEW v \in WithVia(arcs, r), turn \in TurnsOf(b, arcs, v)
      PROVE  /\ Meets(arcs, turn[1], turn[2])
             /\ \E q \in Asking(K, arcs[turn[1]]) : q.category = "only" \/ q.to = arcs[turn[2]].way
  <2>1. v.from = r.from /\ v.to = r.to /\ v.category = r.category /\ r.via \in {NoNode, v.via}
    BY <1>3, ViaIs
  <2>2. PICK c \in Candidates(b, arcs, v) :
           IF v.category = "no" THEN turn = c
           ELSE \E y \in DOMAIN arcs : turn = <<c[1], y>> /\ arcs[y].tail = v.via /\ y # c[2]
    BY <1>3, TurnIs
  <2>3. Meets(arcs, c[1], c[2]) /\ arcs[c[1]].way = v.from /\ arcs[c[2]].way = v.to /\ arcs[c[1]].head = v.via
    BY CandidateIs
  <2>4. r.category \in {"no", "only"}
    BY DEF IsAsk
  <2>5. r \in Asking(K, arcs[c[1]])
    BY <2>1, <2>3 DEF Asking
  <2>6. CASE v.category = "no"
    BY <2>1, <2>2, <2>3, <2>5, <2>6
  <2>7. CASE v.category # "no"
    <3>1. PICK y \in DOMAIN arcs : turn = <<c[1], y>> /\ arcs[y].tail = v.via /\ y # c[2]
      BY <2>2, <2>7
    <3>2. turn[1] = c[1] /\ turn[2] = y
      BY <3>1
    <3>3. Meets(arcs, c[1], y)
      BY <2>3, <3>1 DEF Meets
    <3> QED BY <2>1, <2>4, <2>5, <2>7, <3>2, <3>3
  <2> QED BY <2>6, <2>7
<1> QED BY <1>1, <1>2, <1>3

\* Where nothing but obligations between two ways is asked for.
Obliges(K) == \A r \in K : IsAsk(r) /\ r.category = "only" /\ r.from # r.to
LEMMA ObligedTurn ==
  ASSUME NEW b, NEW m, NEW arcs, HasArcs(arcs), NEW K, K = ToSet(b.restrictions), Obliges(K),
         NEW turn \in ForbiddenTurns(b, m, arcs)
  PROVE  \E r \in Asking(K, arcs[turn[1]]) : \E v \in WithVia(arcs, r) : \E c \in Candidates(b, arcs, v) :
           turn[1] = c[1] /\ turn[2] # c[2] /\ v.to = r.to
<1>1. PICK r \in K : \/ GoesStraight(r) /\ turn \in LeavingOnly(arcs, r)
                     \/ ~GoesStraight(r) /\ \E v \in WithVia(arcs, r) : turn \in TurnsOf(b, arcs, v)
  BY TurnFrom
<1>2. IsAsk(r) /\ r.category = "only" /\ r.from # r.to
  BY DEF Obliges
<1>3. PICK v \in WithVia(arcs, r) : turn \in TurnsOf(b, arcs, v)
  BY <1>1, <1>2 DEF GoesStraight
<1>4. v.from = r.from /\ v.to = r.to /\ v.category = r.category /\ r.via \in {NoNode, v.via}
  BY <1>2, ViaIs
<1>5. PICK c \in Candidates(b, arcs, v) :
         IF v.category = "no" THEN turn = c
         ELSE \E y \in DOMAIN arcs : turn = <<c[1], y>> /\ arcs[y].tail = v.via /\ y # c[2]
  BY <1>3, TurnIs
<1>6. PICK y \in DOMAIN arcs : turn = <<c[1], y>> /\ arcs[y].tail = v.via /\ y # c[2]
  BY <1>2, <1>4, <1>5
<1>7. Meets(arcs, c[1], c[2]) /\ arcs[c[1]].way = v.from /\ arcs[c[2]].way = v.to /\ arcs[c[1]].head = v.via
  BY CandidateIs
<1>8. turn[1] = c[1] /\ turn[2] = y
  BY <1>6
<1>9. r \in Asking(K, arcs[turn[1]])
  BY <1>4, <1>7, <1>8 DEF Asking
<1> QED BY <1>4, <1>6, <1>8, <1>9

LEMMA WayToGo ==
  ASSUME NEW b, NEW m, NEW arcs, HasArcs(arcs), NEW K, K = ToSet(b.restrictions), Obliges(K),
         NEW turn \in ForbiddenTurns(b, m, arcs), NEW r, Asking(K, arcs[turn[1]]) = {r}
  PROVE  \E a \in DOMAIN arcs : /\ arcs[a].tail = arcs[turn[1]].head /\ arcs[a].way = r.to
                                /\ <<turn[1], a>> \notin ForbiddenTurns(b, m, arcs)
<1>1. PICK s \in Asking(K, arcs[turn[1]]) : \E v \in WithVia(arcs, s) : \E c \in Candidates(b, arcs, v) :
         turn[1] = c[1] /\ turn[2] # c[2] /\ v.to = s.to
  BY ObligedTurn
<1>2. s = r /\ r \in K /\ IsAsk(r)
  BY <1>1 DEF Asking, Obliges
<1>3. PICK v \in WithVia(arcs, r) : \E c \in Candidates(b, arcs, v) : turn[1] = c[1] /\ v.to = r.to
  BY <1>1, <1>2
<1>4. PICK c \in Candidates(b, arcs, v) : turn[1] = c[1] /\ v.to = r.to
  BY <1>3
<1>5. Meets(arcs, c[1], c[2]) /\ arcs[c[2]].way = r.to /\ \A d \in Candidates(b, arcs, v) : d = c
  BY <1>4, CandidateIs
<1>6. \A u \in WithVia(arcs, r) : u = v
  BY <1>2, ViaIs
<1>7. ASSUME <<turn[1], c[2]>> \in ForbiddenTurns(b, m, arcs) PROVE FALSE
  <2> PICK t : t = <<turn[1], c[2]>>
    OBVIOUS
  <2>1. t[1] = turn[1] /\ t[2] = c[2] /\ t \in ForbiddenTurns(b, m, arcs)
    BY <1>7
  <2>2. PICK q \in Asking(K, arcs[t[1]]) : \E u \in WithVia(arcs, q) : \E d \in Candidates(b, arcs, u) :
           t[1] = d[1] /\ t[2] # d[2] /\ u.to = q.to
    BY <2>1, ObligedTurn
  <2>3. q = r
    BY <2>1
  <2>4. PICK u \in WithVia(arcs, r) : \E d \in Candidates(b, arcs, u) : t[2] # d[2]
    BY <2>2, <2>3
  <2>5. PICK d \in Candidates(b, arcs, v) : t[2] # d[2]
    BY <1>6, <2>4
  <2> QED BY <1>5, <2>1, <2>5
<1> QED BY <1>4, <1>5, <1>7 DEF Meets

-----------------------------------------------------------------------------
(***************************************************************************)
(* The graph is built when everything is loaded.                           *)
(***************************************************************************)
GraphInv == phase = "finished" => graph = RoutingGraph(builder, mapping, job.profile)
BuildInv == Inv /\ MapInv /\ SpeedInv /\ LoadInv /\ GraphInv

LEMMA GraphStep == MapInv /\ GraphInv /\ [Next]_vars => GraphInv'
<1> SUFFICES ASSUME MapInv, GraphInv, [Next]_vars PROVE GraphInv'
  OBVIOUS
<1>1. CASE Reads \/ UNCHANGED vars
  BY <1>1 DEF Reads, vars, importVars, GraphInv
<1>2. CASE MapsWay \/ LoadsEntity \/ StartsLoading \/ Fails
  BY <1>2 DEF MapsWay, LoadsEntity, StartsLoading, Fails, GraphInv
<1>3. CASE BuildsGraph
  <2>1. UNCHANGED <<job, mapping, builder>> /\ graph' = RoutingGraph(builder, mapping, job.profile)
    BY <1>3 DEF BuildsGraph
  <2> QED BY <2>1 DEF GraphInv
<1> QED BY <1>1, <1>2, <1>3 DEF Next, Import

LEMMA BuildInit == Init => BuildInv
<1> SUFFICES ASSUME Init PROVE BuildInv
  OBVIOUS
<1>1. phase = "mapping"
  BY DEF Init
<1> QED BY <1>1, InitHolds, MapInit, SpeedInit DEF BuildInv, LoadInv, GraphInv

LEMMA BuildStep == BuildInv /\ [Next]_vars => BuildInv'
BY NextHolds, MapStep, SpeedStep, LoadStep, GraphStep DEF BuildInv

LEMMA WhenFinished ==
  ASSUME BuildInv, phase = "finished"
  PROVE  /\ outcome = "done" /\ Sound /\ wanted = WantedBy(job) /\ Mapped(file, wanted, job, mapping)
         /\ Loaded(job, delivered, builder) /\ delivered \in Seq(Calls(file)) /\ file \in Files
         /\ graph.arcs = SortArcs(builder.arcs) /\ graph.forbidden = ForbiddenTurns(builder, mapping, graph.arcs)
<1>1. outcome = "done" /\ file \in Files /\ delivered \in Seq(Calls(file)) /\ pending = <<>>
  BY DEF BuildInv, MapInv, Inv, PbfInv, PbfTypeOK, InOrder
<1>2. Sound
  BY <1>1, NothingThrows DEF Sound
<1>3. Mapped(file, wanted, job, mapping) /\ Loaded(job, delivered, builder)
  BY <1>2 DEF BuildInv, MapInv, LoadInv
<1>4. wanted = WantedBy(job)
  BY <1>3 DEF Mapped
<1>5. graph = RoutingGraph(builder, mapping, job.profile)
  BY DEF BuildInv, GraphInv
<1>6. graph.arcs = SortArcs(builder.arcs) /\ graph.forbidden = ForbiddenTurns(builder, mapping, graph.arcs)
  BY <1>5 DEF RoutingGraph
<1> QED BY <1>1, <1>2, <1>3, <1>4, <1>6

LEMMA AskedIs ==
  ASSUME BuildInv, phase = "finished", job.turns
  PROVE  Asked = ToSet(builder.restrictions) /\ \A r \in Asked : IsAsk(r)
<1>1. /\ outcome = "done" /\ wanted = WantedBy(job) /\ Loaded(job, delivered, builder)
      /\ delivered \in Seq(Calls(file)) /\ file \in Files /\ Inv
  BY WhenFinished DEF BuildInv
<1>2. "relation" \in wanted
  BY <1>1 DEF WantedBy, Kinds
<1>3. OfKind(delivered, "relation") = ContentOf("relation")
  BY <1>1, <1>2, AllMet
<1> PICK rs, W, p : rs = ContentOf("relation") /\ W = ToSet(rs) /\ p = job.profile
  OBVIOUS
<1>4. W = Met(delivered, "relation")
  BY <1>3 DEF Met
<1>5. Listed(rs)
  <2>1. OfKind(delivered, "relation") \in Seq(Calls(file))
    BY <1>1, OfKindTypes
  <2> QED BY <1>3, <2>1 DEF Listed
<1>6. \A e \in W : Asks(TurnRestrictions(p, e))
  <2> TAKE e \in W
  <2>1. e \in Calls(file) /\ e.kind = "relation"
    BY <1>1, <1>4, MetTypes
  <2>2. Listed(e.members)
    BY <1>1, <2>1, CalledRelation
  <2> QED BY <2>2, RelationAsks
<1>7. Asked = Restr(p, W)
  <2> PICK all : all = FlattenSeq([i \in DOMAIN rs |-> TurnRestrictions(p, rs[i])])
    OBVIOUS
  <2>1. Asked = {all[i] : i \in DOMAIN all}
    BY DEF Asked
  <2>2. \A e \in ToSet(rs) : Asks(TurnRestrictions(p, e))
    BY <1>6
  <2>3. {all[i] : i \in DOMAIN all} = Restr(p, ToSet(rs))
    BY <1>5, <2>2, AllAsked
  <2> QED BY <2>1, <2>3
<1>8. ToSet(builder.restrictions) = Restr(p, W)
  BY <1>1, <1>4 DEF Loaded
<1>9. \A r \in Restr(p, W) : IsAsk(r)
  BY <1>6, RestrAsk
<1> QED BY <1>7, <1>8, <1>9

LEMMA SortedHas == ASSUME NEW s, Listed(s) PROVE HasArcs(SortArcs(s))
<1>1. DOMAIN s = 1 .. Len(s) /\ Len(s) \in Nat
  BY ListedAre
<1> PICK t : t = SortArcs(s)
  OBVIOUS
<1>2. DOMAIN t = DOMAIN s /\ t = [k \in DOMAIN t |-> t[k]]
  BY DEF SortArcs, StableSort
<1>3. Len(t) = Len(s)
  <2>1. DOMAIN t = 1 .. Len(s) /\ t = [k \in 1 .. Len(s) |-> t[k]]
    BY <1>1, <1>2
  <2> QED BY <1>1, <2>1, FunctionListed
<1> QED BY <1>1, <1>2, <1>3 DEF HasArcs

LEMMA BuildGivesTurns == BuildInv => TurnsFollowTheRelations
<1> SUFFICES ASSUME BuildInv, phase = "finished", job.turns, NEW turn \in graph.forbidden
             PROVE  LET from == graph.arcs[turn[1]]
                        to == graph.arcs[turn[2]]
                        asking == {r \in Asked : r.from = from.way /\ r.via \in {NoNode, from.head}}
                    IN  /\ from.head = to.tail
                        /\ \E r \in asking : r.category = "only" \/ r.to = to.way
                        /\ (\A r \in Asked : r.category = "only" /\ r.from # r.to) /\ Cardinality(asking) = 1 =>
                             \E a \in DOMAIN graph.arcs : /\ graph.arcs[a].tail = from.head
                                                          /\ graph.arcs[a].way = (CHOOSE r \in asking : TRUE).to
                                                          /\ <<turn[1], a>> \notin graph.forbidden
  BY DEF TurnsFollowTheRelations, Finished
<1> PICK arcs, F, K, from, to, asking :
      /\ arcs = graph.arcs /\ F = graph.forbidden /\ K = Asked /\ from = arcs[turn[1]] /\ to = arcs[turn[2]]
      /\ asking = {r \in K : r.from = from.way /\ r.via \in {NoNode, from.head}}
  OBVIOUS
<1>1. K = ToSet(builder.restrictions) /\ \A r \in K : IsAsk(r)
  BY AskedIs
<1>2. Loaded(job, delivered, builder) /\ arcs = SortArcs(builder.arcs) /\ F = ForbiddenTurns(builder, mapping, arcs)
  BY WhenFinished
<1>3. HasArcs(arcs) /\ IsFiniteSet(K)
  BY <1>1, <1>2, SortedHas, MembersFinite DEF Loaded
<1>4. turn \in ForbiddenTurns(builder, mapping, arcs)
  BY <1>2
<1>5. asking = Asking(K, from)
  BY DEF Asking
<1>6. from.head = to.tail /\ \E r \in asking : r.category = "only" \/ r.to = to.way
  <2>1. Meets(arcs, turn[1], turn[2]) /\ \E r \in Asking(K, arcs[turn[1]]) : r.category = "only" \/ r.to = arcs[turn[2]].way
    BY <1>1, <1>3, <1>4, TurnPasses
  <2> QED BY <1>5, <2>1 DEF Meets
<1>7. ASSUME \A r \in K : r.category = "only" /\ r.from # r.to, Cardinality(asking) = 1
      PROVE  \E a \in DOMAIN arcs : arcs[a].tail = from.head /\ arcs[a].way = (CHOOSE r \in asking : TRUE).to /\ <<turn[1], a>> \notin F
  <2>1. asking \subseteq K
    OBVIOUS
  <2>2. PICK r : asking = {r}
    BY <1>3, <1>7, <2>1, OnlyOne
  <2>3. (CHOOSE q \in asking : TRUE) = r
    BY <2>2
  <2>4. Obliges(K)
    BY <1>1, <1>7 DEF Obliges
  <2>5. Asking(K, arcs[turn[1]]) = {r}
    BY <1>5, <2>2
  <2>6. \E a \in DOMAIN arcs : /\ arcs[a].tail = arcs[turn[1]].head /\ arcs[a].way = r.to
                               /\ <<turn[1], a>> \notin ForbiddenTurns(builder, mapping, arcs)
    BY <1>1, <1>3, <1>4, <2>4, <2>5, WayToGo
  <2> QED BY <1>2, <2>3, <2>6
<1> QED BY <1>6, <1>7

(***************************************************************************)
(* A turn is forbidden only where a restriction of the file asks for it,   *)
(* and whoever has to obey one can: for every file and profile, in         *)
(* whatever order the scans met relations and ways (load_osm_routing_graph *)
(* and its decoding of restrictions into arcs).                            *)
(***************************************************************************)
THEOREM TurnsFollow == Spec => []TurnsFollowTheRelations
<1>1. Init => BuildInv
  BY BuildInit
<1>2. BuildInv /\ [Next]_vars => BuildInv'
  BY BuildStep
<1>3. BuildInv => TurnsFollowTheRelations
  BY BuildGivesTurns
<1> QED BY <1>1, <1>2, <1>3, PTL DEF Spec


-----------------------------------------------------------------------------
\* Sorting the arcs loses none and leaves no arc before one it belongs after.
PairOf(a) == <<a.tail, a.head>>
EndsKnown(s) == Listed(s) /\ \A i \in 1 .. Len(s) : s[i].tail \in Int /\ s[i].head \in Int
Sooner(s, j, i) == BeforePair(PairOf(s[j]), PairOf(s[i]))
Prec(s, j, i) == Sooner(s, j, i) \/ (j <= i /\ ~Sooner(s, i, j))
UpTo(s, i) == {j \in 1 .. Len(s) : Prec(s, j, i)}
LEMMA SoonerOrders ==
  ASSUME NEW s, EndsKnown(s), NEW i \in 1 .. Len(s), NEW j \in 1 .. Len(s), NEW k \in 1 .. Len(s)
  PROVE  /\ Prec(s, i, i)
         /\ i # j /\ Prec(s, i, j) => ~Prec(s, j, i)
         /\ ~Prec(s, i, j) => Prec(s, j, i)
         /\ Prec(s, i, j) /\ Prec(s, j, k) => Prec(s, i, k)
         /\ Prec(s, i, j) => ~Sooner(s, j, i)
<1> PICK a, b, c \in Int : a = s[i].tail /\ b = s[j].tail /\ c = s[k].tail
  BY DEF EndsKnown
<1> PICK x, y, z \in Int : x = s[i].head /\ y = s[j].head /\ z = s[k].head
  BY DEF EndsKnown
<1>0. i \in Int /\ j \in Int /\ k \in Int
  BY ListedAre DEF EndsKnown
<1>1. Sooner(s, i, j) <=> a < b \/ (a = b /\ x < y)
  BY DEF Sooner, BeforePair, PairOf
<1>2. Sooner(s, j, i) <=> b < a \/ (b = a /\ y < x)
  BY DEF Sooner, BeforePair, PairOf
<1>3. Sooner(s, j, k) <=> b < c \/ (b = c /\ y < z)
  BY DEF Sooner, BeforePair, PairOf
<1>4. Sooner(s, k, j) <=> c < b \/ (c = b /\ z < y)
  BY DEF Sooner, BeforePair, PairOf
<1>5. Sooner(s, i, k) <=> a < c \/ (a = c /\ x < z)
  BY DEF Sooner, BeforePair, PairOf
<1>6. Sooner(s, k, i) <=> c < a \/ (c = a /\ z < x)
  BY DEF Sooner, BeforePair, PairOf
<1>7. ~Sooner(s, i, i)
  BY DEF Sooner, BeforePair, PairOf
<1>8. Prec(s, i, i)
  BY <1>0, <1>7 DEF Prec
<1>9. i # j /\ Prec(s, i, j) => ~Prec(s, j, i)
  BY <1>0, <1>1, <1>2 DEF Prec
<1>10. ~Prec(s, i, j) => Prec(s, j, i)
  BY <1>0, <1>1, <1>2 DEF Prec
<1>11. Prec(s, i, j) /\ Prec(s, j, k) => Prec(s, i, k)
  BY <1>0, <1>1, <1>2, <1>3, <1>4, <1>5, <1>6 DEF Prec
<1>12. Prec(s, i, j) => ~Sooner(s, j, i)
  BY <1>1, <1>2 DEF Prec
<1> QED BY <1>8, <1>9, <1>10, <1>11, <1>12

LEMMA PlacesApart ==
  ASSUME NEW s, EndsKnown(s), NEW i \in 1 .. Len(s), NEW j \in 1 .. Len(s)
  PROVE  /\ Cardinality(UpTo(s, i)) \in 1 .. Len(s)
         /\ i # j => Cardinality(UpTo(s, i)) # Cardinality(UpTo(s, j))
         /\ Prec(s, i, j) => Cardinality(UpTo(s, i)) <= Cardinality(UpTo(s, j))
<1>0. Len(s) \in Nat
  BY ListedAre DEF EndsKnown
<1> PICK D : D = 1 .. Len(s)
  OBVIOUS
<1>1. IsFiniteSet(D) /\ Cardinality(D) = Len(s)
  <2> PICK n \in Nat : n = Len(s)
    BY <1>0
  <2>1. 1 \in Int /\ n \in Int
    OBVIOUS
  <2>2. IsFiniteSet(1 .. n) /\ Cardinality(1 .. n) = IF 1 > n THEN 0 ELSE n - 1 + 1
    BY <2>1, FS_Interval
  <2>3. (IF 1 > n THEN 0 ELSE n - 1 + 1) = n
    OBVIOUS
  <2> QED BY <2>2, <2>3
<1>2. ASSUME NEW x \in D PROVE UpTo(s, x) \in SUBSET D /\ x \in UpTo(s, x) /\ IsFiniteSet(UpTo(s, x))
                            /\ Cardinality(UpTo(s, x)) \in 1 .. Len(s)
  <2>1. UpTo(s, x) \in SUBSET D /\ x \in UpTo(s, x)
    BY SoonerOrders DEF UpTo
  <2>2. IsFiniteSet(UpTo(s, x)) /\ Cardinality(UpTo(s, x)) <= Cardinality(D)
    BY <1>1, <2>1, FS_Subset
  <2>3. Cardinality(UpTo(s, x)) \in Nat
    BY <2>2, FS_CardinalityType
  <2>4. Cardinality(UpTo(s, x)) # 0
    BY <2>1, <2>2, FS_EmptySet
  <2> QED BY <1>0, <1>1, <2>1, <2>2, <2>3, <2>4
<1>3. ASSUME NEW x \in D, NEW y \in D, Prec(s, x, y) PROVE UpTo(s, x) \subseteq UpTo(s, y)
  <2> SUFFICES ASSUME NEW z \in UpTo(s, x) PROVE z \in UpTo(s, y)
    OBVIOUS
  <2>1. z \in 1 .. Len(s) /\ Prec(s, z, x)
    BY DEF UpTo
  <2> QED BY <1>3, <2>1, SoonerOrders DEF UpTo
<1>4. ASSUME NEW x \in D, NEW y \in D, Prec(s, x, y)
      PROVE /\ Cardinality(UpTo(s, x)) <= Cardinality(UpTo(s, y))
            /\ x # y => Cardinality(UpTo(s, x)) # Cardinality(UpTo(s, y))
  <2>1. UpTo(s, x) \in SUBSET UpTo(s, y)
    BY <1>3, <1>4
  <2>2. IsFiniteSet(UpTo(s, y))
    BY <1>2
  <2>3. Cardinality(UpTo(s, x)) <= Cardinality(UpTo(s, y))
        /\ (Cardinality(UpTo(s, y)) = Cardinality(UpTo(s, x)) => UpTo(s, y) = UpTo(s, x))
    BY <2>1, <2>2, FS_Subset
  <2>4. x # y => UpTo(s, y) # UpTo(s, x)
    <3>1. y \in UpTo(s, y)
      BY <1>2
    <3>2. x # y => ~Prec(s, y, x)
      BY <1>4, SoonerOrders
    <3> QED BY <3>1, <3>2 DEF UpTo
  <2> QED BY <2>3, <2>4
<1>5. Prec(s, i, j) \/ Prec(s, j, i)
  BY SoonerOrders
<1> QED BY <1>2, <1>4, <1>5

PlacesIn(s) == [i \in 1 .. Len(s) |-> Cardinality(UpTo(s, i))]
Spot(s, k) == CHOOSE i \in 1 .. Len(s) : PlacesIn(s)[i] = k
LEMMA SortIs ==
  ASSUME NEW s, EndsKnown(s)
  PROVE  SortArcs(s) = [k \in 1 .. Len(s) |-> s[Spot(s, k)]]
<1>1. DOMAIN s = 1 .. Len(s)
  BY ListedAre DEF EndsKnown
<1> PICK key : key = [a \in ToSet(s) |-> PairOf(a)]
  OBVIOUS
<1>2. \A i \in 1 .. Len(s) : key[s[i]] = PairOf(s[i])
  BY <1>1 DEF ToSet
<1> DEFINE NotAfter(i) == {j \in DOMAIN s : BeforePair(key[s[j]], key[s[i]]) \/ (j <= i /\ ~BeforePair(key[s[i]], key[s[j]]))}
<1>3. \A i \in 1 .. Len(s) : NotAfter(i) = UpTo(s, i)
  BY <1>1, <1>2 DEF UpTo, Prec, Sooner
<1> PICK place : place = [i \in DOMAIN s |-> Cardinality(NotAfter(i))]
  OBVIOUS
<1>4. place = PlacesIn(s)
  BY <1>1, <1>3 DEF PlacesIn
<1>5. StableSort(s, key) = [k \in DOMAIN s |-> s[CHOOSE i \in DOMAIN s : place[i] = k]]
  BY DEF StableSort
<1>6. StableSort(s, key) = [k \in 1 .. Len(s) |-> s[Spot(s, k)]]
  <2>1. \A k : (CHOOSE i \in DOMAIN s : place[i] = k) = Spot(s, k)
    BY <1>1, <1>4, Zenon DEF Spot
  <2> DEFINE First(k) == CHOOSE i \in DOMAIN s : place[i] = k
  <2>2. [k \in DOMAIN s |-> s[First(k)]] = [k \in DOMAIN s |-> s[Spot(s, k)]]
    <3>1. \A k : First(k) = Spot(s, k)
      BY <2>1, Zenon
    <3> HIDE DEF First
    <3> QED BY <3>1
  <2> QED BY <1>1, <1>5, <2>2, Zenon
<1>7. SortArcs(s) = StableSort(s, key)
  BY DEF SortArcs, PairOf
<1> QED BY <1>6, <1>7

LEMMA SpotsAre ==
  ASSUME NEW s, EndsKnown(s)
  PROVE  /\ \A k \in 1 .. Len(s) : Spot(s, k) \in 1 .. Len(s) /\ PlacesIn(s)[Spot(s, k)] = k
         /\ \A i \in 1 .. Len(s) : \E k \in 1 .. Len(s) : Spot(s, k) = i
<1>0. Len(s) \in Nat
  BY ListedAre DEF EndsKnown
<1> PICK D : D = 1 .. Len(s)
  OBVIOUS
<1> PICK f : f = PlacesIn(s)
  OBVIOUS
<1>1. \A i \in D : f[i] = Cardinality(UpTo(s, i))
  BY DEF PlacesIn
<1>2. f \in [D -> D]
  BY PlacesApart DEF PlacesIn
<1>3. \A i, j \in D : f[i] = f[j] => i = j
  BY <1>1, PlacesApart
<1>4. f \in Injection(D, D)
  BY <1>2, <1>3 DEF Injection, IsInjective
<1>5. IsFiniteSet(D)
  BY <1>0, FS_Interval
<1>6. f \in Surjection(D, D)
  BY <1>4, <1>5, FS_Injection
<1>7. \A k \in D : \E i \in D : f[i] = k
  BY <1>6 DEF Surjection
<1>8. \A k \in D : Spot(s, k) \in D /\ f[Spot(s, k)] = k
  BY <1>7, Zenon DEF Spot
<1>9. ASSUME NEW i \in D PROVE Spot(s, f[i]) = i
  BY <1>2, <1>3, <1>8
<1> QED BY <1>2, <1>8, <1>9

LEMMA SortKeeps ==
  ASSUME NEW s, EndsKnown(s)
  PROVE  /\ ToSet(SortArcs(s)) = ToSet(s) /\ DOMAIN SortArcs(s) = 1 .. Len(s) /\ Len(SortArcs(s)) = Len(s)
         /\ \A k \in 1 .. Len(s) - 1 : ~BeforePair(PairOf(SortArcs(s)[k + 1]), PairOf(SortArcs(s)[k]))
<1>0. Len(s) \in Nat /\ DOMAIN s = 1 .. Len(s)
  BY ListedAre DEF EndsKnown
<1> PICK t : t = SortArcs(s)
  OBVIOUS
<1>1. t = [k \in 1 .. Len(s) |-> s[Spot(s, k)]]
  BY SortIs
<1>2. DOMAIN t = 1 .. Len(s) /\ \A k \in 1 .. Len(s) : t[k] = s[Spot(s, k)]
  BY <1>1
<1>3. Len(t) = Len(s)
  BY <1>0, <1>2
<1>4. \A k \in 1 .. Len(s) : \E i \in 1 .. Len(s) : t[k] = s[i]
  <2>1. \A k \in 1 .. Len(s) : Spot(s, k) \in 1 .. Len(s)
    BY SpotsAre, Zenon
  <2> QED BY <1>2, <2>1, Zenon
<1>5. \A i \in 1 .. Len(s) : \E k \in 1 .. Len(s) : t[k] = s[i]
  <2>1. \A i \in 1 .. Len(s) : \E k \in 1 .. Len(s) : Spot(s, k) = i
    BY SpotsAre, Zenon
  <2> QED BY <1>2, <2>1, Zenon
<1>6. ToSet(t) = ToSet(s)
  <2>1. ToSet(t) = {t[k] : k \in 1 .. Len(s)} /\ ToSet(s) = {s[k] : k \in 1 .. Len(s)}
    BY <1>0, <1>2, Zenon DEF ToSet
  <2>2. {t[k] : k \in 1 .. Len(s)} \subseteq {s[k] : k \in 1 .. Len(s)}
    BY <1>4
  <2>3. {s[k] : k \in 1 .. Len(s)} \subseteq {t[k] : k \in 1 .. Len(s)}
    BY <1>5
  <2> QED BY <2>1, <2>2, <2>3
<1>7. ASSUME NEW k \in 1 .. Len(s) - 1 PROVE ~BeforePair(PairOf(t[k + 1]), PairOf(t[k]))
  <2>1. k \in 1 .. Len(s) /\ k + 1 \in 1 .. Len(s) /\ k < k + 1 /\ k \in Nat
    BY <1>0
  <2> PICK i, j : i = Spot(s, k) /\ j = Spot(s, k + 1)
    OBVIOUS
  <2>2. i \in 1 .. Len(s) /\ j \in 1 .. Len(s) /\ PlacesIn(s)[i] = k /\ PlacesIn(s)[j] = k + 1
    BY <2>1, SpotsAre
  <2>3. Cardinality(UpTo(s, i)) = k /\ Cardinality(UpTo(s, j)) = k + 1
    BY <2>2 DEF PlacesIn
  <2>4. ~(k + 1 <= k)
    BY <2>1
  <2>5. ~Prec(s, j, i)
    BY <2>2, <2>3, <2>4, PlacesApart
  <2>6. ~Sooner(s, j, i)
    BY <2>5 DEF Prec
  <2> QED BY <1>2, <2>1, <2>6 DEF Sooner
<1> QED BY <1>2, <1>3, <1>6, <1>7

-----------------------------------------------------------------------------
(***************************************************************************)
(* Positions come before the ways that need them: one scan for everything  *)
(* reads a file that says it is sorted, and what it delivers is the start  *)
(* of that file; otherwise the scan for nodes is over before the one for   *)
(* ways begins.                                                            *)
(***************************************************************************)
Row(f, w, p, bs, pd, dl) == Linked(dl, Linked(pd, Reading(f, bs, w))) = Content(f, w, p - 1)

LEMMA RowTypes ==
  ASSUME NEW f, NEW w, NEW ss, NEW p, NEW bs, NEW pd, NEW dl, Typed(f, w, ss, p, bs, pd, dl)
  PROVE  /\ f \in Files /\ bs \in Seq(DataIn(f)) /\ pd \in Seq(Calls(f)) /\ dl \in Seq(Calls(f))
         /\ Reading(f, bs, w) \in Seq(Calls(f)) /\ Content(f, w, p - 1) \in Seq(Calls(f))
<1>1. f \in Files /\ bs \in Seq(DataIn(f)) /\ pd \in Seq(Calls(f)) /\ dl \in Seq(Calls(f)) /\ p \in 1 .. Len(f) + 1
  BY DEF Typed
<1>2. Reading(f, bs, w) \in Seq(Calls(f))
  BY <1>1, ReadingTypes
<1>3. p - 1 \in 0 .. Len(f)
  BY <1>1, FilesAreLists
<1>4. Content(f, w, p - 1) \in Seq(Calls(f))
  BY <1>1, <1>3, ContentTypes
<1> QED BY <1>1, <1>2, <1>4

LEMMA InflatingRow ==
  ASSUME NEW f, NEW w, NEW ss, NEW p \in DataIn(f), NEW bs, NEW pd, NEW dl, Typed(f, w, ss, p, bs, pd, dl),
         Row(f, w, p, bs, pd, dl)
  PROVE  Row(f, w, p + 1, Append(bs, p), pd, dl)
<1>1. PICK S, R, C, x : S = Calls(f) /\ R = Reading(f, bs, w) /\ C = Content(f, w, p - 1) /\ x = DecodeBlock(f[p], w)
  OBVIOUS
<1>2. f \in Files /\ bs \in Seq(DataIn(f)) /\ dl \in Seq(S) /\ pd \in Seq(S) /\ R \in Seq(S) /\ C \in Seq(S)
  BY <1>1, RowTypes
<1>3. p \in 1 .. Len(f) /\ f[p].type = "OSMData"
  BY DEF DataIn
<1>4. x \in Seq(S)
  BY <1>1, <1>2, BlockTypes
<1>5. Linked(dl, Linked(pd, R)) = C
  BY <1>1 DEF Row
<1>6. Content(f, w, p) = Linked(C, x)
  <2>1. Decoded(f, p, w) = x
    BY <1>1, <1>3 DEF Decoded
  <2> QED BY <1>1, <1>2, <1>3, <2>1, ContentMore
<1>7. Reading(f, Append(bs, p), w) = Linked(R, x)
  <2>1. PICK one : one = <<p>>
    OBVIOUS
  <2>2. one \in Seq(DataIn(f)) /\ Append(bs, p) = bs \o one
    BY <1>2, <2>1
  <2>3. Reading(f, bs \o one, w) = Linked(Reading(f, bs, w), Reading(f, one, w))
    BY <1>2, <2>2, ReadingJoins
  <2>4. Reading(f, one, w) = x
    BY <1>1, <1>2, <2>1, ReadingOne
  <2> QED BY <1>1, <2>2, <2>3, <2>4
<1>8. Linked(dl, Linked(pd, Linked(R, x))) = Linked(C, x)
  BY <1>2, <1>4, <1>5, LinkedLast
<1>9. (p + 1) - 1 = p
  BY <1>3
<1> QED BY <1>1, <1>6, <1>7, <1>8, <1>9 DEF Row

LEMMA SkippingRow ==
  ASSUME NEW f, NEW w, NEW ss, NEW p \in 1 .. Len(f), NEW bs, NEW pd, NEW dl, Typed(f, w, ss, p, bs, pd, dl),
         f[p].type # "OSMData", Row(f, w, p, bs, pd, dl)
  PROVE  Row(f, w, p + 1, bs, pd, dl)
<1>1. f \in Files
  BY DEF Typed
<1>2. Content(f, w, p) = Linked(Content(f, w, p - 1), <<>>)
  <2>1. Decoded(f, p, w) = <<>>
    BY DEF Decoded
  <2> QED BY <1>1, <2>1, ContentMore
<1>3. Linked(Content(f, w, p - 1), <<>>) = Content(f, w, p - 1)
  BY RowTypes, LinkedTypes
<1>4. (p + 1) - 1 = p
  OBVIOUS
<1> QED BY <1>2, <1>3, <1>4 DEF Row

LEMMA DecodingRow ==
  ASSUME NEW f, NEW w, NEW ss, NEW p, NEW bs, NEW dl, Typed(f, w, ss, p, bs, <<>>, dl), bs # <<>>,
         Row(f, w, p, bs, <<>>, dl)
  PROVE  Row(f, w, p, SubSeq(bs, 2, Len(bs)), DecodeBlock(f[bs[1]], w), dl)
<1>1. PICK S, pd, rest, i, one : /\ S = Calls(f) /\ pd = DecodeBlock(f[bs[1]], w) /\ rest = SubSeq(bs, 2, Len(bs))
                                 /\ i = bs[1] /\ one = <<i>>
  OBVIOUS
<1>2. f \in Files /\ bs \in Seq(DataIn(f)) /\ dl \in Seq(S) /\ Reading(f, bs, w) \in Seq(S)
  BY <1>1, RowTypes
<1>3. i \in DataIn(f) /\ rest \in Seq(DataIn(f)) /\ one \in Seq(DataIn(f)) /\ bs = one \o rest
  BY <1>1, <1>2, HeadAndRest
<1>4. Reading(f, bs, w) = Linked(pd, Reading(f, rest, w))
  <2>1. Reading(f, one \o rest, w) = Linked(Reading(f, one, w), Reading(f, rest, w))
    BY <1>2, <1>3, ReadingJoins
  <2>2. Reading(f, one, w) = pd
    BY <1>1, <1>2, <1>3, ReadingOne
  <2> QED BY <1>3, <2>1, <2>2
<1>5. Linked(<<>>, Reading(f, bs, w)) = Reading(f, bs, w)
  BY <1>2, LinkedTypes
<1>6. Linked(dl, Reading(f, bs, w)) = Content(f, w, p - 1)
  BY <1>5 DEF Row
<1> QED BY <1>1, <1>4, <1>6 DEF Row

LEMMA CallingRow ==
  ASSUME NEW f, NEW w, NEW ss, NEW p, NEW bs, NEW pd, NEW dl, Typed(f, w, ss, p, bs, pd, dl),
         pd # <<>>, Row(f, w, p, bs, pd, dl)
  PROVE  Row(f, w, p, bs, SubSeq(pd, 2, Len(pd)), Append(dl, pd[1]))
<1>1. PICK S, rest, x, one, R : S = Calls(f) /\ rest = SubSeq(pd, 2, Len(pd)) /\ x = pd[1] /\ one = <<x>> /\ R = Reading(f, bs, w)
  OBVIOUS
<1>2. pd \in Seq(S) /\ dl \in Seq(S) /\ R \in Seq(S)
  BY <1>1, RowTypes
<1>3. x \in S /\ rest \in Seq(S) /\ one \in Seq(S) /\ pd = Linked(one, rest)
  BY <1>1, <1>2, HeadAndRest DEF Linked
<1>4. Append(dl, x) = Linked(dl, one)
  BY <1>1, <1>2, <1>3 DEF Linked
<1>5. Linked(dl, Linked(Linked(one, rest), R)) = Content(f, w, p - 1)
  BY <1>1, <1>3 DEF Row
<1>6. Linked(Linked(dl, one), Linked(rest, R)) = Linked(dl, Linked(one, Linked(rest, R)))
  BY <1>2, <1>3, LinkedTypes, LinkedAssociates
<1>7. Linked(one, Linked(rest, R)) = Linked(Linked(one, rest), R)
  BY <1>2, <1>3, LinkedAssociates
<1> QED BY <1>1, <1>4, <1>5, <1>6, <1>7 DEF Row

LEMMA StartRow == ASSUME NEW f, NEW w PROVE Row(f, w, 1, <<>>, <<>>, <<>>)
<1>1. Content(f, w, 1 - 1) = <<>>
  BY ContentNone
<1>2. Linked(<<>>, <<>>) = <<>>
  BY DEF Linked
<1> QED BY <1>1, <1>2, ReadingNone DEF Row

LEMMA NoneMet ==
  ASSUME NEW S, NEW dl \in Seq(S), NEW kind, \A i \in 1 .. Len(dl) : dl[i].kind # kind
  PROVE  Met(dl, kind) = {}
<1>1. OfKind(dl, kind) = <<>>
  BY OfKindOther
<1>2. ToSet(<<>>) = {}
  BY OneListed
<1> QED BY <1>1, <1>2 DEF Met

LEMMA SortedRow ==
  ASSUME NEW f, NEW w, NEW ss, NEW p, NEW bs, NEW pd, NEW dl, Typed(f, w, ss, p, bs, pd, dl),
         Row(f, w, p, bs, pd, dl), SaysSorted(f), pd # <<>>, pd[1].kind = "node"
  PROVE  Met(dl, "way") = {}
<1>1. PICK S, rest, x, one, R, C : /\ S = Calls(f) /\ rest = SubSeq(pd, 2, Len(pd)) /\ x = pd[1] /\ one = <<x>>
                                   /\ R = Reading(f, bs, w) /\ C = Content(f, w, p - 1)
  OBVIOUS
<1>2. f \in Files /\ pd \in Seq(S) /\ dl \in Seq(S) /\ R \in Seq(S) /\ C \in Seq(S)
  BY <1>1, RowTypes
<1>3. x \in S /\ rest \in Seq(S) /\ one \in Seq(S) /\ pd = Linked(one, rest)
  BY <1>1, <1>2, HeadAndRest DEF Linked
<1>4. PICK y \in Seq(S) : Content(f, w, Len(f)) = Linked(C, y)
  <2>1. p - 1 \in 0 .. Len(f)
    BY <1>2, FilesAreLists DEF Typed
  <2>2. Starts(C, Content(f, w, Len(f)), S)
    BY <1>1, <1>2, <2>1, ContentGrows
  <2> QED BY <2>2 DEF Starts
<1>5. PICK u \in Seq(S) : u = Linked(rest, R)
  BY <1>2, <1>3, LinkedTypes
<1>6. Linked(Linked(one, rest), R) = Linked(one, u)
  BY <1>2, <1>3, <1>5, LinkedAssociates
<1>7. C = Linked(dl, Linked(one, u))
  BY <1>1, <1>3, <1>6 DEF Row
<1>8. PICK t : t = Content(f, w, Len(f))
  OBVIOUS
<1>9. t = Linked(Linked(dl, Linked(one, u)), y)
  BY <1>4, <1>7, <1>8
<1>10. PICK n, v : n = Len(dl) /\ v = Linked(one, u)
  OBVIOUS
<1>11. n \in Nat /\ v \in Seq(S) /\ v[1] = x /\ Len(v) >= 1 /\ Len(v) \in Nat
  <2>1. v = one \o u
    BY <1>10 DEF Linked
  <2>2. Len(one) = 1 /\ one[1] = x
    BY <1>1
  <2>3. v \in Seq(S) /\ Len(v) = Len(one) + Len(u) /\ Len(u) \in Nat /\ v[1] = one[1]
    <3>1. one \o u \in Seq(S) /\ Len(one \o u) = Len(one) + Len(u) /\ Len(u) \in Nat
      BY <1>3, <1>5
    <3>2. \A i \in 1 .. Len(one) : (one \o u)[i] = one[i]
      BY <1>3, <1>5
    <3> QED BY <2>1, <2>2, <3>1, <3>2
  <2>4. n \in Nat
    BY <1>2, <1>10
  <2> QED BY <2>2, <2>3, <2>4
<1>12. Linked(dl, v) \in Seq(S) /\ Len(Linked(dl, v)) = n + Len(v) /\ Linked(dl, v)[n + 1] = x
       /\ \A i \in 1 .. n : Linked(dl, v)[i] = dl[i]
  BY <1>2, <1>10, <1>11 DEF Linked
<1>13. PICK d : d = Linked(dl, v)
  OBVIOUS
<1>14. Len(t) \in Nat /\ DOMAIN t = 1 .. Len(t) /\ Len(t) >= n + 1 /\ t[n + 1] = x /\ \A i \in 1 .. n : t[i] = dl[i]
  <2>1. t = d \o y
    BY <1>9, <1>10, <1>13 DEF Linked
  <2>2. d \in Seq(S) /\ Len(d) = n + Len(v) /\ d[n + 1] = x /\ \A i \in 1 .. n : d[i] = dl[i]
    BY <1>12, <1>13
  <2>3. t \in Seq(S) /\ Len(t) = Len(d) + Len(y) /\ Len(y) \in Nat /\ Len(d) \in Nat /\ \A i \in 1 .. Len(d) : t[i] = d[i]
    BY <1>4, <2>1, <2>2
  <2> QED BY <1>11, <2>2, <2>3
<1>15. NodesFirst(t)
  <2>1. w \in SUBSET Kinds
    BY DEF Typed
  <2>2. DecodedTo(f, w, Len(f)) = t
    BY <1>8 DEF DecodedTo, Content, Decoded
  <2> QED BY <1>2, <2>1, <2>2, FilesAssumption
<1>16. \A i \in 1 .. Len(dl) : dl[i].kind # "way"
  <2> SUFFICES ASSUME NEW i \in 1 .. n, dl[i].kind = "way" PROVE FALSE
    BY <1>10
  <2>1. i \in DOMAIN t /\ n + 1 \in DOMAIN t /\ t[i].kind = "way" /\ t[n + 1].kind = "node"
    BY <1>1, <1>11, <1>14
  <2>2. n + 1 < i
    BY <1>15, <2>1 DEF NodesFirst
  <2> QED BY <1>11, <2>2
<1> QED BY <1>2, <1>16, NoneMet

\* The scans for everything apart read nodes before ways.
NodesFirstIn(ss) == \A i \in 1 .. Len(ss) : "node" \in ss[i] => \E j \in i + 1 .. Len(ss) : "way" \in ss[j]
LEMMA ScansOrdered ==
  ASSUME NEW w, {"node", "way"} \subseteq w
  PROVE  NodesFirstIn(FirstScans(w))
<1>1. PICK r : r = ScanOf("relation", w)
  OBVIOUS
<1>2. FirstScans(w) = <<{"node"}, {"way"}>> \o r
  <2>1. ScanOf("node", w) = <<{"node"}>> /\ ScanOf("way", w) = <<{"way"}>>
    BY DEF ScanOf
  <2> QED BY <1>1, <2>1, TuplesJoin DEF FirstScans
<1>3. r = <<>> \/ r = <<{"relation"}>>
  BY <1>1 DEF ScanOf
<1>4. FirstScans(w) = <<{"node"}, {"way"}>> \/ FirstScans(w) = <<{"node"}, {"way"}, {"relation"}>>
  BY <1>2, <1>3, TuplesJoin3
<1> QED BY <1>4 DEF NodesFirstIn

LEMMA ScansStayOrdered ==
  ASSUME NEW S, NEW ss \in Seq(S), ss # <<>>, NodesFirstIn(ss)
  PROVE  NodesFirstIn(SubSeq(ss, 2, Len(ss)))
<1>1. PICK tt : tt = SubSeq(ss, 2, Len(ss))
  OBVIOUS
<1>2. Len(ss) \in Nat /\ Len(tt) = Len(ss) - 1 /\ \A i \in 1 .. Len(ss) - 1 : tt[i] = ss[i + 1]
  <2>1. Len(SubSeq(ss, 2, Len(ss))) = Len(ss) - 1 /\ \A i \in 1 .. Len(ss) - 1 : SubSeq(ss, 2, Len(ss))[i] = ss[i + 1]
    BY HeadAndRest
  <2> QED BY <1>1, <2>1
<1>3. ASSUME NEW i \in 1 .. Len(tt), "node" \in tt[i] PROVE \E j \in i + 1 .. Len(tt) : "way" \in tt[j]
  <2>1. i + 1 \in 1 .. Len(ss) /\ tt[i] = ss[i + 1]
    BY <1>2
  <2>2. PICK j \in (i + 1) + 1 .. Len(ss) : "way" \in ss[j]
    BY <1>3, <2>1 DEF NodesFirstIn
  <2>3. j - 1 \in i + 1 .. Len(tt) /\ j - 1 \in 1 .. Len(ss) - 1 /\ (j - 1) + 1 = j
    BY <1>2
  <2>4. tt[j - 1] = ss[j]
    BY <1>2, <2>3
  <2> QED BY <2>2, <2>3, <2>4
<1> QED BY <1>1, <1>3 DEF NodesFirstIn

LEMMA SplitOrders ==
  ASSUME NEW f, NEW w, NEW ss, NEW p, NEW bs, NEW pd, NEW dl, Typed(f, w, ss, p, bs, pd, dl), Split(w, ss),
         Balance(f, w, ss, p, bs, pd, dl), NodesFirstIn(ss), ~Within(Throw, pd), "node" \in ss[1]
  PROVE  Met(dl, "way") = {}
<1>1. 1 \in 1 .. Len(ss) /\ Len(ss) \in Nat
  BY DEF Typed
<1>2. PICK j \in 2 .. Len(ss) : "way" \in ss[j]
  BY <1>1 DEF NodesFirstIn
<1>3. After(ss, "way")
  BY <1>2 DEF After
<1>4. "way" \notin ss[1]
  <2>1. j \in 1 .. Len(ss) /\ j # 1
    BY <1>1
  <2>2. ss[1] \cap ss[j] = {}
    BY <1>1, <2>1 DEF Split
  <2> QED BY <1>2, <2>2
<1>5. "way" \in Kinds
  BY DEF Kinds
<1>6. OfKind(dl, "way") = Final(f, w, ss, "way")
  BY <1>4, <1>5 DEF Balance
<1>7. OfKind(dl, "way") = <<>>
  BY <1>3, <1>6 DEF Final
<1>8. ToSet(<<>>) = {}
  BY OneListed
<1> QED BY <1>7, <1>8 DEF Met

Ordered(f, w, ss, p, bs, pd, dl, o) ==
  \/ ss = <<w>> /\ Row(f, w, p, bs, pd, dl) /\ (o = "reading" => SaysSorted(f))
  \/ o = "reading" /\ NodesFirstIn(ss)
OrderInv ==
  /\ "sorted" \in status => SaysSorted(file)
  /\ phase = "loading" /\ outcome \in {"waiting", "reading"} =>
       Ordered(file, wanted, scans, position, blobs, pending, delivered, outcome)

LEMMA OrderInit == Init => OrderInv
BY DEF Init, InitPbf, OrderInv

LEMMA OrderReads == Inv /\ MapInv /\ OrderInv /\ Reads => OrderInv'
<1> SUFFICES ASSUME Inv, MapInv, OrderInv, Reads PROVE OrderInv'
  OBVIOUS
<1>1. /\ Typed(file, wanted, scans, position, blobs, pending, delivered) /\ Stages /\ file \in Files
  BY PbfInvIs DEF Inv
<1>2. /\ file' = file /\ wanted' = wanted /\ phase' = phase /\ job' = job /\ delivered' = delivered
  BY DEF Reads, importVars, sourceVars, scanVars,
         Decompress, Inflates, ReadsHeader, SkipsBlock, EndsFile, SeesStatus, Decode, Throws, EndsScan
<1>3. position \in 1 .. Len(file) + 1 /\ Len(file) \in Nat /\ DOMAIN file = 1 .. Len(file)
  BY <1>1, FilesAreLists DEF Typed
<1>4. "sorted" \in status' => SaysSorted(file)
  <2>1. CASE Inflates
    BY <2>1 DEF Inflates, OrderInv
  <2>2. CASE ReadsHeader
    <3>1. position \in DOMAIN file /\ file[position].type = "OSMHeader"
      BY <1>3, <2>2 DEF ReadsHeader
    <3>2. status' = status \/ ("sorted" \in status' => file[position].sorted)
      BY <2>2 DEF ReadsHeader
    <3> QED BY <3>1, <3>2 DEF OrderInv, SaysSorted
  <2>3. CASE SkipsBlock \/ EndsFile \/ SeesStatus \/ Decode \/ Throws
    BY <2>3 DEF SkipsBlock, EndsFile, SeesStatus, Decode, Throws, inflaterVars, OrderInv
  <2>4. CASE EndsScan
    BY <2>4 DEF EndsScan, OpenReaders, inflaterVars, OrderInv
  <2> QED BY <2>1, <2>2, <2>3, <2>4 DEF Reads, Decompress
<1>5. SUFFICES ASSUME phase = "loading", outcome' \in {"waiting", "reading"}
               PROVE  Ordered(file, wanted, scans', position', blobs', pending', delivered, outcome')
  BY <1>2, <1>4 DEF OrderInv
<1>6. CASE Inflates
  <2>1. /\ scans' = scans /\ pending' = pending /\ outcome' = outcome
        /\ \/ position \in DataIn(file) /\ blobs' = Append(blobs, position) /\ position' = position + 1
           \/ blobs' = blobs /\ position' = position
    BY <1>3, <1>6 DEF Inflates, scanVars, DataIn
  <2>2. Ordered(file, wanted, scans, position, blobs, pending, delivered, outcome)
    BY <1>5, <2>1 DEF OrderInv
  <2>3. Row(file, wanted, position, blobs, pending, delivered) => Row(file, wanted, position', blobs', pending, delivered)
    BY <1>1, <2>1, InflatingRow
  <2> QED BY <2>1, <2>2, <2>3 DEF Ordered
<1>7. CASE ReadsHeader \/ SkipsBlock \/ EndsFile
  <2>1. /\ scans' = scans /\ pending' = pending /\ outcome' = outcome /\ blobs' = blobs
        /\ \/ position \in 1 .. Len(file) /\ file[position].type # "OSMData" /\ position' = position + 1
           \/ position' = position
    BY <1>3, <1>7 DEF ReadsHeader, SkipsBlock, EndsFile, scanVars
  <2>2. Ordered(file, wanted, scans, position, blobs, pending, delivered, outcome)
    BY <1>5, <2>1 DEF OrderInv
  <2>3. Row(file, wanted, position, blobs, pending, delivered) => Row(file, wanted, position', blobs, pending, delivered)
    BY <1>1, <2>1, SkippingRow
  <2> QED BY <2>1, <2>2, <2>3 DEF Ordered
<1>8. CASE SeesStatus
  <2>1. /\ outcome = "waiting" /\ outcome' = "reading" /\ pending' = pending /\ position' = position /\ blobs' = blobs
        /\ scans' = IF "sorted" \in status THEN <<wanted>> ELSE FirstScans(wanted)
    BY <1>8 DEF SeesStatus, inflaterVars
  <2>2. Row(file, wanted, position, blobs, pending, delivered)
    BY <1>5, <2>1 DEF OrderInv, Ordered
  <2>3. Sound
    BY <1>1, <2>1, NothingThrows DEF Stages, Sound
  <2>4. {"node", "way"} \subseteq wanted
    BY <1>5, <2>3 DEF MapInv, Mapped, WantedBy, Kinds
  <2>5. NodesFirstIn(FirstScans(wanted))
    BY <2>4, ScansOrdered
  <2>6. "sorted" \in status => SaysSorted(file)
    BY DEF OrderInv
  <2> QED BY <2>1, <2>2, <2>5, <2>6 DEF Ordered
<1>9. CASE Decode
  <2>1. /\ outcome' = outcome /\ position' = position /\ scans' = scans /\ pending = <<>> /\ blobs # <<>>
        /\ blobs' = SubSeq(blobs, 2, Len(blobs)) /\ pending' = DecodeBlock(file[blobs[1]], scans[1])
    BY <1>9 DEF Decode, inflaterVars
  <2>2. Ordered(file, wanted, scans, position, blobs, pending, delivered, outcome)
    BY <1>5, <2>1 DEF OrderInv
  <2>3. CASE scans = <<wanted>> /\ Row(file, wanted, position, blobs, pending, delivered)
    <3>1. Row(file, wanted, position, blobs', DecodeBlock(file[blobs[1]], wanted), delivered)
      BY <1>1, <2>1, <2>3, DecodingRow
    <3>2. scans[1] = wanted
      BY <2>3
    <3> QED BY <2>1, <2>2, <2>3, <3>1, <3>2 DEF Ordered
  <2> QED BY <2>1, <2>2, <2>3 DEF Ordered
<1>10. CASE Throws
  BY <1>5, <1>10 DEF Throws
<1>11. CASE EndsScan
  <2>1. Len(scans) > 1 /\ scans' = SubSeq(scans, 2, Len(scans)) /\ outcome' = "reading" /\ outcome = "reading"
    BY <1>5, <1>11 DEF EndsScan
  <2>2. scans \in Seq(SUBSET Kinds) /\ scans # <<>>
    BY <1>1 DEF Typed
  <2>3. scans # <<wanted>>
    BY <2>1
  <2>4. NodesFirstIn(scans)
    BY <1>5, <2>1, <2>3 DEF OrderInv, Ordered
  <2>5. NodesFirstIn(scans')
    BY <2>1, <2>2, <2>4, ScansStayOrdered
  <2> QED BY <2>1, <2>5 DEF Ordered
<1> QED BY <1>6, <1>7, <1>8, <1>9, <1>10, <1>11 DEF Reads, Decompress

LEMMA OrderStep == Inv /\ MapInv /\ OrderInv /\ [Next]_vars => OrderInv'
<1> SUFFICES ASSUME Inv, MapInv, OrderInv, [Next]_vars PROVE OrderInv'
  OBVIOUS
<1>1. CASE Reads
  BY <1>1, OrderReads
<1>2. CASE UNCHANGED vars
  BY <1>2 DEF OrderInv, vars, pbfVars, sourceVars, inflaterVars, scanVars, importVars
<1>3. CASE MapsWay
  BY <1>3 DEF MapsWay, CallsBack, sourceVars, inflaterVars, OrderInv
<1>4. CASE LoadsEntity
  <2>1. /\ phase = "loading" /\ phase' = phase /\ file' = file /\ wanted' = wanted /\ status' = status /\ scans' = scans
        /\ position' = position /\ blobs' = blobs /\ outcome' = outcome /\ outcome = "reading"
        /\ pending # <<>> /\ pending' = SubSeq(pending, 2, Len(pending)) /\ delivered' = Append(delivered, pending[1])
    BY <1>4 DEF LoadsEntity, CallsBack, sourceVars, inflaterVars
  <2>2. Ordered(file, wanted, scans, position, blobs, pending, delivered, outcome)
    BY <2>1 DEF OrderInv
  <2>3. Typed(file, wanted, scans, position, blobs, pending, delivered)
    BY PbfInvIs DEF Inv
  <2>4. Row(file, wanted, position, blobs, pending, delivered) => Row(file, wanted, position, blobs, pending', delivered')
    BY <2>1, <2>3, CallingRow
  <2>5. Ordered(file, wanted, scans, position, blobs, pending', delivered', outcome)
    BY <2>2, <2>4 DEF Ordered
  <2> QED BY <2>1, <2>5 DEF OrderInv
<1>5. CASE StartsLoading
  <2>1. /\ scans' = <<wanted'>> /\ outcome' = "waiting" /\ position' = 1 /\ blobs' = <<>> /\ pending' = <<>> /\ delivered' = <<>>
        /\ status' = {}
    BY <1>5 DEF StartsLoading, Call, OpenReaders
  <2>2. Row(file', wanted', 1, <<>>, <<>>, <<>>)
    BY StartRow
  <2> QED BY <2>1, <2>2 DEF OrderInv, Ordered
<1>6. CASE BuildsGraph \/ Fails
  BY <1>6 DEF BuildsGraph, Fails, pbfVars, sourceVars, inflaterVars, OrderInv
<1> QED BY <1>1, <1>2, <1>3, <1>4, <1>5, <1>6 DEF Next, Import

LEMMA NodesComeFirst ==
  ASSUME Inv, OrderInv, Sound, phase = "loading", CallsBack, pending[1].kind = "node"
  PROVE  Met(delivered, "way") = {}
<1>1. /\ Typed(file, wanted, scans, position, blobs, pending, delivered) /\ Split(wanted, scans)
      /\ Balance(file, wanted, scans, position, blobs, pending, delivered)
  BY PbfInvIs DEF Inv
<1>2. outcome = "reading" /\ pending # <<>> /\ ~Within(Throw, pending)
  BY DEF CallsBack, Sound
<1>3. Ordered(file, wanted, scans, position, blobs, pending, delivered, outcome)
  BY <1>2 DEF OrderInv
<1>4. CASE Row(file, wanted, position, blobs, pending, delivered) /\ SaysSorted(file)
  BY <1>1, <1>2, <1>4, SortedRow
<1>5. CASE NodesFirstIn(scans)
  <2>1. pending[1].kind \in Kinds
    BY DEF Kinds
  <2>2. pending[1].kind \in scans[1]
    BY <1>1, <1>2, <2>1, NextEntity
  <2> QED BY <1>1, <1>2, <1>5, <2>2, SplitOrders
<1> QED BY <1>2, <1>3, <1>4, <1>5 DEF Ordered

-----------------------------------------------------------------------------
(***************************************************************************)
(* Loading: positions are those of the nodes met, arcs those of the ways   *)
(* met, and no position changes once there is an arc.                      *)
(***************************************************************************)
At(N, n) ==
  LET known == {e \in N : e.id = n}
  IN  IF known = {} THEN NoPosition ELSE LET e == CHOOSE e \in known : TRUE IN [lat |-> e.lat, lon |-> e.lon]
LEMMA NothingAt == \A n : At({}, n) = NoPosition
BY DEF At
LEMMA AtMore ==
  ASSUME NEW N, NEW e, \A d \in N : d.id # e.id, NEW n
  PROVE  At(N \cup {e}, n) = IF n = e.id THEN [lat |-> e.lat, lon |-> e.lon] ELSE At(N, n)
<1>1. CASE n = e.id
  <2>1. {d \in N \cup {e} : d.id = n} = {e}
    BY <1>1
  <2>2. (CHOOSE d \in {e} : TRUE) = e
    OBVIOUS
  <2>3. {e} # {}
    OBVIOUS
  <2> QED BY <1>1, <2>1, <2>2, <2>3 DEF At
<1>2. CASE n # e.id
  <2>1. {d \in N \cup {e} : d.id = n} = {d \in N : d.id = n}
    BY <1>2
  <2> QED BY <1>2, <2>1, Zenon DEF At
<1> QED BY <1>1, <1>2

Geo(j) == IF j.turns /\ j.geometry = "none" THEN "first_and_last" ELSE j.geometry
PlacedBy(N, m, b) == b.position = [n \in m.modelling |-> At(N, n)]
Located(m, dl, b) == PlacedBy(Met(dl, "node"), m, b)
Driven(j, m, dl, b) == ToSet(b.arcs) = Ways(b.position, m.routing, j.profile, Geo(j), UsedIn(j.profile, Met(dl, "way")))
PlaceInv == phase \in {"loading", "finished"} /\ Sound => Located(mapping, delivered, builder) /\ Driven(job, mapping, delivered, builder)

LEMMA NoWays == \A at, J, profile, geometry : Ways(at, J, profile, geometry, UsedIn(profile, {})) = {}
BY DEF Ways, UsedIn
LEMMA WaysMore ==
  ASSUME NEW at, NEW J, NEW profile, NEW geometry, NEW U, NEW w
  PROVE  Ways(at, J, profile, geometry, U \cup {w}) = Ways(at, J, profile, geometry, U) \cup ArcsAlong(at, J, profile, geometry, w)
BY DEF Ways

LEMMA PlacingStarts == StartsLoading => Located(mapping', delivered', builder') /\ Driven(job', mapping', delivered', builder')
<1> SUFFICES ASSUME StartsLoading PROVE Located(mapping', delivered', builder') /\ Driven(job', mapping', delivered', builder')
  OBVIOUS
<1>1. builder' = EmptyBuilder(mapping) /\ delivered' = <<>> /\ mapping' = mapping
  BY DEF StartsLoading, Call
<1>2. PICK b, dl, m : b = builder' /\ dl = delivered' /\ m = mapping
  OBVIOUS
<1>3. b.arcs = <<>> /\ b.position = [n \in m.modelling |-> NoPosition]
  BY <1>1, <1>2 DEF EmptyBuilder
<1>4. Met(dl, "node") = {} /\ Met(dl, "way") = {}
  BY <1>1, <1>2, MetNone
<1>5. Located(m, dl, b)
  BY <1>3, <1>4, NothingAt DEF Located, PlacedBy
<1>6. Driven(job', m, dl, b)
  BY <1>3, <1>4, NoWays, OneListed DEF Driven
<1> QED BY <1>1, <1>2, <1>5, <1>6

LEMMA NodePlaced ==
  ASSUME NEW b, NEW m, NEW e, NEW N, IsBuilder(b), \A d \in N : d.id # e.id, PlacedBy(N, m, b)
  PROVE  PlacedBy(N \cup {e}, m, LoadNode(b, m, e))
<1> PICK M, q, x : M = m.modelling /\ q = LoadNode(b, m, e).position /\ x = [lat |-> e.lat, lon |-> e.lon]
  OBVIOUS
<1>1. q = IF e.id \in M THEN [b.position EXCEPT ![e.id] = x] ELSE b.position
  BY NodeLoaded
<1>2. \A n : At(N \cup {e}, n) = IF n = e.id THEN x ELSE At(N, n)
  BY AtMore
<1>3. DOMAIN b.position = M /\ \A n \in M : b.position[n] = At(N, n)
  BY DEF PlacedBy
<1>4. \A n \in M : q[n] = At(N \cup {e}, n)
  BY <1>1, <1>2, <1>3
<1>5. q = [n \in M |-> q[n]]
  <2> PICK r : r = b.position
    OBVIOUS
  <2>1. r = [n \in M |-> At(N, n)]
    BY DEF PlacedBy
  <2>2. CASE e.id \in M
    <3>1. q = [r EXCEPT ![e.id] = x]
      BY <1>1, <2>2
    <3> QED BY <2>1, <3>1
  <2>3. CASE e.id \notin M
    <3>1. q = r
      BY <1>1, <2>3
    <3> QED BY <2>1, <3>1
  <2> QED BY <2>2, <2>3
<1> QED BY <1>4, <1>5 DEF PlacedBy

LEMMA PlacingGoes ==
  ASSUME Inv, MapInv, SpeedInv, LoadInv, OrderInv, PlaceInv, Sound, LoadsEntity
  PROVE  Located(mapping', delivered', builder') /\ Driven(job', mapping', delivered', builder')
<1>1. phase = "loading" /\ CallsBack /\ job' = job /\ mapping' = mapping
  BY DEF LoadsEntity
<1>2. PICK e : e = pending[1]
  OBVIOUS
<1>3. HandedTo(e)
  BY <1>1, <1>2, HandedOver
<1>4. /\ Mapped(file, wanted, job, mapping) /\ Loaded(job, delivered, builder) /\ IsBuilder(builder) /\ file \in Files
      /\ Located(mapping, delivered, builder) /\ Driven(job, mapping, delivered, builder)
  BY <1>1 DEF MapInv, LoadInv, SpeedInv, PlaceInv, Inv
<1>5. PICK b, c, dl, more, j, m, p, g : /\ b = builder /\ c = builder' /\ dl = delivered /\ more = delivered' /\ j = job
                                        /\ m = mapping /\ p = job.profile /\ g = Geo(job)
  OBVIOUS
<1>6. \/ e.kind = "node" /\ c = LoadNode(b, m, e)
      \/ e.kind = "way" /\ c = LoadWay(b, m, p, g, e)
      \/ e.kind = "relation" /\ c = LoadRelation(b, p, e)
  BY <1>2, <1>5 DEF LoadsEntity, OnNode, OnWay, OnRelation, Geometry, Geo
<1>7. IsBuilder(b) /\ Listed(b.arcs) /\ Located(m, dl, b) /\ ToSet(b.arcs) = Ways(b.position, m.routing, p, g, UsedIn(p, Met(dl, "way")))
  BY <1>4, <1>5 DEF Loaded, Driven
<1>8. \A kind : Met(more, kind) = IF e.kind = kind THEN Met(dl, kind) \cup {e} ELSE Met(dl, kind)
  BY <1>3, <1>5 DEF HandedTo, MetMeets
<1>9. e \in Calls(file) /\ e.kind \in Kinds /\ dl \in Seq(Calls(file)) /\ Follows(file, dl, e)
  BY <1>3, <1>5 DEF HandedTo
<1>10. Located(m, more, c) /\ ToSet(c.arcs) = Ways(c.position, m.routing, p, g, UsedIn(p, Met(more, "way")))
  <2>1. CASE e.kind = "node" /\ c = LoadNode(b, m, e)
    <3>1. Met(dl, "way") = {}
      BY <1>1, <1>2, <1>5, <2>1, NodesComeFirst
    <3>2. Met(more, "way") = {} /\ Met(more, "node") = Met(dl, "node") \cup {e}
      BY <1>8, <2>1, <3>1
    <3>3. c.arcs = b.arcs
      BY <1>7, <2>1, NodeLoaded
    <3>4. ToSet(c.arcs) = Ways(c.position, m.routing, p, g, UsedIn(p, Met(more, "way")))
      BY <1>7, <3>1, <3>2, <3>3, NoWays
    <3>5. PICK N : N = Met(dl, "node")
      OBVIOUS
    <3>6. \A d \in N : d.id # e.id
      BY <1>4, <1>9, <2>1, <3>5, FollowsGives
    <3>7. PlacedBy(N, m, b)
      BY <1>7, <3>5 DEF Located
    <3>8. PlacedBy(N \cup {e}, m, LoadNode(b, m, e))
      BY <1>7, <3>6, <3>7, NodePlaced
    <3> QED BY <2>1, <3>2, <3>4, <3>5, <3>8 DEF Located
  <2>2. CASE e.kind = "way" /\ c = LoadWay(b, m, p, g, e)
    <3>1. c.position = b.position
      BY <1>7, <2>2, WayLoaded
    <3>2. e \in ToSet(Entities(file, "way"))
      BY <1>4, <1>9, <2>2, FollowsGives
    <3>3. /\ e.id \in m.ways <=> Len(e.nodes) >= 2 /\ IsWayUsed(p, e.tags)
          /\ e.id \in m.ways => LongWay(e) /\ e.nodes[1] \in m.routing
      BY <1>4, <1>5, <1>9, <2>2, <3>2, InUse
    <3>4. ToSet(LoadWay(b, m, p, g, e).arcs) =
            IF e.id \in m.ways THEN ToSet(b.arcs) \cup ArcsAlong(b.position, m.routing, p, g, e) ELSE ToSet(b.arcs)
      BY <1>7, <3>3, WayAdds
    <3>5. PICK W, U : W = Met(dl, "way") /\ U = UsedIn(p, W)
      OBVIOUS
    <3>6. Met(more, "way") = W \cup {e} /\ Met(more, "node") = Met(dl, "node")
      BY <1>8, <2>2, <3>5
    <3>7. UsedIn(p, W \cup {e}) = IF e.id \in m.ways THEN U \cup {e} ELSE U
      BY <3>3, <3>5, UsedMore
    <3>8. Ways(b.position, m.routing, p, g, U \cup {e}) = Ways(b.position, m.routing, p, g, U) \cup ArcsAlong(b.position, m.routing, p, g, e)
      BY WaysMore
    <3>9. ToSet(c.arcs) = Ways(c.position, m.routing, p, g, UsedIn(p, Met(more, "way")))
      BY <1>7, <2>2, <3>1, <3>4, <3>5, <3>6, <3>7, <3>8
    <3>10. Located(m, more, c)
      BY <1>7, <3>1, <3>6 DEF Located, PlacedBy
    <3> QED BY <3>9, <3>10
  <2>3. CASE e.kind = "relation" /\ c = LoadRelation(b, p, e)
    <3>1. c.arcs = b.arcs /\ c.position = b.position
      BY <1>7, <2>3, RelationLoaded
    <3>2. Met(more, "way") = Met(dl, "way") /\ Met(more, "node") = Met(dl, "node")
      BY <1>8, <2>3
    <3> QED BY <1>7, <3>1, <3>2 DEF Located, PlacedBy
  <2> QED BY <1>6, <2>1, <2>2, <2>3
<1>11. Driven(j, m, more, c)
  BY <1>5, <1>10 DEF Driven
<1> QED BY <1>1, <1>5, <1>10, <1>11

LEMMA PlaceStep == Inv /\ MapInv /\ SpeedInv /\ LoadInv /\ OrderInv /\ PlaceInv /\ [Next]_vars => PlaceInv'
<1> SUFFICES ASSUME Inv, MapInv, SpeedInv, LoadInv, OrderInv, PlaceInv, [Next]_vars PROVE PlaceInv'
  OBVIOUS
<1>0. Sound' => Sound
  BY SoundBefore
<1>1. CASE Reads \/ UNCHANGED vars
  <2>1. UNCHANGED <<job, phase, mapping, delivered, builder>>
    BY <1>1 DEF Reads, importVars, vars, pbfVars, sourceVars, scanVars,
                Decompress, Inflates, ReadsHeader, SkipsBlock, EndsFile, SeesStatus, Decode, Throws, EndsScan
  <2> QED BY <1>0, <2>1 DEF PlaceInv, Located, Driven
<1>2. CASE MapsWay \/ Fails
  BY <1>2 DEF PlaceInv, MapsWay, Fails
<1>3. CASE LoadsEntity
  <2>1. CASE Sound
    BY <2>1, <1>3, PlacingGoes DEF PlaceInv
  <2> QED BY <1>0, <2>1 DEF PlaceInv
<1>4. CASE StartsLoading
  BY <1>4, PlacingStarts DEF PlaceInv
<1>5. CASE BuildsGraph
  <2>1. UNCHANGED <<job, mapping, delivered, builder>> /\ phase = "loading"
    BY <1>5 DEF BuildsGraph, pbfVars, scanVars
  <2> QED BY <1>0, <2>1 DEF PlaceInv, Located, Driven
<1> QED BY <1>1, <1>2, <1>3, <1>4, <1>5 DEF Next, Import

LEMMA ArcEnds ==
  ASSUME NEW at, NEW J, NEW profile, NEW geometry, NEW w, w.nodes \in Seq(Int), NEW a \in ArcsAlong(at, J, profile, geometry, w)
  PROVE  a.tail \in Int /\ a.head \in Int
<1>1. a \in ArcsOn(at, geometry, w, DirectionOf(profile, w.tags), Legs(J, w))
  BY ArcsAlongAre
<1>2. PICK l \in Legs(J, w), anti \in BOOLEAN : a = LegArc(at, geometry, w, l, anti)
  <2>1. Senses(DirectionOf(profile, w.tags)) \subseteq BOOLEAN
    BY DEF Senses
  <2> QED BY <1>1, <2>1 DEF ArcsOn
<1>3. PICK x, y \in DOMAIN w.nodes : l = <<x, y>>
  BY DEF Legs
<1>4. w.nodes[x] \in Int /\ w.nodes[y] \in Int
  OBVIOUS
<1>5. a.tail = w.nodes[l[IF anti THEN 2 ELSE 1]] /\ a.head = w.nodes[l[IF anti THEN 1 ELSE 2]]
  BY <1>2 DEF LegArc
<1>6. a.tail \in {w.nodes[x], w.nodes[y]} /\ a.head \in {w.nodes[x], w.nodes[y]}
  <2>1. CASE anti
    BY <1>3, <1>5, <2>1
  <2>2. CASE ~anti
    BY <1>3, <1>5, <2>2
  <2> QED BY <2>1, <2>2
<1> QED BY <1>4, <1>6

LEMMA WaysEnd ==
  ASSUME NEW at, NEW J, NEW profile, NEW geometry, NEW U, \A w \in U : w.nodes \in Seq(Int),
         NEW s, Listed(s), ToSet(s) = Ways(at, J, profile, geometry, U)
  PROVE  EndsKnown(s)
<1>1. DOMAIN s = 1 .. Len(s)
  BY ListedAre
<1>2. ASSUME NEW i \in 1 .. Len(s) PROVE s[i].tail \in Int /\ s[i].head \in Int
  <2>1. s[i] \in Ways(at, J, profile, geometry, U)
    BY <1>1 DEF ToSet
  <2>2. PICK w \in U : s[i] \in ArcsAlong(at, J, profile, geometry, w)
    BY <2>1 DEF Ways
  <2> QED BY <2>2, ArcEnds
<1> QED BY <1>2 DEF EndsKnown

RoadInv == BuildInv /\ OrderInv /\ PlaceInv
LEMMA RoadInit == Init => RoadInv
<1>1. Init => PlaceInv
  BY DEF Init, PlaceInv
<1> QED BY <1>1, BuildInit, OrderInit DEF RoadInv
LEMMA RoadStep == RoadInv /\ [Next]_vars => RoadInv'
BY BuildStep, OrderStep, PlaceStep DEF RoadInv, BuildInv

\* The words of the property and those of the scans mean the same.
LEMMA SameWays ==
  ASSUME Inv, outcome = "done", wanted = WantedBy(job), Mapped(file, wanted, job, mapping)
  PROVE  /\ Met(delivered, "way") = EntitiesOf("way") /\ Met(delivered, "node") = EntitiesOf("node")
         /\ UsedWays = UsedIn(job.profile, Met(delivered, "way"))
         /\ mapping.modelling = UsedNodes /\ mapping.routing = Junctions
<1>1. "way" \in wanted /\ "node" \in wanted
  BY DEF WantedBy, Kinds
<1>2. OfKind(delivered, "way") = ContentOf("way") /\ ContentOf("way") = Entities(file, "way")
  BY <1>1, AllMet
<1>3. OfKind(delivered, "node") = ContentOf("node")
  BY <1>1, AllMet
<1>4. Met(delivered, "way") = EntitiesOf("way") /\ Met(delivered, "node") = EntitiesOf("node")
  BY <1>2, <1>3 DEF Met, EntitiesOf, ToSet
<1>5. UsedWays = UsedIn(job.profile, Met(delivered, "way"))
  BY <1>4 DEF UsedWays, UsedIn
<1>6. UsedWays = UsedIn(job.profile, ToSet(Entities(file, "way")))
  BY <1>2, <1>5 DEF Met
<1>7. MapIs(mapping, UsedWays, job.allRouting)
  BY <1>6 DEF Mapped
<1>8. NodesIn(UsedWays) = UsedNodes
  BY DEF NodesIn, NodesOf, UsedNodes
<1>9. \A n : (EndsIn(UsedWays, n) <=> EndsWay(n)) /\ (TwiceIn(UsedWays, n) <=> SeenTwice(n))
  BY DEF EndsIn, EndsWay, TwiceIn, SeenTwice
<1>10. JunctionsIn(UsedWays, job.allRouting) = Junctions
  BY <1>8, <1>9 DEF JunctionsIn, Junctions
<1> QED BY <1>4, <1>5, <1>7, <1>8, <1>10 DEF MapIs

LEMMA RoadGivesArcs == RoadInv => ArcsFollowTheWays
<1> SUFFICES ASSUME RoadInv, phase = "finished" PROVE ArcsFollowTheWays
  BY DEF ArcsFollowTheWays, Finished
<1>1. /\ outcome = "done" /\ Sound /\ wanted = WantedBy(job) /\ Mapped(file, wanted, job, mapping)
      /\ Loaded(job, delivered, builder) /\ delivered \in Seq(Calls(file)) /\ file \in Files
      /\ graph.arcs = SortArcs(builder.arcs)
  BY WhenFinished DEF RoadInv
<1>2. Located(mapping, delivered, builder) /\ Driven(job, mapping, delivered, builder)
  BY <1>1 DEF RoadInv, PlaceInv
<1>3. PICK at, J, p, g, U, s, t : /\ at = builder.position /\ J = mapping.routing /\ p = job.profile /\ g = Geo(job)
                                  /\ U = UsedIn(job.profile, Met(delivered, "way")) /\ s = builder.arcs /\ t = graph.arcs
  OBVIOUS
<1>4. Inv
  BY DEF RoadInv, BuildInv
<1>5. /\ Met(delivered, "node") = EntitiesOf("node") /\ UsedWays = U /\ mapping.modelling = UsedNodes /\ J = Junctions
  BY <1>1, <1>3, <1>4, SameWays
<1>6. ToSet(s) = Ways(at, J, p, g, U) /\ Listed(s)
  BY <1>1, <1>2, <1>3 DEF Driven, Loaded
<1>7. \A w \in U : w.nodes \in Seq(Int)
  <2> SUFFICES ASSUME NEW w \in Met(delivered, "way") PROVE w.nodes \in Seq(Int)
    BY <1>3 DEF UsedIn
  <2>1. w \in Calls(file) /\ w.kind = "way"
    BY <1>1, MetTypes
  <2> QED BY <1>1, <2>1, WayNodes
<1>8. EndsKnown(s)
  BY <1>6, <1>7, WaysEnd
<1>9. /\ ToSet(t) = ToSet(s) /\ Len(t) = Len(s)
      /\ \A k \in 1 .. Len(s) - 1 : ~BeforePair(PairOf(t[k + 1]), PairOf(t[k]))
  BY <1>1, <1>3, <1>8, SortKeeps
<1>10. at = Places
  <2>1. \A n : At(EntitiesOf("node"), n) = PositionOf(n)
    BY DEF At, PositionOf
  <2>2. at = [n \in UsedNodes |-> At(EntitiesOf("node"), n)]
    BY <1>2, <1>3, <1>5 DEF Located, PlacedBy
  <2> QED BY <2>1, <2>2 DEF Places
<1>11. g = Geometry
  BY <1>3 DEF Geo, Geometry
<1>12. ToSet(t) = UNION {ArcsAlong(Places, Junctions, job.profile, Geometry, w) : w \in UsedWays}
  BY <1>3, <1>5, <1>6, <1>9, <1>10, <1>11 DEF Ways
<1>13. {graph.arcs[i] : i \in DOMAIN graph.arcs} = UNION {ArcsAlong(Places, Junctions, job.profile, Geometry, w) : w \in UsedWays}
  BY <1>3, <1>12 DEF ToSet
<1>14. \A i \in 1 .. Len(graph.arcs) - 1 :
         ~BeforePair(<<graph.arcs[i + 1].tail, graph.arcs[i + 1].head>>, <<graph.arcs[i].tail, graph.arcs[i].head>>)
  BY <1>3, <1>9 DEF PairOf
<1> QED BY <1>13, <1>14 DEF ArcsFollowTheWays

\* The arcs of the graph are the legs of the used ways between junctions, in
\* the open directions, with length and geometry as driven, and sorted: though
\* a node becomes a routing node only when seen again, positions arrive apart
\* from the ways, and the scans depend on what the header says.
THEOREM ArcsFollow == Spec => []ArcsFollowTheWays
<1>1. Init => RoadInv
  BY RoadInit
<1>2. RoadInv /\ [Next]_vars => RoadInv'
  BY RoadStep
<1>3. RoadInv => ArcsFollowTheWays
  BY RoadGivesArcs
<1> QED BY <1>1, <1>2, <1>3, PTL DEF Spec

-----------------------------------------------------------------------------
(***************************************************************************)
(* One reader.  Indices are integers and the ring has five blocks, so that *)
(* all the arithmetic of the ring is linear in the block size.             *)
(***************************************************************************)
USE DEF Nothing, ringVars, flagVars, readerVars

\* The ring's geometry: a cell of the ring and the cell of its mirror.
LEMMA RingGeometry == RingSize = 5 * BlockSize /\ BlockSize \in Nat /\ BlockSize > 0
BY SizeAssumption DEF RingSize, BlocksPerBuffer

LEMMA OutcomeTypes ==
  /\ Nothing \in Givens
  /\ \A st, sz \in Nat, o \in {"bytes", "end", "threw"} : [outcome |-> o, start |-> st, size |-> sz] \in Givens
  /\ \A g \in Givens : g.start \in Nat /\ g.size \in Nat
BY DEF Givens

LEMMA HeldType == TypeOK => Held \in 0 .. RingSize
BY RingGeometry DEF TypeOK, Held

LEMMA ReaderInitHolds == ReaderInit => IInv
<1> SUFFICES ASSUME ReaderInit PROVE IInv
  OBVIOUS
<1> USE RingGeometry, SizeAssumption DEF ReaderInit
<1>1. TypeOK
  <2>0. given \in Givens
    BY OutcomeTypes
  <2>1. buffer \in [Cells -> Int]
    <3> HIDE DEF Cells
    <3> QED
      BY DEF Junk
  <2>2. dataBegin \in 0 .. RingSize - 1 /\ dataEnd \in 0 .. RingSize - 1 /\ size \in 0 .. BlockSize /\ filled \in 0 .. BlockSize
    BY DEF TypeOK
  <2> QED
    BY <2>0, <2>1, <2>2 DEF TypeOK
<1>2. Held = 0
  BY DEF Held
<1>3. Counted /\ Stored
  BY <1>2 DEF Counted, Stored
<1>4. HandedKept /\ Arrived /\ Ended /\ Quiet
  BY DEF HandedKept, Arrived, Ended, Quiet
<1> QED
  BY <1>1, <1>3, <1>4 DEF IInv

\* With two free blocks the block behind dataEnd overlaps neither what is held,
\* nor its mirror, nor what was handed out.
Behind == dataEnd .. dataEnd + BlockSize - 1
LEMMA HeldApart ==
  ASSUME IInv, Held <= RingSize - 2 * BlockSize, NEW i \in 0 .. Held - 1
  PROVE  /\ Wrap(dataBegin + i) \in Cells \ Behind
         /\ Wrap(dataBegin + i) < BlockSize => RingSize + Wrap(dataBegin + i) \in Cells \ Behind
<1>1. Held \in 0 .. RingSize
  BY HeldType DEF IInv
<1> QED
  BY <1>1, RingGeometry DEF IInv, Wrap, Cells, Held, TypeOK, Behind
LEMMA GivenApart ==
  ASSUME IInv, Held <= RingSize - 2 * BlockSize, given.outcome = "bytes", NEW i \in 0 .. given.size - 1
  PROVE  given.start + i \in Cells \ Behind
<1> DEFINE st == given.start
           sz == given.size
<1>1. /\ st \in 0 .. RingSize - 1 /\ sz \in 0 .. BlockSize /\ Wrap(st + sz) = dataBegin
      /\ dataBegin \in 0 .. RingSize - 1 /\ dataEnd \in 0 .. RingSize - 1
  BY RingGeometry, OutcomeTypes DEF IInv, TypeOK, HandedKept
<1>2. i \in 0 .. sz - 1
  OBVIOUS
<1>3. Held \in 0 .. RingSize
  BY HeldType DEF IInv
<1>4. dataEnd = Wrap(dataBegin + Held)
  BY <1>1, RingGeometry DEF Held, Wrap
<1> HIDE DEF st, sz
<1>5. st + i \in Cells \ Behind
  BY <1>1, <1>2, <1>3, <1>4, RingGeometry DEF Wrap, Cells, Behind
<1> QED
  BY <1>5 DEF st

\* Before the source is called it may scribble over a block behind dataEnd:
\* two free blocks keep what is held, and what was handed out, out of its way.
LEMMA WorkerChecksKeeps == IInv /\ WorkerChecks => IInv'
<1> SUFFICES ASSUME IInv, WorkerChecks PROVE IInv'
  OBVIOUS
<1> USE RingGeometry DEF IInv, WorkerChecks
<1>1. TypeOK'
  BY DEF TypeOK, Junk, Cells
<1>2. Held' = Held /\ Held \in 0 .. RingSize
  BY HeldType DEF Held
<1>3. Counted'
  BY <1>2 DEF Counted, TypeOK
<1>4. \A c \in Cells \ Behind : buffer'[c] = buffer[c]
  BY DEF TypeOK, Behind
<1>5. CASE worker' = "source"
  <2>1. Held <= RingSize - 2 * BlockSize
    BY <1>2, <1>5 DEF TypeOK
  <2>2. Stored'
    <3> SUFFICES ASSUME NEW i \in 0 .. Held - 1
                 PROVE  /\ buffer'[Wrap(dataBegin + i)] = consumed + i
                        /\ Wrap(dataBegin + i) < BlockSize => buffer'[RingSize + Wrap(dataBegin + i)] = consumed + i
      BY <1>2 DEF Stored, Wrap
    <3> QED
      BY <1>4, <2>1, HeldApart DEF Stored
  <2>3. HandedKept'
    <3> SUFFICES ASSUME given.outcome = "bytes", NEW i \in 0 .. given.size - 1
                 PROVE  buffer'[given.start + i] = consumed - given.size + i
      BY DEF HandedKept, Wrap
    <3> QED
      BY <1>4, <2>1, GivenApart DEF HandedKept
  <2> QED
    BY <1>1, <1>3, <1>5, <2>2, <2>3 DEF Arrived, Ended, Quiet
<1>6. CASE worker' # "source"
  BY <1>1, <1>2, <1>3, <1>6 DEF Stored, HandedKept, Arrived, Ended, Quiet, Wrap, TypeOK
<1> QED
  BY <1>5, <1>6

\* The source fills cells behind dataEnd only.
LEMMA SourceReturnsKeeps ==
  ASSUME IInv, NEW n \in 0 .. BlockSize, SourceReturns(n) PROVE IInv'
<1> USE RingGeometry, SizeAssumption DEF IInv, SourceReturns
<1>1. TypeOK'
  BY DEF TypeOK, Cells
<1>2. Held' = Held /\ Held \in 0 .. RingSize /\ Held <= RingSize - 2 * BlockSize
  BY HeldType DEF Held, Counted
<1>3. Counted'
  BY <1>2 DEF Counted
<1>4. \A c \in Cells \ Behind : buffer'[c] = buffer[c]
  BY DEF TypeOK, Behind
<1>5. Stored'
  <2> SUFFICES ASSUME NEW i \in 0 .. Held - 1
               PROVE  /\ buffer'[Wrap(dataBegin + i)] = consumed + i
                      /\ Wrap(dataBegin + i) < BlockSize => buffer'[RingSize + Wrap(dataBegin + i)] = consumed + i
    BY <1>2 DEF Stored, Wrap
  <2> QED
    BY <1>2, <1>4, HeldApart DEF Stored
<1>6. HandedKept'
  <2> SUFFICES ASSUME given.outcome = "bytes", NEW i \in 0 .. given.size - 1
               PROVE  buffer'[given.start + i] = consumed - given.size + i
    BY DEF HandedKept, Wrap
  <2> QED
    BY <1>2, <1>4, GivenApart DEF HandedKept
<1>7. Arrived'
  <2> SUFFICES ASSUME NEW i \in 0 .. n - 1 PROVE buffer'[dataEnd + i] = produced + i
    BY DEF Arrived
  <2>1. dataEnd + i \in Cells /\ dataEnd + i \in dataEnd .. dataEnd + n - 1
    BY DEF Cells, TypeOK
  <2> QED
    BY <2>1 DEF TypeOK
<1>8. Ended' /\ Quiet'
  BY DEF Ended, Quiet
<1> QED
  BY <1>1, <1>3, <1>5, <1>6, <1>7, <1>8

LEMMA SourceFailsKeeps == IInv /\ SourceFails => IInv'
<1> SUFFICES ASSUME IInv, SourceFails PROVE IInv'
  OBVIOUS
<1> USE RingGeometry, FailAssumption DEF IInv, SourceFails, WakeMain
<1>1. TypeOK'
  BY DEF TypeOK
<1>2. Held' = Held
  BY DEF Held
<1> QED
  BY <1>1, <1>2 DEF Counted, Stored, HandedKept, Arrived, Ended, Quiet, Wrap

\* Which cells the two copies of a commit change, and to what.
ToFront == IF dataEnd + filled < RingSize THEN {} ELSE 0 .. NewEnd - 1
ToMirror == IF dataEnd >= BlockSize THEN {} ELSE RingSize + dataEnd .. RingSize + dataEnd + MirroredBytes - 1
LEMMA CopiedCells ==
  ASSUME TypeOK, NEW c \in Cells
  PROVE  CopyToMirror(CopyToFront(buffer))[c] =
           IF c \in ToFront THEN buffer[RingSize + c]
           ELSE IF c \in ToMirror THEN buffer[c - RingSize] ELSE buffer[c]
<1> USE RingGeometry DEF TypeOK
<1>1. /\ MirroredBytes \in Int /\ NewEnd \in Int
      /\ dataEnd + filled < RingSize => NewEnd = dataEnd + filled
      /\ dataEnd + filled >= RingSize => NewEnd = dataEnd + filled - RingSize
  BY DEF MirroredBytes, NewEnd, Wrap
<1>2. c \in Int /\ c >= 0 /\ c < RingSize + BlockSize
  BY DEF Cells
<1>3. CopyToFront(buffer)[c] = IF c \in ToFront THEN buffer[RingSize + c] ELSE buffer[c]
  BY <1>1, <1>2 DEF CopyToFront, ToFront
<1>4. CASE c \in ToMirror
  <2>1. dataEnd < BlockSize /\ c \in RingSize + dataEnd .. RingSize + dataEnd + MirroredBytes - 1
    BY <1>4 DEF ToMirror
  <2>2. ToFront = {}
    BY <2>1 DEF ToFront
  <2>3. CopyToFront(buffer) = buffer
    BY <2>1 DEF CopyToFront
  <2>4. CopyToMirror(CopyToFront(buffer))[c] = buffer[c - RingSize]
    BY <2>1, <2>3 DEF CopyToMirror
  <2> QED
    BY <1>4, <2>2, <2>4
<1>5. CASE c \notin ToMirror
  <2>1. CopyToMirror(CopyToFront(buffer))[c] = CopyToFront(buffer)[c]
    BY <1>1, <1>2, <1>5 DEF CopyToMirror, ToMirror
  <2> QED
    BY <1>3, <1>5, <2>1
<1> QED
  BY <1>4, <1>5

\* The bytes of a commit end up behind what is held, in the ring and the
\* mirror, and neither copy touches what is held or was handed out.
LEMMA WorkerCommitsKeeps == IInv /\ WorkerCommits => IInv'
<1> SUFFICES ASSUME IInv, WorkerCommits PROVE IInv'
  OBVIOUS
<1> USE RingGeometry, SizeAssumption DEF IInv, WorkerCommits, WakeMain
<1>0. Held \in 0 .. RingSize /\ Held <= RingSize - 2 * BlockSize
  BY HeldType DEF Counted
<1>1. CASE termination \/ filled = 0
  <2>1. TypeOK'
    BY <1>1 DEF TypeOK
  <2>2. Held' = Held
    BY <1>1 DEF Held
  <2> QED
    BY <1>1, <2>1, <2>2 DEF Counted, Stored, HandedKept, Arrived, Ended, Quiet, Wrap
<1>2. CASE ~termination /\ filled # 0
  <2>1. /\ dataEnd \in 0 .. RingSize - 1 /\ dataBegin \in 0 .. RingSize - 1 /\ filled \in 1 .. BlockSize
        /\ NewEnd \in 0 .. RingSize - 1 /\ NewEnd = Wrap(dataEnd + filled)
        /\ dataEnd = Wrap(dataBegin + Held)
    BY <1>0, <1>2 DEF TypeOK, NewEnd, Wrap, Held
  <2>a. /\ dataEnd + filled < RingSize => NewEnd = dataEnd + filled
        /\ dataEnd + filled >= RingSize => NewEnd = dataEnd + filled - RingSize
        /\ dataEnd < BlockSize /\ NewEnd < BlockSize => MirroredBytes = filled
        /\ dataEnd < BlockSize /\ NewEnd >= BlockSize => MirroredBytes = BlockSize - dataEnd
    BY <2>1 DEF MirroredBytes, Wrap
  <2>b. /\ \A c : c \in ToFront <=> dataEnd + filled >= RingSize /\ c \in 0 .. NewEnd - 1
        /\ \A c : c \in ToMirror <=> dataEnd < BlockSize /\ c \in RingSize + dataEnd .. RingSize + dataEnd + MirroredBytes - 1
    BY <2>1 DEF ToFront, ToMirror
  <2>2. \A c \in Cells : buffer'[c] = IF c \in ToFront THEN buffer[RingSize + c]
                                      ELSE IF c \in ToMirror THEN buffer[c - RingSize] ELSE buffer[c]
    BY <1>2, CopiedCells
  <2>3. /\ \A c \in Cells : buffer[c] \in Int
        /\ \A c \in ToFront : RingSize + c \in Cells
        /\ \A c \in ToMirror : c - RingSize \in Cells
    <3>1. \A c \in Cells : buffer[c] \in Int
      BY DEF TypeOK
    <3>2. \A c \in ToFront : RingSize + c \in Cells
      BY <2>1, <2>a, <2>b DEF Cells
    <3>3. \A c \in ToMirror : c - RingSize \in Cells
      BY <2>1, <2>a, <2>b DEF Cells
    <3> QED
      BY <3>1, <3>2, <3>3
  <2>4. TypeOK'
    <3>1. buffer' \in [Cells -> Int]
      <4>1. buffer' = CopyToMirror(CopyToFront(buffer)) /\ DOMAIN buffer = Cells
        BY <1>2 DEF TypeOK
      <4>2. CopyToFront(buffer) = [c \in Cells |-> CopyToFront(buffer)[c]]
        BY <4>1 DEF CopyToFront, TypeOK
      <4>3. buffer' = [c \in Cells |-> buffer'[c]]
        BY <4>1, <4>2 DEF CopyToMirror
      <4> QED
        BY <2>2, <2>3, <4>3
    <3> QED
      BY <1>2, <2>1, <3>1 DEF TypeOK
  <2>5. Held' = Held + filled
    BY <1>0, <1>2, <2>1 DEF Held, Wrap
  <2>6. Counted'
    BY <1>2, <2>1, <2>5 DEF Counted, Arrived, TypeOK
  <2>7. ASSUME NEW i \in 0 .. Held + filled - 1
        PROVE  /\ buffer'[Wrap(dataBegin + i)] = consumed + i
               /\ Wrap(dataBegin + i) < BlockSize => buffer'[RingSize + Wrap(dataBegin + i)] = consumed + i
    <3>1. CASE i < Held
      <4>1. /\ Wrap(dataBegin + i) \in Cells \ (ToFront \cup ToMirror)
            /\ Wrap(dataBegin + i) < BlockSize =>
                 RingSize + Wrap(dataBegin + i) \in Cells \ (ToFront \cup ToMirror)
        BY <1>0, <2>1, <3>1 DEF Wrap, Cells, ToFront, ToMirror, MirroredBytes
      <4>2. /\ buffer[Wrap(dataBegin + i)] = consumed + i
            /\ Wrap(dataBegin + i) < BlockSize => buffer[RingSize + Wrap(dataBegin + i)] = consumed + i
        BY <1>0, <3>1 DEF Stored
      <4> QED
        BY <2>2, <4>1, <4>2
    <3>2. CASE i >= Held
      <4>1. PICK k \in 0 .. filled - 1 : i = Held + k
        <5>1. i - Held \in 0 .. filled - 1 /\ i = Held + (i - Held)
          BY <1>0, <2>1, <3>2
        <5> QED
          BY <5>1
      <4>6. k \in Int /\ 0 <= k /\ k < filled
        BY <2>1
      <4>2. Wrap(dataBegin + i) = Wrap(dataEnd + k)
        BY <1>0, <2>1, <4>1 DEF Wrap
      <4>3. buffer[dataEnd + k] = produced + k /\ produced + k = consumed + i
        BY <1>0, <2>1, <4>1 DEF Arrived, Counted, TypeOK
      <4> HIDE DEF IInv, WorkerCommits, WakeMain
      <4>4. CASE dataEnd + k < RingSize
        <5>1. Wrap(dataBegin + i) = dataEnd + k
          BY <2>1, <4>6, <4>2, <4>4 DEF Wrap
        <5>2. dataEnd + k \in Cells \ (ToFront \cup ToMirror)
          BY <2>1, <2>a, <2>b, <4>6, <4>4 DEF Cells
        <5>3. dataEnd + k < BlockSize => RingSize + (dataEnd + k) \in ToMirror /\ RingSize + (dataEnd + k) \in Cells /\ RingSize + (dataEnd + k) \notin ToFront
          BY <2>1, <2>a, <2>b, <4>6, <4>4 DEF Cells
        <5>4. (RingSize + (dataEnd + k)) - RingSize = dataEnd + k
          BY <2>1
        <5> QED
          BY <2>2, <4>3, <5>1, <5>2, <5>3, <5>4
      <4>5. CASE dataEnd + k >= RingSize
        <5>1. Wrap(dataBegin + i) = dataEnd + k - RingSize /\ RingSize + (dataEnd + k - RingSize) = dataEnd + k
          BY <2>1, <4>6, <4>2, <4>5 DEF Wrap
        <5>2. dataEnd + k - RingSize \in ToFront /\ dataEnd + k - RingSize \in Cells
          BY <2>1, <2>a, <2>b, <4>6, <4>5 DEF Cells
        <5>3. dataEnd + k \in Cells \ (ToFront \cup ToMirror)
          BY <2>1, <2>a, <2>b, <4>6, <4>5 DEF Cells
        <5> QED
          BY <2>2, <4>3, <5>1, <5>2, <5>3
      <4> QED
        BY <2>1, <4>1, <4>4, <4>5
    <3> QED
      BY <1>0, <2>1, <3>1, <3>2
  <2>8. Stored'
    <3>1. \A i \in 0 .. Held + filled - 1 :
            /\ buffer'[Wrap(dataBegin + i)] = consumed + i
            /\ Wrap(dataBegin + i) < BlockSize => buffer'[RingSize + Wrap(dataBegin + i)] = consumed + i
      BY ONLY <2>7
    <3>2. dataBegin' = dataBegin /\ consumed' = consumed
      BY <1>2
    <3> HIDE DEF IInv, WorkerCommits, WakeMain
    <3> SUFFICES ASSUME NEW i \in 0 .. Held' - 1
                 PROVE  /\ buffer'[Wrap(dataBegin + i)] = consumed + i
                        /\ Wrap(dataBegin + i) < BlockSize => buffer'[RingSize + Wrap(dataBegin + i)] = consumed + i
      BY <3>2 DEF Stored, Wrap
    <3>3. i \in 0 .. Held + filled - 1
      BY <1>0, <2>1, <2>5
    <3> QED
      BY <3>1, <3>3
  <2>9. HandedKept'
    <3> SUFFICES ASSUME given.outcome = "bytes", NEW i \in 0 .. given.size - 1
                 PROVE  buffer'[given.start + i] = consumed - given.size + i
      BY <1>2 DEF HandedKept, Wrap
    <3> DEFINE st == given.start
               sz == given.size
    <3>1. /\ st \in 0 .. RingSize - 1 /\ sz \in 0 .. BlockSize /\ Wrap(st + sz) = dataBegin
          /\ i \in 0 .. sz - 1 /\ buffer[st + i] = consumed - sz + i
      BY OutcomeTypes DEF TypeOK, HandedKept
    <3> HIDE DEF st, sz
    <3>2. st + i \in Cells \ (ToFront \cup ToMirror)
      BY <1>0, <2>1, <3>1 DEF Wrap, Cells, ToFront, ToMirror, MirroredBytes
    <3>3. buffer'[st + i] = consumed - sz + i
      BY <2>2, <3>1, <3>2
    <3> QED
      BY <3>3 DEF st, sz
  <2>12. Arrived' /\ Ended' /\ Quiet'
    <3>1. ~eof \/ failure
      BY <1>2, <2>1 DEF Arrived, Ended, TypeOK
    <3> QED
      BY <1>2, <3>1 DEF Arrived, Ended, Quiet
  <2> QED
    BY <2>4, <2>6, <2>8, <2>9, <2>12
<1> QED
  BY <1>1, <1>2

\* A read moves dataBegin over the bytes it hands out, which are where Stored
\* says: in the ring, or in the mirror when the read crosses the ring's end.
LEMMA MainChecksKeeps == IInv /\ MainChecks => IInv'
<1> SUFFICES ASSUME IInv, MainChecks PROVE IInv'
  OBVIOUS
<1> USE RingGeometry, SizeAssumption DEF IInv, MainChecks, WakeWorker
<1>0. Held \in 0 .. RingSize
  BY HeldType
<1>1. CASE failure \/ Held < size
  <2>1. TypeOK'
    <3>1. Held < size => ~(Held >= size)
      BY <1>0 DEF TypeOK
    <3>2. /\ UNCHANGED <<buffer, dataBegin, dataEnd, produced, consumed, termination, failure, worker, filled, size>>
          /\ main' \in {"idle", "falling"} /\ eof' \in {TRUE, eof}
          /\ given' \in {given, [outcome |-> "threw", start |-> 0, size |-> 0], [outcome |-> "end", start |-> 0, size |-> 0]}
      BY <1>1, <3>1
    <3>3. given' \in Givens
      BY <3>2, OutcomeTypes DEF TypeOK
    <3> HIDE DEF IInv, MainChecks
    <3> QED
      BY <3>2, <3>3 DEF TypeOK, IInv
  <2>2. Held' = Held /\ UNCHANGED <<buffer, dataBegin, consumed>> /\ given'.outcome # "bytes"
    <3>1. Held < size => ~(Held >= size)
      BY <1>0 DEF TypeOK
    <3>2. given.outcome # "bytes"
      BY DEF Quiet
    <3> QED
      BY <1>1, <3>1, <3>2 DEF Held
  <2>3. Ended' /\ Quiet'
    BY <1>0, <1>1 DEF Ended, Quiet, TypeOK
  <2> QED
    BY <2>1, <2>2, <2>3 DEF Counted, Stored, HandedKept, Arrived, Wrap
<1>2. CASE ~failure /\ Held >= size
  <2>1. /\ dataBegin \in 0 .. RingSize - 1 /\ size \in 0 .. BlockSize /\ consumed \in Nat /\ produced \in Nat
        /\ dataBegin' = Wrap(dataBegin + size) /\ consumed' = consumed + size
        /\ given' = [outcome |-> "bytes", start |-> dataBegin, size |-> size]
        /\ UNCHANGED <<buffer, dataEnd, produced, filled>>
    BY <1>2 DEF TypeOK
  <2>2. TypeOK'
    <3>0. dataBegin \in Nat /\ size \in Nat
      BY <2>1
    <3>1. given' \in Givens
      BY ONLY <2>1, <3>0, OutcomeTypes
    <3> QED
      BY <1>2, <2>1, <3>1 DEF TypeOK, Wrap
  <2>3. Held' = Held - size
    BY <1>0, <1>2, <2>1, <2>2 DEF Held, Wrap, TypeOK, Counted
  <2>4. Counted'
    <3>1. worker' \in {"source", "commit"} => worker \in {"source", "commit"}
      BY <1>2
    <3> QED
      BY <1>0, <2>1, <2>3, <3>1 DEF Counted
  <2>5. Stored'
    <3>1. ASSUME NEW i \in 0 .. Held' - 1
          PROVE  Wrap(dataBegin' + i) = Wrap(dataBegin + (size + i)) /\ size + i \in 0 .. Held - 1
      BY <1>0, <1>2, <2>1, <2>3 DEF Wrap
    <3> HIDE DEF IInv, MainChecks, WakeWorker
    <3> SUFFICES ASSUME NEW i \in 0 .. Held' - 1
                 PROVE  /\ buffer[Wrap(dataBegin' + i)] = consumed' + i
                        /\ Wrap(dataBegin' + i) < BlockSize => buffer[RingSize + Wrap(dataBegin' + i)] = consumed' + i
      BY <2>1 DEF Stored, Wrap
    <3>2. /\ buffer[Wrap(dataBegin + (size + i))] = consumed + (size + i)
          /\ Wrap(dataBegin + (size + i)) < BlockSize => buffer[RingSize + Wrap(dataBegin + (size + i))] = consumed + (size + i)
      BY <3>1 DEF Stored, IInv
    <3>3. consumed' + i = consumed + (size + i)
      BY <1>0, <2>1, <2>3
    <3> QED
      BY <3>1, <3>2, <3>3
  <2>6. HandedKept'
    <3>1. ASSUME NEW i \in 0 .. size - 1
          PROVE  buffer[dataBegin + i] = consumed + i
      <4>1. /\ i \in 0 .. Held - 1
            /\ dataBegin + i < RingSize => Wrap(dataBegin + i) = dataBegin + i
            /\ dataBegin + i >= RingSize => /\ Wrap(dataBegin + i) < BlockSize
                                            /\ RingSize + Wrap(dataBegin + i) = dataBegin + i
        BY <1>0, <1>2, <2>1 DEF Wrap
      <4>2. dataBegin + i < RingSize \/ dataBegin + i >= RingSize
        BY <2>1
      <4> QED
        BY <4>1, <4>2 DEF Stored
    <3>2. consumed' - size = consumed
      BY <2>1
    <3>3. Wrap(dataBegin + size) \in Int /\ given'.start = dataBegin /\ given'.size = size /\ dataBegin < RingSize /\ size <= BlockSize
      BY <2>1 DEF Wrap
    <3> HIDE DEF IInv, MainChecks, WakeWorker
    <3>4. \A i \in 0 .. size - 1 : buffer[dataBegin + i] = consumed' - size + i
      BY <3>1, <3>2
    <3> QED
      BY <2>1, <3>3, <3>4 DEF HandedKept, Wrap
  <2>7. Arrived' /\ Ended' /\ Quiet'
    BY <1>2, <2>1 DEF Arrived, Ended, Quiet
  <2> QED
    BY <2>2, <2>4, <2>5, <2>6, <2>7
<1> QED
  BY <1>0, <1>1, <1>2 DEF TypeOK

\* The other steps touch neither the ring nor what was counted.
LEMMA OthersKeep ==
  IInv /\ (MainSleeps \/ Joined \/ CallerStep \/ SpuriousWakeup \/ UNCHANGED readerVars) => IInv'
<1> SUFFICES ASSUME IInv, MainSleeps \/ Joined \/ CallerStep \/ SpuriousWakeup \/ UNCHANGED readerVars
             PROVE  IInv'
  OBVIOUS
<1> USE RingGeometry DEF IInv, MainSleeps, Joined, CallerStep, Read, Destroy, SpuriousWakeup, WakeWorker
<1>1. TypeOK'
  <2>1. given' \in Givens
    BY OutcomeTypes DEF TypeOK
  <2> QED
    BY <2>1 DEF TypeOK
<1>2. /\ UNCHANGED <<buffer, dataBegin, dataEnd, produced, consumed, filled, eof, failure>>
      /\ given' = given \/ given' = Nothing
      /\ worker' \in {"source", "commit"} => worker' = worker
  OBVIOUS
<1>3. Held' = Held
  BY <1>2 DEF Held
<1>4. Counted' /\ Stored' /\ Arrived' /\ Ended'
  BY <1>2, <1>3 DEF Counted, Stored, Arrived, Ended, Wrap
<1>5. HandedKept' /\ Quiet'
  BY <1>2 DEF HandedKept, Quiet, Wrap
<1> QED
  BY <1>1, <1>4, <1>5

\* The invariant holds in every state of every reader, whatever the block
\* size, the stream and the schedule.
THEOREM ReaderInvariant == ReaderSpec => []IInv
<1>1. IInv /\ [ReaderNext]_readerVars => IInv'
  BY WorkerChecksKeeps, SourceReturnsKeeps, SourceFailsKeeps, WorkerCommitsKeeps, MainChecksKeeps, OthersKeep
  DEF ReaderNext, WorkerStep, SourceAnswers, MainStep
<1> QED
  BY <1>1, ReaderInitHolds, PTL DEF ReaderSpec

(***************************************************************************)
(* The refinement.                                                         *)
(***************************************************************************)
\* Until the caller reads again, it sees the same bytes through its pointer.
LEMMA HandedIsStable ==
  ASSUME IInv, IInv', given' = given, given.outcome = "bytes" => consumed' = consumed
  PROVE  Handed' = Handed
<1>1. given.size \in Nat
  BY OutcomeTypes DEF IInv, TypeOK
<1>2. ASSUME NEW i \in 0 .. given.size - 1, given.outcome = "bytes"
      PROVE  buffer'[given.start + i] = buffer[given.start + i]
  BY <1>2 DEF IInv, HandedKept, TypeOK
<1>3. CASE given.outcome = "bytes"
  BY <1>2, <1>3 DEF Handed
<1>4. CASE given.outcome # "bytes"
  BY <1>4 DEF Handed, IInv, HandedKept
<1> QED
  BY <1>3, <1>4

\* What a reader without bytes holds: an outcome.
LEMMA HandedNothing ==
  ASSUME given.size = 0 PROVE Handed = Stream!Only(given.outcome)
<1>1. 0 .. given.size - 1 = {}
  OBVIOUS
<1>2. [i \in 0 .. given.size - 1 |-> buffer[given.start + i]] = [i \in {} |-> i]
  BY <1>1
<1> QED
  BY <1>2 DEF Handed, Stream!Only

LEMMA InitRefines == ReaderInit => Stream!Init
<1> SUFFICES ASSUME ReaderInit PROVE Stream!Init
  OBVIOUS
<1>1. given = Nothing /\ main = "idle" /\ size = 0 /\ consumed = 0
  BY DEF ReaderInit
<1> QED
  BY <1>1, HandedNothing DEF Stream!Init, Phase

\* Only a read's checks hand something out; the worker's steps are invisible.
LEMMA WorkerRefines ==
  ASSUME IInv, IInv', WorkerStep \/ MainSleeps \/ Joined \/ SpuriousWakeup \/ UNCHANGED readerVars
  PROVE  UNCHANGED Stream!streamVars
<1>1. UNCHANGED <<given, consumed, size>>
  BY DEF WorkerStep, WorkerChecks, SourceAnswers, SourceReturns, SourceFails, WorkerCommits, MainSleeps, Joined, SpuriousWakeup
<1>2. Phase' = Phase
  BY DEF WorkerStep, WorkerChecks, SourceAnswers, SourceReturns, SourceFails, WorkerCommits, WakeMain,
         MainSleeps, Joined, SpuriousWakeup, Phase
<1>3. Handed' = Handed
  BY <1>1, HandedIsStable
<1> QED
  BY <1>1, <1>2, <1>3 DEF Stream!streamVars

LEMMA CallerRefines ==
  ASSUME IInv, IInv', CallerStep PROVE Stream!Ask \/ Stream!Close
<1>1. given' = Nothing /\ consumed' = consumed /\ main = "idle"
  BY DEF CallerStep, Read, Destroy
<1>2. Handed' = Stream!Only("nothing")
  <2>1. given.size = 0 => Handed = Stream!Only(given.outcome)
    BY HandedNothing
  <2>2. (given.size = 0 => Handed = Stream!Only(given.outcome))'
    <3>1. [i \in 0 .. given'.size - 1 |-> buffer'[given'.start + i]] = [i \in {} |-> i]
      BY <1>1
    <3> QED
      BY <3>1 DEF Handed, Stream!Only
  <2> QED
    BY <1>1, <2>2
<1>3. CASE \E s \in 0 .. BlockSize : Read(s)
  BY <1>1, <1>2, <1>3 DEF Read, Stream!Ask, Phase
<1>4. CASE Destroy
  BY <1>1, <1>2, <1>4 DEF Destroy, Stream!Close, Phase
<1> QED
  BY <1>3, <1>4 DEF CallerStep

LEMMA MainChecksRefines ==
  ASSUME IInv, IInv', MainChecks
  PROVE  Stream!HandOut \/ Stream!ReportEnd \/ Stream!Throw \/ UNCHANGED Stream!streamVars
<1> USE RingGeometry, SizeAssumption
<1>0. Held \in 0 .. RingSize /\ Held = produced - consumed /\ produced <= StreamLength
      /\ size \in 0 .. BlockSize /\ consumed \in Nat /\ produced \in Nat /\ size' = size /\ main = "check" /\ Phase = "asked"
  BY HeldType DEF IInv, TypeOK, Counted, MainChecks, Phase
<1>1. ASSUME NEW o, given' = [outcome |-> o, start |-> 0, size |-> 0]
      PROVE  Handed' = Stream!Only(o)
  <2>1. [i \in 0 .. given'.size - 1 |-> buffer'[given'.start + i]] = [i \in {} |-> i]
    BY <1>1
  <2> QED
    BY <1>1, <2>1 DEF Handed, Stream!Only
<1>2. CASE failure
  <2>1. /\ given' = [outcome |-> "threw", start |-> 0, size |-> 0] /\ consumed' = consumed /\ Phase' = "idle"
        /\ SourceMayFail
    BY <1>2 DEF MainChecks, IInv, Ended, Phase
  <2> QED
    BY <1>0, <1>1, <2>1 DEF Stream!Throw
<1>3. CASE ~failure /\ Held >= size
  <2>1. /\ given' = [outcome |-> "bytes", start |-> dataBegin, size |-> size]
        /\ consumed' = consumed + size /\ Phase' = "idle"
    BY <1>3 DEF MainChecks, Phase
  <2>2. \A i \in 0 .. size - 1 : buffer'[dataBegin + i] = consumed + i
    <3>1. \A i \in 0 .. size - 1 : buffer'[dataBegin + i] = consumed' - size + i
      BY <2>1 DEF IInv, HandedKept
    <3> QED
      BY <1>0, <2>1, <3>1
  <2>3. Handed' = Stream!Bytes(consumed, size)
    BY <2>1, <2>2 DEF Handed, Stream!Bytes
  <2>4. consumed + size <= StreamLength
    BY <1>0, <1>3
  <2> QED
    BY <1>0, <2>1, <2>3, <2>4 DEF Stream!HandOut
<1>4. CASE ~failure /\ Held < size /\ eof
  <2>1. ~(Held >= size)
    BY <1>0, <1>4
  <2>2. /\ given' = [outcome |-> "end", start |-> 0, size |-> 0] /\ consumed' = consumed /\ Phase' = "idle"
        /\ produced = StreamLength
    BY <1>4, <2>1 DEF MainChecks, IInv, Ended, Phase
  <2>3. consumed + size > StreamLength
    BY <1>0, <1>4, <2>2
  <2> QED
    BY <1>0, <1>1, <2>2, <2>3 DEF Stream!ReportEnd
<1>5. CASE ~failure /\ Held < size /\ ~eof
  <2>1. ~(Held >= size)
    BY <1>0, <1>5
  <2>2. UNCHANGED <<given, consumed, size>> /\ Phase' = Phase
    BY <1>5, <2>1 DEF MainChecks, Phase
  <2>3. Handed' = Handed
    BY <2>2, HandedIsStable
  <2> QED
    BY <2>2, <2>3 DEF Stream!streamVars
<1> QED
  BY <1>0, <1>2, <1>3, <1>4, <1>5

\* The reader is a byte stream for its caller: threads, ring and mirror show
\* in nothing the caller can observe.
THEOREM ReaderImplementsStream == ReaderSpec => ImplementsByteStream
<1>1. IInv /\ IInv' /\ [ReaderNext]_readerVars => [Stream!Next]_(Stream!streamVars)
  BY WorkerRefines, CallerRefines, MainChecksRefines DEF ReaderNext, MainStep, Stream!Next
<1> QED
  BY <1>1, InitRefines, ReaderInvariant, PTL DEF ReaderSpec, ImplementsByteStream, Stream!Spec
=============================================================================
