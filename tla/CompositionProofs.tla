-------------------------- MODULE CompositionProofs --------------------------
(***************************************************************************)
(* Proofs about the composition of a profile, for a library of any size,   *)
(* chains of bundles of any length and settings nested to any depth: which *)
(* pipelines run, which checks the merge gate asks for, that no override   *)
(* is dropped and that none leads below the baseline.                      *)
(*                                                                         *)
(* The lemmas establish, in this order: paths of keys; the subtrees of a   *)
(* tree; that DeepMerge satisfies the recursive equations of deep_merge;   *)
(* that a recursive definition over an interval denotes a function, and so *)
(* what a chain of bundles amounts to; the checks at the merge gate; the   *)
(* lists of pipelines.                                                     *)
(***************************************************************************)
EXTENDS Composition, TLAPS, WellFoundedInduction, SequenceTheorems, FiniteSetTheorems

(* A non-empty set of numbers has a least one.                             *)
LEMMA LeastNumber ==
    ASSUME NEW S \in SUBSET Nat, S # {}
    PROVE  \E m \in S : \A k \in S : m <= k
<1>. DEFINE Less == OpToRel(<, Nat)
<1>1. \A m, n \in Nat : m < n => <<m, n>> \in Less
  BY DEF OpToRel
<1>2. IsWellFoundedOn(Less, Nat)
  BY NatLessThanWellFounded
<1>. HIDE DEF Less
<1>3. PICK n \in S : \A m \in S : ~ (<<m, n>> \in Less)
  BY <1>2, WFMin
<1>4. ASSUME NEW m \in S PROVE n <= m
  <2>1. m \in Nat /\ n \in Nat
    OBVIOUS
  <2>2. ~ (m < n)
    BY <1>1, <1>3, <2>1, Zenon
  <2>. QED
    BY <2>1, <2>2
<1>. QED
  BY <1>4

-----------------------------------------------------------------------------
(* Paths of keys.                                                          *)
Key == STRING
Path == Seq(Key)

(* A prefix agrees with the path as far as it goes.                        *)
LEMMA PrefixPoints ==
    ASSUME NEW q \in Path, NEW p \in Path
    PROVE  IsPrefix(q, p) <=> Len(q) <= Len(p) /\ \A i \in 1..Len(q) : q[i] = p[i]
<1>1. /\ Len(q) \in Nat /\ Len(p) \in Nat
      /\ \A i \in 1..Len(p) : p[i] \in Key
  BY LenProperties, ElementOfSeq DEF Path
<1>2. CASE Len(q) <= Len(p)
  <2>. DEFINE s == SubSeq(p, 1, Len(q))
              t == SubSeq(q, 1, Len(q))
  <2>1. s \in Path /\ Len(s) = Len(q) /\ \A i \in 1..Len(q) : s[i] = p[i]
    <3>1. \A i \in 1..Len(q) : p[i] \in Key
      BY <1>1, <1>2
    <3>2. /\ s \in Seq(Key)
          /\ Len(s) = IF 1 <= Len(q) THEN Len(q) - 1 + 1 ELSE 0
          /\ \A i \in 1..Len(q) - 1 + 1 : s[i] = p[1 + i - 1]
      BY <1>1, <3>1, SubSeqProperties
    <3>. HIDE DEF s
    <3>. QED
      BY <1>1, <3>2 DEF Path
  <2>2. t = q
    BY SubSeqFull DEF Path
  <2>3. t = s <=> \A i \in 1..Len(q) : q[i] = p[i]
    <3>. HIDE DEF s
    <3>1. (\A i \in 1..Len(q) : q[i] = p[i]) => q = s
      BY <1>1, <2>1, SeqEqual DEF Path
    <3>. QED
      BY <2>1, <2>2, <3>1
  <2>. QED
    BY <1>2, <2>3 DEF IsPrefix
<1>3. CASE ~(Len(q) <= Len(p))
  BY <1>3 DEF IsPrefix
<1>. QED
  BY <1>2, <1>3

(* A key before a path.                                                    *)
LEMMA ConsProperties ==
    ASSUME NEW key \in Key, NEW p \in Path
    PROVE  /\ <<key>> \o p \in Path /\ <<key>> \in Path
           /\ Len(<<key>> \o p) = Len(p) + 1 /\ Len(p) \in Nat
           /\ (<<key>> \o p)[1] = key
           /\ \A i \in 1..Len(p) : (<<key>> \o p)[i + 1] = p[i]
           /\ <<key>> \o p # <<>>
           /\ Head(<<key>> \o p) = key /\ Tail(<<key>> \o p) = p
<1>. DEFINE c == <<key>> \o p
<1>1. <<key>> \in Seq(Key) /\ Len(<<key>>) = 1 /\ <<key>>[1] = key /\ Len(p) \in Nat
  BY LenProperties DEF Path
<1>2. /\ c \in Seq(Key) /\ Len(c) = 1 + Len(p)
      /\ \A i \in 1..1 + Len(p) : c[i] = IF i <= 1 THEN key ELSE p[i - 1]
  <2>1. /\ c \in Seq(Key) /\ Len(c) = Len(<<key>>) + Len(p)
        /\ \A i \in 1..Len(<<key>>) + Len(p) :
              c[i] = IF i <= Len(<<key>>) THEN <<key>>[i] ELSE p[i - Len(<<key>>)]
    BY <1>1, ConcatProperties DEF Path
  <2>. HIDE DEF c
  <2>. QED
    BY <1>1, <2>1
<1>. HIDE DEF c
<1>3. c # <<>> /\ c[1] = key
  BY <1>1, <1>2
<1>4. Head(c) = key
  BY <1>2, <1>3
<1>5. \A i \in 1..Len(p) : c[i + 1] = p[i]
  BY <1>1, <1>2
<1>6. Tail(c) = p
  <2>1. /\ Tail(c) \in Seq(Key) /\ Len(Tail(c)) = Len(c) - 1
        /\ \A i \in 1..Len(Tail(c)) : Tail(c)[i] = c[i + 1]
    BY <1>2, <1>3, HeadTailProperties
  <2>. QED
    BY <1>1, <1>2, <1>5, <2>1, SeqEqual DEF Path
<1>. QED
  BY <1>1, <1>2, <1>3, <1>4, <1>5, <1>6 DEF Path, c

(* A path that is not the root is a key before a path.                     *)
LEMMA ConsSplit ==
    ASSUME NEW p \in Path, p # <<>>
    PROVE  /\ Head(p) \in Key /\ Tail(p) \in Path /\ p = <<Head(p)>> \o Tail(p)
           /\ p[1] = Head(p) /\ Len(p) \in Nat \ {0} /\ Len(Tail(p)) = Len(p) - 1
<1>1. /\ Head(p) \in Key /\ Tail(p) \in Path /\ Len(Tail(p)) = Len(p) - 1
      /\ \A i \in 1..Len(Tail(p)) : Tail(p)[i] = p[i + 1]
  BY HeadTailProperties DEF Path
<1>2. Len(p) \in Nat \ {0} /\ p[1] = Head(p)
  BY EmptySeq DEF Path
<1>. DEFINE c == <<Head(p)>> \o Tail(p)
<1>3. /\ c \in Path /\ Len(c) = Len(Tail(p)) + 1 /\ c[1] = Head(p)
      /\ \A i \in 1..Len(Tail(p)) : c[i + 1] = Tail(p)[i]
  BY <1>1, ConsProperties
<1>4. Len(c) = Len(p)
  BY <1>1, <1>2, <1>3
<1>. HIDE DEF c
<1>5. ASSUME NEW i \in 1..Len(c) PROVE c[i] = p[i]
  <2>1. CASE i = 1
    BY <1>2, <1>3, <2>1
  <2>2. CASE i # 1
    <3>1. i - 1 \in 1..Len(Tail(p))
      BY <1>1, <1>2, <1>4, <2>2
    <3>2. c[i - 1 + 1] = Tail(p)[i - 1] /\ Tail(p)[i - 1] = p[i - 1 + 1] /\ i - 1 + 1 = i
      BY <1>1, <1>3, <3>1
    <3>. QED
      BY <3>2
  <2>. QED
    BY <2>1, <2>2
<1>6. c = p
  BY <1>3, <1>4, <1>5, SeqEqual DEF Path
<1>. QED
  BY <1>1, <1>2, <1>6 DEF c

(* The same key before two paths leaves prefixes prefixes.                 *)
LEMMA ConsPrefix ==
    ASSUME NEW key \in Key, NEW q \in Path, NEW p \in Path
    PROVE  IsPrefix(<<key>> \o q, <<key>> \o p) <=> IsPrefix(q, p)
<1>. DEFINE cq == <<key>> \o q
            cp == <<key>> \o p
<1>1. /\ cq \in Path /\ Len(cq) = Len(q) + 1 /\ Len(q) \in Nat /\ cq[1] = key
      /\ \A i \in 1..Len(q) : cq[i + 1] = q[i]
  BY ConsProperties
<1>2. /\ cp \in Path /\ Len(cp) = Len(p) + 1 /\ Len(p) \in Nat /\ cp[1] = key
      /\ \A i \in 1..Len(p) : cp[i + 1] = p[i]
  BY ConsProperties
<1>. HIDE DEF cq, cp
<1>3. IsPrefix(cq, cp) <=> Len(cq) <= Len(cp) /\ \A i \in 1..Len(cq) : cq[i] = cp[i]
  BY <1>1, <1>2, PrefixPoints
<1>4. IsPrefix(q, p) <=> Len(q) <= Len(p) /\ \A i \in 1..Len(q) : q[i] = p[i]
  BY PrefixPoints
<1>5. ASSUME IsPrefix(cq, cp) PROVE IsPrefix(q, p)
  <2>1. Len(q) <= Len(p)
    BY <1>1, <1>2, <1>3, <1>5
  <2>2. ASSUME NEW i \in 1..Len(q) PROVE q[i] = p[i]
    <3>1. i + 1 \in 1..Len(cq) /\ i \in 1..Len(p)
      BY <1>1, <1>2, <2>1
    <3>2. cq[i + 1] = cp[i + 1]
      BY <1>3, <1>5, <3>1
    <3>. QED
      BY <1>1, <1>2, <3>1, <3>2
  <2>. QED
    BY <1>4, <2>1, <2>2
<1>6. ASSUME IsPrefix(q, p) PROVE IsPrefix(cq, cp)
  <2>1. Len(q) <= Len(p) /\ \A i \in 1..Len(q) : q[i] = p[i]
    BY <1>4, <1>6
  <2>2. ASSUME NEW i \in 1..Len(cq) PROVE cq[i] = cp[i]
    <3>1. CASE i = 1
      BY <1>1, <1>2, <3>1
    <3>2. CASE i # 1
      <4>1. i - 1 \in 1..Len(q) /\ i - 1 \in 1..Len(p)
        BY <1>1, <1>2, <2>1, <3>2
      <4>2. cq[i - 1 + 1] = q[i - 1] /\ cp[i - 1 + 1] = p[i - 1] /\ i - 1 + 1 = i
        BY <1>1, <1>2, <4>1
      <4>. QED
        BY <2>1, <4>1, <4>2
    <3>. QED
      BY <3>1, <3>2
  <2>3. Len(cq) <= Len(cp)
    BY <1>1, <1>2, <2>1
  <2>. QED
    BY <1>3, <2>2, <2>3
<1>. QED
  BY <1>5, <1>6 DEF cq, cp

(* The path above.                                                         *)
LEMMA FrontProperties ==
    ASSUME NEW p \in Path, p # <<>>
    PROVE  /\ Front(p) \in Path /\ Len(Front(p)) = Len(p) - 1 /\ Len(p) \in Nat \ {0}
           /\ \A i \in 1..Len(p) - 1 : Front(p)[i] = p[i]
<1>1. Len(p) \in Nat \ {0} /\ \A i \in 1..Len(p) : p[i] \in Key
  BY EmptySeq, ElementOfSeq DEF Path
<1>2. \A i \in 1..Len(p) - 1 : p[i] \in Key
  BY <1>1
<1>. DEFINE f == SubSeq(p, 1, Len(p) - 1)
<1>3. /\ f \in Seq(Key)
      /\ Len(f) = IF 1 <= Len(p) - 1 THEN Len(p) - 1 - 1 + 1 ELSE 0
      /\ \A i \in 1..Len(p) - 1 - 1 + 1 : f[i] = p[1 + i - 1]
  BY <1>1, <1>2, SubSeqProperties
<1>. HIDE DEF f
<1>4. Len(f) = Len(p) - 1
  <2>1. Len(f) = IF 1 <= Len(p) - 1 THEN Len(p) - 1 - 1 + 1 ELSE 0
    BY <1>3
  <2>2. Len(p) \in Nat /\ Len(p) # 0
    BY <1>1
  <2>. QED
    BY <2>1, <2>2, SMTT(30)
<1>5. ASSUME NEW i \in 1..Len(p) - 1 PROVE f[i] = p[i]
  <2>1. i \in 1..Len(p) - 1 - 1 + 1 /\ 1 + i - 1 = i
    BY <1>1
  <2>. QED
    BY <1>3, <2>1
<1>6. f = Front(p)
  BY DEF f, Front
<1>. QED
  BY <1>1, <1>3, <1>4, <1>5, <1>6 DEF Path

(* Going up commutes with going below a key.                               *)
LEMMA FrontOfCons ==
    ASSUME NEW key \in Key, NEW p \in Path
    PROVE  /\ p = <<>> => Front(<<key>> \o p) = <<>>
           /\ p # <<>> => Front(<<key>> \o p) = <<key>> \o Front(p)
<1>. DEFINE c == <<key>> \o p
<1>1. /\ c \in Path /\ c # <<>> /\ Len(c) = Len(p) + 1 /\ Len(p) \in Nat /\ c[1] = key
      /\ \A i \in 1..Len(p) : c[i + 1] = p[i]
  BY ConsProperties
<1>. HIDE DEF c
<1>2. /\ Front(c) \in Path /\ Len(Front(c)) = Len(p)
      /\ \A i \in 1..Len(p) : Front(c)[i] = c[i]
  <2>1. /\ Front(c) \in Path /\ Len(Front(c)) = Len(c) - 1
        /\ \A i \in 1..Len(c) - 1 : Front(c)[i] = c[i]
    BY <1>1, FrontProperties
  <2>2. Len(c) - 1 = Len(p)
    BY <1>1
  <2>. QED
    BY <2>1, <2>2
<1>3. ASSUME p = <<>> PROVE Front(c) = <<>>
  <2>1. Len(Front(c)) = 0
    BY <1>2, <1>3
  <2>. QED
    BY <1>2, <2>1, EmptySeq DEF Path
<1>4. ASSUME p # <<>> PROVE Front(c) = <<key>> \o Front(p)
  <2>1. /\ Front(p) \in Path /\ Len(Front(p)) = Len(p) - 1 /\ Len(p) \in Nat \ {0}
        /\ \A i \in 1..Len(p) - 1 : Front(p)[i] = p[i]
    BY <1>4, FrontProperties
  <2>. DEFINE d == <<key>> \o Front(p)
  <2>2. /\ d \in Path /\ Len(d) = Len(p) /\ d[1] = key
        /\ \A i \in 1..Len(p) - 1 : d[i + 1] = Front(p)[i]
    BY <2>1, ConsProperties
  <2>. HIDE DEF d
  <2>3. ASSUME NEW i \in 1..Len(p) PROVE Front(c)[i] = d[i]
    <3>1. CASE i = 1
      BY <1>1, <1>2, <2>1, <2>2, <3>1
    <3>2. CASE i # 1
      <4>1. i - 1 \in 1..Len(p) - 1 /\ i - 1 \in 1..Len(p) /\ i - 1 + 1 = i
        BY <2>1, <3>2
      <4>2. c[i - 1 + 1] = p[i - 1] /\ d[i - 1 + 1] = p[i - 1]
        BY <1>1, <2>1, <2>2, <4>1
      <4>. QED
        BY <1>2, <4>1, <4>2
    <3>. QED
      BY <3>1, <3>2
  <2>4. Front(c) = d
    BY <1>2, <2>2, <2>3, SeqEqual DEF Path
  <2>. QED
    BY <2>4 DEF d
<1>. QED
  BY <1>3, <1>4 DEF c

(* The path above is a prefix, and so are its prefixes.                    *)
LEMMA FrontIsPrefix ==
    ASSUME NEW p \in Path, p # <<>>
    PROVE  /\ IsPrefix(Front(p), p)
           /\ \A q \in Path : IsPrefix(q, Front(p)) => IsPrefix(q, p)
<1>. DEFINE f == Front(p)
<1>1. /\ f \in Path /\ Len(f) = Len(p) - 1 /\ Len(p) \in Nat \ {0}
      /\ \A i \in 1..Len(f) : f[i] = p[i]
  BY FrontProperties
<1>. HIDE DEF f
<1>2. IsPrefix(f, p)
  BY <1>1, PrefixPoints
<1>3. ASSUME NEW q \in Path, IsPrefix(q, f) PROVE IsPrefix(q, p)
  <2>1. Len(q) <= Len(f) /\ (\A i \in 1..Len(q) : q[i] = f[i]) /\ Len(q) \in Nat
    BY <1>1, <1>3, PrefixPoints, LenProperties DEF Path
  <2>2. Len(q) <= Len(p) /\ \A i \in 1..Len(q) : i \in 1..Len(f)
    BY <1>1, <2>1
  <2>3. \A i \in 1..Len(q) : q[i] = p[i]
    BY <1>1, <2>1, <2>2
  <2>. QED
    BY <2>2, <2>3, PrefixPoints
<1>. QED
  BY <1>2, <1>3 DEF f

(* The root is above every path, and nothing is above the root.            *)
LEMMA RootIsPrefix ==
    ASSUME NEW p \in Path
    PROVE  /\ <<>> \in Path /\ IsPrefix(<<>>, p)
           /\ IsPrefix(p, p) /\ (IsPrefix(p, <<>>) => p = <<>>)
<1>1. <<>> \in Path /\ Len(<<>>) = 0 /\ Len(p) \in Nat
  BY EmptySeq, LenProperties DEF Path
<1>2. IsPrefix(<<>>, p) /\ IsPrefix(p, p)
  BY <1>1, PrefixPoints
<1>3. IsPrefix(p, <<>>) => Len(p) <= 0
  BY <1>1, PrefixPoints
<1>4. p # <<>> => Len(p) # 0
  BY EmptySeq DEF Path
<1>. QED
  BY <1>1, <1>2, <1>3, <1>4

-----------------------------------------------------------------------------
(* Trees.                                                                  *)

(* A tree over opaque keys.                                                *)
LEMMA TreePaths ==
    ASSUME NEW t, IsTree(t)
    PROVE  /\ DOMAIN t \subseteq Path /\ <<>> \in DOMAIN t
           /\ \A p \in DOMAIN t : p # <<>> => Front(p) \in DOMAIN t /\ t[Front(p)].kind = "map"
           /\ \A p \in DOMAIN t : IsNode(t[p])
  BY DEF IsTree, Path, Key

(* The paths of one key.                                                   *)
LEMMA SinglePath ==
    ASSUME NEW p \in Path
    PROVE  /\ Len(p) = 1 => p[1] \in Key /\ p = <<p[1]>>
           /\ \A key : p = <<key>> => key \in Key /\ Len(p) = 1 /\ p[1] = key
<1>1. ASSUME Len(p) = 1 PROVE p[1] \in Key /\ p = <<p[1]>>
  <2>1. p[1] \in Key
    BY <1>1, ElementOfSeq DEF Path
  <2>2. <<p[1]>> \in Seq(Key) /\ Len(<<p[1]>>) = 1 /\ <<p[1]>>[1] = p[1]
    BY <2>1
  <2>3. \A i \in 1..Len(p) : p[i] = <<p[1]>>[i]
    BY <1>1, <2>2
  <2>. QED
    BY <1>1, <2>1, <2>2, <2>3, SeqEqual DEF Path
<1>2. ASSUME NEW key, p = <<key>> PROVE key \in Key /\ Len(p) = 1 /\ p[1] = key
  <2>1. Len(p) = 1 /\ p[1] = key
    BY <1>2
  <2>. QED
    BY <2>1, ElementOfSeq DEF Path
<1>. QED
  BY <1>1, <1>2

(* The keys of a tree are its paths of one key.                            *)
LEMMA KeysAt ==
    ASSUME NEW t, IsTree(t)
    PROVE  \A key : /\ key \in Keys(t) <=> <<key>> \in DOMAIN t
                    /\ <<key>> \in DOMAIN t => key \in Key
<1>1. ASSUME NEW key, <<key>> \in DOMAIN t
      PROVE  key \in Keys(t) /\ key \in Key
  <2>1. PICK p \in DOMAIN t : p = <<key>>
    BY <1>1
  <2>2. key \in Key /\ Len(p) = 1 /\ p[1] = key
    BY <2>1, TreePaths, SinglePath
  <2>. QED
    BY <2>2 DEF Keys
<1>2. ASSUME NEW key \in Keys(t) PROVE <<key>> \in DOMAIN t
  <2>1. PICK p \in DOMAIN t : Len(p) = 1 /\ p[1] = key
    BY DEF Keys
  <2>2. p = <<p[1]>>
    BY <2>1, TreePaths, SinglePath
  <2>. QED
    BY <2>1, <2>2
<1>. QED
  BY <1>1, <1>2

(* Everything above a node is there, and is a map.                         *)
LEMMA AboveAreMaps ==
    ASSUME NEW t, IsTree(t), NEW p \in DOMAIN t, NEW q \in Path, IsPrefix(q, p)
    PROVE  q \in DOMAIN t /\ (q # p => t[q].kind = "map")
<1>. DEFINE Fine(r) == IsPrefix(q, r) => q \in DOMAIN t /\ (q # r => t[q].kind = "map")
            Lengths == {Len(r) : r \in {s \in DOMAIN t : ~Fine(s)}}
<1>. SUFFICES ASSUME ~Fine(p) PROVE FALSE
  OBVIOUS
<1>1. \A r \in DOMAIN t : r \in Path /\ Len(r) \in Nat
  BY TreePaths, LenProperties DEF Path
<1>2. Lengths \in SUBSET Nat /\ Lengths # {}
  BY <1>1
<1>3. PICK n \in Lengths : \A k \in Lengths : n <= k
  BY <1>2, LeastNumber
<1>4. PICK r \in DOMAIN t : ~Fine(r) /\ Len(r) = n
  OBVIOUS
<1>5. IsPrefix(q, r) /\ q # r /\ r # <<>>
  BY <1>1, <1>4, RootIsPrefix
<1>. DEFINE f == Front(r)
<1>6. /\ f \in DOMAIN t /\ t[f].kind = "map"
      /\ f \in Path /\ Len(f) = n - 1 /\ n \in Nat \ {0}
      /\ \A i \in 1..n - 1 : f[i] = r[i]
  BY <1>1, <1>4, <1>5, TreePaths, FrontProperties
<1>. HIDE DEF f
<1>7. IsPrefix(q, f)
  <2>1. Len(q) <= n /\ (\A i \in 1..Len(q) : q[i] = r[i]) /\ Len(q) \in Nat
    BY <1>1, <1>4, <1>5, PrefixPoints, LenProperties DEF Path
  <2>2. Len(q) # n
    <3>1. Len(q) = n => q = r
      BY <1>1, <1>4, <2>1, SeqEqual DEF Path
    <3>. QED
      BY <1>5, <3>1
  <2>3. Len(q) <= n - 1 /\ \A i \in 1..Len(q) : i \in 1..n - 1
    BY <1>6, <2>1, <2>2
  <2>4. \A i \in 1..Len(q) : q[i] = f[i]
    BY <1>6, <2>1, <2>3
  <2>. QED
    BY <1>6, <2>3, <2>4, PrefixPoints
<1>8. Fine(f)
  <2>1. ~Fine(f) => Len(f) \in Lengths
    BY <1>6
  <2>2. ~Fine(f) => n <= Len(f)
    BY <1>3, <2>1, Zenon
  <2>3. ~(n <= Len(f))
    BY <1>6
  <2>. QED
    BY <2>2, <2>3, Zenon
<1>. QED
  BY <1>4, <1>6, <1>7, <1>8

(* What is below a key.                                                    *)
LEMMA GetBelow ==
    ASSUME NEW t, IsTree(t), NEW key, <<key>> \in DOMAIN t
    PROVE  /\ \A p : p \in DOMAIN Get(t, key) <=> p \in Path /\ <<key>> \o p \in DOMAIN t
           /\ Get(t, key) = [p \in DOMAIN Get(t, key) |-> t[<<key>> \o p]]
           /\ Kind(Get(t, key)) = t[<<key>>].kind
           /\ IsTree(Get(t, key))
<1>. DEFINE D == {Tail(q) : q \in {r \in DOMAIN t : r # <<>> /\ Head(r) = key}}
<1>1. key \in Key
  BY KeysAt
<1>2. Get(t, key) = [p \in D |-> t[<<key>> \o p]]
  BY DEF Get
<1>3. ASSUME NEW p \in D PROVE p \in Path /\ <<key>> \o p \in DOMAIN t
  <2>1. PICK q \in DOMAIN t : q # <<>> /\ Head(q) = key /\ p = Tail(q)
    OBVIOUS
  <2>. QED
    BY <2>1, TreePaths, ConsSplit
<1>4. ASSUME NEW p \in Path, <<key>> \o p \in DOMAIN t PROVE p \in D
  <2>1. <<key>> \o p # <<>> /\ Head(<<key>> \o p) = key /\ Tail(<<key>> \o p) = p
    BY <1>1, ConsProperties
  <2>. QED
    BY <1>4, <2>1
<1>. HIDE DEF D
<1>5. D = DOMAIN Get(t, key) /\ \A p \in D : Get(t, key)[p] = t[<<key>> \o p]
  BY <1>2
<1>6. <<>> \in Path /\ <<key>> \o <<>> = <<key>>
  <2>1. <<>> \in Path /\ <<key>> \in Seq(Key)
    BY <1>1, EmptySeq DEF Path
  <2>. QED
    BY <2>1, ConcatEmptySeq
<1>7. <<>> \in D /\ Kind(Get(t, key)) = t[<<key>>].kind
  BY <1>4, <1>5, <1>6 DEF Kind
<1>8. ASSUME NEW p \in D
      PROVE  /\ p # <<>> => Front(p) \in D /\ Get(t, key)[Front(p)].kind = "map"
             /\ IsNode(Get(t, key)[p])
  <2>1. ASSUME p # <<>> PROVE Front(p) \in D /\ Get(t, key)[Front(p)].kind = "map"
    <3>1. Front(<<key>> \o p) = <<key>> \o Front(p) /\ Front(p) \in Path
      BY <1>1, <1>3, <2>1, FrontOfCons, FrontProperties
    <3>2. <<key>> \o p # <<>>
      BY <1>1, <1>3, ConsProperties
    <3>3. Front(<<key>> \o p) \in DOMAIN t /\ t[Front(<<key>> \o p)].kind = "map"
      BY <1>3, <3>2, TreePaths
    <3>. QED
      BY <1>4, <1>5, <3>1, <3>3
  <2>2. IsNode(Get(t, key)[p])
    BY <1>3, <1>5, TreePaths
  <2>. QED
    BY <2>1, <2>2
<1>9. IsTree(Get(t, key))
  BY <1>3, <1>5, <1>7, <1>8 DEF IsTree, Path, Key
<1>. QED
  BY <1>2, <1>3, <1>4, <1>5, <1>7, <1>9

(* An empty map is a tree without keys.                                    *)
LEMMA EmptyMap ==
    /\ DOMAIN MapOf(<<>>) = {<<>>} /\ MapOf(<<>>)[<<>>] = Node("map", 0, {})
    /\ IsTree(MapOf(<<>>)) /\ Kind(MapOf(<<>>)) = "map" /\ Keys(MapOf(<<>>)) = {}
<1>1. UNION {{<<key>> \o q : q \in DOMAIN <<>>[key]} : key \in DOMAIN <<>>} = {}
  BY Zenon, SMT
<1>2. DOMAIN MapOf(<<>>) = {<<>>} /\ MapOf(<<>>)[<<>>] = Node("map", 0, {})
  BY <1>1 DEF MapOf
<1>3. IsTree(MapOf(<<>>))
  <2>1. <<>> \in Seq(STRING)
    BY EmptySeq
  <2>2. \A p \in DOMAIN MapOf(<<>>) : p = <<>> /\ IsNode(MapOf(<<>>)[p])
    BY <1>2 DEF Node, IsNode
  <2>. HIDE DEF MapOf
  <2>. QED
    BY <1>2, <2>1, <2>2 DEF IsTree
<1>4. Kind(MapOf(<<>>)) = "map"
  BY <1>2 DEF Kind, Node
<1>5. Keys(MapOf(<<>>)) = {}
  <2>1. \A p \in DOMAIN MapOf(<<>>) : Len(p) = 0
    BY <1>2
  <2>. QED
    BY <2>1 DEF Keys
<1>. QED
  BY <1>2, <1>3, <1>4, <1>5

(* What is below an absent key is an empty map.                            *)
LEMMA GetType ==
    ASSUME NEW t, IsTree(t), NEW key
    PROVE  IsTree(Get(t, key)) /\ (<<key>> \notin DOMAIN t => Get(t, key) = MapOf(<<>>))
<1>1. CASE <<key>> \in DOMAIN t
  BY <1>1, GetBelow
<1>2. CASE <<key>> \notin DOMAIN t
  BY <1>2, EmptyMap DEF Get
<1>. QED
  BY <1>1, <1>2

-----------------------------------------------------------------------------
(* Merging trees as deep_merge does it, key by key.                        *)

(* The definition of DeepMerge, node by node.                              *)
LEMMA MergePoints ==
    ASSUME NEW b, IsTree(b), NEW o, IsTree(o)
    PROVE  LET M == DeepMerge(b, o) IN
           /\ \A p : p \in DOMAIN M <=>
                 \/ p \in DOMAIN o
                 \/ /\ p \in DOMAIN b
                    /\ \A q \in DOMAIN b \cap DOMAIN o :
                          IsPrefix(q, p) => b[q].kind = "map" /\ o[q].kind = "map"
           /\ \A p \in DOMAIN M : M[p] = IF p \in DOMAIN o THEN o[p] ELSE b[p]
           /\ M = [p \in DOMAIN M |-> IF p \in DOMAIN o THEN o[p] ELSE b[p]]
  BY DEF DeepMerge

(* Merging trees yields a tree, of the kind of the overriding one.         *)
LEMMA MergeIsTree ==
    ASSUME NEW b, IsTree(b), NEW o, IsTree(o)
    PROVE  IsTree(DeepMerge(b, o)) /\ Kind(DeepMerge(b, o)) = Kind(o)
<1>. DEFINE M == DeepMerge(b, o)
<1>1. /\ \A p : p \in DOMAIN M <=>
                 \/ p \in DOMAIN o
                 \/ /\ p \in DOMAIN b
                    /\ \A q \in DOMAIN b \cap DOMAIN o :
                          IsPrefix(q, p) => b[q].kind = "map" /\ o[q].kind = "map"
      /\ \A p \in DOMAIN M : M[p] = IF p \in DOMAIN o THEN o[p] ELSE b[p]
  BY MergePoints
<1>. HIDE DEF M
<1>2. <<>> \in DOMAIN M /\ M[<<>>] = o[<<>>]
  BY <1>1, TreePaths
<1>3. DOMAIN M \subseteq Path
  BY <1>1, TreePaths
<1>4. ASSUME NEW p \in DOMAIN M, p # <<>>
      PROVE  Front(p) \in DOMAIN M /\ M[Front(p)].kind = "map"
  <2>1. CASE p \in DOMAIN o
    <3>1. Front(p) \in DOMAIN o /\ o[Front(p)].kind = "map"
      BY <1>4, <2>1, TreePaths
    <3>. QED
      BY <1>1, <3>1
  <2>2. CASE p \notin DOMAIN o
    <3>1. /\ p \in DOMAIN b
          /\ \A q \in DOMAIN b \cap DOMAIN o :
                IsPrefix(q, p) => b[q].kind = "map" /\ o[q].kind = "map"
      BY <1>1, <2>2
    <3>2. Front(p) \in DOMAIN b /\ b[Front(p)].kind = "map"
      BY <1>4, <3>1, TreePaths
    <3>3. IsPrefix(Front(p), p) /\ \A q \in Path : IsPrefix(q, Front(p)) => IsPrefix(q, p)
      BY <1>3, <1>4, FrontIsPrefix
    <3>4. \A q \in DOMAIN b \cap DOMAIN o :
              IsPrefix(q, Front(p)) => b[q].kind = "map" /\ o[q].kind = "map"
      BY <3>1, <3>3, TreePaths
    <3>5. Front(p) \in DOMAIN M
      BY <1>1, <3>2, <3>4
    <3>6. Front(p) \in DOMAIN o => o[Front(p)].kind = "map"
      BY <3>1, <3>2, <3>3
    <3>. QED
      BY <1>1, <3>2, <3>5, <3>6
  <2>. QED
    BY <2>1, <2>2
<1>5. ASSUME NEW p \in DOMAIN M PROVE IsNode(M[p])
  BY <1>1, TreePaths
<1>6. IsTree(M)
  BY <1>2, <1>3, <1>4, <1>5 DEF IsTree, Path, Key
<1>. QED
  BY <1>2, <1>6 DEF Kind, M

(* A value that is no map, or that meets none, replaces the other.         *)
LEMMA MergeReplaces ==
    ASSUME NEW b, IsTree(b), NEW o, IsTree(o), Kind(b) # "map" \/ Kind(o) # "map"
    PROVE  DeepMerge(b, o) = [p \in DOMAIN o |-> o[p]]
<1>. DEFINE M == DeepMerge(b, o)
<1>1. /\ \A p : p \in DOMAIN M <=>
                 \/ p \in DOMAIN o
                 \/ /\ p \in DOMAIN b
                    /\ \A q \in DOMAIN b \cap DOMAIN o :
                          IsPrefix(q, p) => b[q].kind = "map" /\ o[q].kind = "map"
      /\ M = [p \in DOMAIN M |-> IF p \in DOMAIN o THEN o[p] ELSE b[p]]
  BY MergePoints
<1>. HIDE DEF M
<1>2. ASSUME NEW p \in DOMAIN b, p \notin DOMAIN o PROVE p \notin DOMAIN M
  <2>1. IsPrefix(<<>>, p) /\ <<>> \in DOMAIN b \cap DOMAIN o
    BY TreePaths, RootIsPrefix
  <2>. QED
    BY <1>1, <1>2, <2>1 DEF Kind
<1>3. DOMAIN M = DOMAIN o
  BY <1>1, <1>2
<1>. QED
  BY <1>1, <1>3 DEF M

(* Below each key of two maps: deep_merge of what both have there.         *)
LEMMA MergeGet ==
    ASSUME NEW b, IsTree(b), NEW o, IsTree(o), Kind(b) = "map", Kind(o) = "map", NEW key \in Key
    PROVE  /\ <<key>> \in DOMAIN DeepMerge(b, o) <=>
                 <<key>> \in DOMAIN b \/ <<key>> \in DOMAIN o
           /\ Get(DeepMerge(b, o), key) =
                 IF <<key>> \notin DOMAIN o THEN Get(b, key)
                 ELSE IF <<key>> \notin DOMAIN b THEN Get(o, key)
                 ELSE DeepMerge(Get(b, key), Get(o, key))
<1>. DEFINE M == DeepMerge(b, o)
            Remains(p) == \A q \in DOMAIN b \cap DOMAIN o :
                             IsPrefix(q, p) => b[q].kind = "map" /\ o[q].kind = "map"
<1>1. /\ \A p : p \in DOMAIN M <=> p \in DOMAIN o \/ (p \in DOMAIN b /\ Remains(p))
      /\ \A p \in DOMAIN M : M[p] = IF p \in DOMAIN o THEN o[p] ELSE b[p]
  BY MergePoints
<1>2. IsTree(M)
  BY MergeIsTree
<1>. HIDE DEF M
<1>3. b[<<>>].kind = "map" /\ o[<<>>].kind = "map"
  BY DEF Kind
<1>4. <<key>> \in Path /\ Len(<<key>>) = 1 /\ <<key>>[1] = key
  BY DEF Path
(* What meets the path below the key is the root or starts with the key.   *)
<1>5. ASSUME NEW p \in Path, NEW q \in Path, IsPrefix(q, <<key>> \o p), q # <<>>
      PROVE  /\ Tail(q) \in Path /\ q = <<key>> \o Tail(q) /\ IsPrefix(Tail(q), p)
             /\ IsPrefix(<<key>>, q)
  <2>1. /\ Head(q) \in Key /\ Tail(q) \in Path /\ q = <<Head(q)>> \o Tail(q)
        /\ q[1] = Head(q) /\ Len(q) \in Nat \ {0}
    BY <1>5, ConsSplit
  <2>2. <<key>> \o p \in Path /\ (<<key>> \o p)[1] = key
    BY ConsProperties
  <2>3. q[1] = key
    <3>1. \A i \in 1..Len(q) : q[i] = (<<key>> \o p)[i]
      BY <1>5, <2>2, PrefixPoints
    <3>. QED
      BY <2>1, <2>2, <3>1
  <2>4. q = <<key>> \o Tail(q)
    BY <2>1, <2>3
  <2>5. IsPrefix(Tail(q), p)
    BY <1>5, <2>1, <2>4, ConsPrefix
  <2>6. IsPrefix(<<key>>, q)
    BY <1>4, <2>1, <2>3, PrefixPoints
  <2>. QED
    BY <2>1, <2>4, <2>5, <2>6
<1>6. ASSUME NEW p \in Path PROVE IsPrefix(<<key>>, <<key>> \o p) /\ <<key>> \o p \in Path
  <2>1. /\ <<key>> \o p \in Path /\ (<<key>> \o p)[1] = key
        /\ Len(<<key>> \o p) = Len(p) + 1 /\ Len(p) \in Nat
    BY ConsProperties
  <2>2. Len(<<key>>) <= Len(<<key>> \o p)
    BY <1>4, <2>1
  <2>3. \A i \in 1..Len(<<key>>) : <<key>>[i] = (<<key>> \o p)[i]
    BY <1>4, <2>1
  <2>. QED
    BY <1>4, <2>1, <2>2, <2>3, PrefixPoints
<1>7. <<>> \in Path /\ <<key>> \o <<>> = <<key>>
  BY <1>4, EmptySeq, ConcatEmptySeq DEF Path
<1>8. DOMAIN b \subseteq Path /\ DOMAIN o \subseteq Path
  BY TreePaths
<1>9. <<key>> \in DOMAIN b => Remains(<<key>>) \/ <<key>> \in DOMAIN o
  <2>. SUFFICES ASSUME <<key>> \notin DOMAIN o,
                       NEW q \in DOMAIN b \cap DOMAIN o, IsPrefix(q, <<key>>)
                PROVE  b[q].kind = "map" /\ o[q].kind = "map"
    OBVIOUS
  <2>1. CASE q = <<>>
    BY <1>3, <2>1
  <2>2. CASE q # <<>>
    <3>1. IsPrefix(<<key>>, q)
      BY <1>5, <1>7, <1>8, <2>2
    <3>2. <<key>> \in DOMAIN o
      BY <1>4, <3>1, AboveAreMaps
    <3>. QED
      BY <3>2
  <2>. QED
    BY <2>1, <2>2
<1>10. <<key>> \in DOMAIN M <=> <<key>> \in DOMAIN b \/ <<key>> \in DOMAIN o
  BY <1>1, <1>9
<1>11. ASSUME <<key>> \in DOMAIN M
       PROVE  /\ \A p : p \in DOMAIN Get(M, key) <=> p \in Path /\ <<key>> \o p \in DOMAIN M
              /\ Get(M, key) = [p \in DOMAIN Get(M, key) |-> M[<<key>> \o p]]
  BY <1>2, <1>11, GetBelow
<1>12. CASE <<key>> \notin DOMAIN o
  <2>1. ASSUME NEW p \in Path
        PROVE  <<key>> \o p \notin DOMAIN o /\ (<<key>> \o p \in DOMAIN b => Remains(<<key>> \o p))
    <3>1. <<key>> \o p \notin DOMAIN o
      BY <1>4, <1>6, <1>12, AboveAreMaps
    <3>2. ASSUME NEW q \in DOMAIN b \cap DOMAIN o, IsPrefix(q, <<key>> \o p)
          PROVE  b[q].kind = "map" /\ o[q].kind = "map"
      <4>1. q # <<>> => IsPrefix(<<key>>, q)
        BY <1>5, <1>8, <3>2
      <4>2. q = <<>>
        BY <1>4, <1>12, <4>1, AboveAreMaps
      <4>. QED
        BY <1>3, <4>2
    <3>. QED
      BY <3>1, <3>2
  <2>2. CASE <<key>> \in DOMAIN b
    <3>1. /\ \A p : p \in DOMAIN Get(b, key) <=> p \in Path /\ <<key>> \o p \in DOMAIN b
          /\ Get(b, key) = [p \in DOMAIN Get(b, key) |-> b[<<key>> \o p]]
      BY <2>2, GetBelow
    <3>2. /\ \A p : p \in DOMAIN Get(M, key) <=> p \in Path /\ <<key>> \o p \in DOMAIN M
          /\ Get(M, key) = [p \in DOMAIN Get(M, key) |-> M[<<key>> \o p]]
      BY <1>10, <1>11, <2>2
    <3>3. \A p \in Path : <<key>> \o p \in DOMAIN M <=> <<key>> \o p \in DOMAIN b
      BY <1>1, <2>1
    <3>4. DOMAIN Get(M, key) = DOMAIN Get(b, key)
      <4>1. \A p : p \in DOMAIN Get(M, key) <=> p \in DOMAIN Get(b, key)
        BY <3>1, <3>2, <3>3
      <4>. HIDE DEF M
      <4>. QED
        BY <4>1
    <3>5. \A p \in DOMAIN Get(M, key) : M[<<key>> \o p] = b[<<key>> \o p]
      BY <1>1, <2>1, <3>2
    <3>6. Get(M, key) = Get(b, key)
      BY <3>1, <3>2, <3>4, <3>5
    <3>. QED
      BY <1>10, <1>12, <3>6 DEF M
  <2>3. CASE <<key>> \notin DOMAIN b
    <3>1. Get(M, key) = MapOf(<<>>) /\ Get(b, key) = MapOf(<<>>)
      BY <1>2, <1>10, <1>12, <2>3, GetType
    <3>. QED
      BY <1>10, <1>12, <3>1 DEF M
  <2>. QED
    BY <2>2, <2>3
<1>13. CASE <<key>> \in DOMAIN o
  <2>1. /\ \A p : p \in DOMAIN Get(o, key) <=> p \in Path /\ <<key>> \o p \in DOMAIN o
        /\ Get(o, key) = [p \in DOMAIN Get(o, key) |-> o[<<key>> \o p]]
        /\ IsTree(Get(o, key))
    BY <1>13, GetBelow
  <2>2. /\ \A p : p \in DOMAIN Get(M, key) <=> p \in Path /\ <<key>> \o p \in DOMAIN M
        /\ Get(M, key) = [p \in DOMAIN Get(M, key) |-> M[<<key>> \o p]]
    BY <1>10, <1>11, <1>13
  <2>3. CASE <<key>> \notin DOMAIN b
    <3>1. \A p \in Path : <<key>> \o p \notin DOMAIN b
      BY <1>4, <1>6, <2>3, AboveAreMaps
    <3>2. \A p \in Path : <<key>> \o p \in DOMAIN M <=> <<key>> \o p \in DOMAIN o
      BY <1>1, <3>1
    <3>3. \A p : p \in DOMAIN Get(M, key) <=> p \in DOMAIN Get(o, key)
      BY <2>1, <2>2, <3>2
    <3>4. DOMAIN Get(M, key) = DOMAIN Get(o, key)
      BY <3>3
    <3>5. \A p \in DOMAIN Get(M, key) : M[<<key>> \o p] = o[<<key>> \o p]
      BY <1>1, <2>2, <3>2
    <3>6. Get(M, key) = Get(o, key)
      BY <2>1, <2>2, <3>4, <3>5
    <3>. QED
      BY <1>10, <1>13, <2>3, <3>6 DEF M
  <2>4. CASE <<key>> \in DOMAIN b
    <3>. DEFINE gb == Get(b, key)
                go == Get(o, key)
                G == DeepMerge(gb, go)
    <3>1. /\ \A p : p \in DOMAIN gb <=> p \in Path /\ <<key>> \o p \in DOMAIN b
          /\ gb = [p \in DOMAIN gb |-> b[<<key>> \o p]]
          /\ IsTree(gb)
      BY <2>4, GetBelow
    <3>2. /\ \A p : p \in DOMAIN G <=>
                 \/ p \in DOMAIN go
                 \/ /\ p \in DOMAIN gb
                    /\ \A q \in DOMAIN gb \cap DOMAIN go :
                          IsPrefix(q, p) => gb[q].kind = "map" /\ go[q].kind = "map"
          /\ G = [p \in DOMAIN G |-> IF p \in DOMAIN go THEN go[p] ELSE gb[p]]
      BY <2>1, <3>1, MergePoints
    <3>3. /\ \A p \in DOMAIN gb : gb[p] = b[<<key>> \o p]
          /\ \A p \in DOMAIN go : go[p] = o[<<key>> \o p]
          /\ \A p : p \in DOMAIN go <=> p \in Path /\ <<key>> \o p \in DOMAIN o
      BY <2>1, <3>1
    <3>. HIDE DEF gb, go, G
    <3>4. ASSUME NEW p \in Path
          PROVE  Remains(<<key>> \o p) <=>
                    \A q \in DOMAIN gb \cap DOMAIN go :
                       IsPrefix(q, p) => gb[q].kind = "map" /\ go[q].kind = "map"
      <4>1. ASSUME Remains(<<key>> \o p), NEW q \in DOMAIN gb \cap DOMAIN go, IsPrefix(q, p)
            PROVE  gb[q].kind = "map" /\ go[q].kind = "map"
        <5>1. q \in Path /\ <<key>> \o q \in DOMAIN b \cap DOMAIN o
          BY <3>1, <3>3
        <5>2. IsPrefix(<<key>> \o q, <<key>> \o p)
          BY <4>1, <5>1, ConsPrefix
        <5>. QED
          BY <3>3, <4>1, <5>1, <5>2
      <4>2. ASSUME \A q \in DOMAIN gb \cap DOMAIN go :
                      IsPrefix(q, p) => gb[q].kind = "map" /\ go[q].kind = "map",
                   NEW q \in DOMAIN b \cap DOMAIN o, IsPrefix(q, <<key>> \o p)
            PROVE  b[q].kind = "map" /\ o[q].kind = "map"
        <5>1. CASE q = <<>>
          BY <1>3, <5>1
        <5>2. CASE q # <<>>
          <6>1. Tail(q) \in Path /\ q = <<key>> \o Tail(q) /\ IsPrefix(Tail(q), p)
            BY <1>5, <1>8, <4>2, <5>2
          <6>2. Tail(q) \in DOMAIN gb \cap DOMAIN go
            BY <3>1, <3>3, <6>1
          <6>3. gb[Tail(q)] = b[q] /\ go[Tail(q)] = o[q]
            BY <3>3, <6>1, <6>2
          <6>. QED
            BY <4>2, <6>1, <6>2, <6>3
        <5>. QED
          BY <5>1, <5>2
      <4>. QED
        BY <4>1, <4>2
    <3>5. ASSUME NEW p \in Path PROVE <<key>> \o p \in DOMAIN M <=> p \in DOMAIN G
      BY <1>1, <3>1, <3>2, <3>3, <3>4
    <3>6. \A p : p \in DOMAIN Get(M, key) <=> p \in DOMAIN G
      <4>1. \A p \in DOMAIN G : p \in Path
        BY <3>1, <3>2, <3>3
      <4>. QED
        BY <2>2, <3>5, <4>1
    <3>7. DOMAIN Get(M, key) = DOMAIN G
      BY <3>6
    <3>8. ASSUME NEW p \in DOMAIN G
          PROVE  M[<<key>> \o p] = IF p \in DOMAIN go THEN go[p] ELSE gb[p]
      <4>1. p \in Path /\ <<key>> \o p \in DOMAIN M
        BY <2>2, <3>6
      <4>2. M[<<key>> \o p] = IF <<key>> \o p \in DOMAIN o THEN o[<<key>> \o p]
                              ELSE b[<<key>> \o p]
        BY <1>1, <4>1
      <4>3. p \notin DOMAIN go => p \in DOMAIN gb
        BY <3>2
      <4>. QED
        BY <3>3, <4>1, <4>2, <4>3
    <3>9. Get(M, key) = G
      BY <2>2, <3>2, <3>7, <3>8
    <3>. QED
      BY <1>10, <1>13, <2>4, <3>9 DEF M, G, gb, go
  <2>. QED
    BY <2>3, <2>4
<1>. QED
  BY <1>12, <1>13

-----------------------------------------------------------------------------
(* Recursion over an interval.                                             *)

(* Induction over an interval.                                             *)
LEMMA IntervalInduction ==
    ASSUME NEW n \in Nat, NEW S, 0 \in S, \A i \in 1..n : i - 1 \in S => i \in S
    PROVE  \A i \in 0..n : i \in S
<1>. DEFINE Bad == {i \in 0..n : i \notin S}
<1>. SUFFICES ASSUME Bad # {} PROVE FALSE
  OBVIOUS
<1>1. Bad \in SUBSET Nat
  OBVIOUS
<1>2. PICK m \in Bad : \A k \in Bad : m <= k
  BY <1>1, LeastNumber
<1>3. m \in 1..n /\ m \notin S
  OBVIOUS
<1>4. m - 1 \in 0..n /\ ~(m <= m - 1)
  BY <1>3
<1>5. m - 1 \in S
  BY <1>2, <1>4
<1>. QED
  BY <1>3, <1>5

Foldings(n, T, start, step) ==
    {f \in [0..n -> T] : f[0] = start /\ \A i \in 1..n : f[i] = step[i][f[i - 1]]}

(* A fold over an interval has a result at every index.                    *)
LEMMA FoldExists ==
    ASSUME NEW n \in Nat, NEW T, NEW t0 \in T, NEW step \in [1..n -> [T -> T]]
    PROVE  Foldings(n, T, t0, step) # {}
<1>. DEFINE Good(k, f) == f[0] = t0 /\ \A i \in 1..k : f[i] = step[i][f[i - 1]]
            S == {k \in 0..n : \E f \in [0..k -> T] : Good(k, f)}
<1>1. 0 \in S
  <2>. DEFINE f == [i \in 0..0 |-> t0]
  <2>1. f \in [0..0 -> T] /\ f[0] = t0 /\ 0 \in 0..n
    OBVIOUS
  <2>2. Good(0, f)
    BY <2>1
  <2>. QED
    BY <2>1, <2>2
<1>2. ASSUME NEW k \in 1..n, k - 1 \in S PROVE k \in S
  <2>1. PICK g \in [0..k - 1 -> T] : Good(k - 1, g)
    BY <1>2
  <2>. DEFINE f == [i \in 0..k |-> IF i = k THEN step[k][g[k - 1]] ELSE g[i]]
  <2>2. /\ k \in Nat /\ k - 1 \in 0..k - 1 /\ 0 \in 0..k - 1 /\ 0 # k /\ k \in 0..n
        /\ \A i \in 0..k : i = k \/ i \in 0..k - 1
    OBVIOUS
  <2>3. k \in 1..n /\ g[k - 1] \in T /\ step[k] \in [T -> T]
    BY <2>2
  <2>4. f \in [0..k -> T]
    <3>1. \A i \in 0..k : (IF i = k THEN step[k][g[k - 1]] ELSE g[i]) \in T
      BY <2>2, <2>3
    <3>. QED
      BY <3>1
  <2>5. f[0] = t0
    BY <2>1, <2>2
  <2>6. ASSUME NEW i \in 1..k PROVE f[i] = step[i][f[i - 1]]
    <3>1. i - 1 \in 0..k - 1 /\ i \in 0..k /\ i - 1 \in 0..k /\ i - 1 # k
      BY <2>2
    <3>2. f[i - 1] = g[i - 1]
      BY <3>1
    <3>3. CASE i = k
      BY <3>1, <3>2, <3>3
    <3>4. CASE i # k
      <4>1. i \in 1..k - 1
        BY <2>2, <3>4
      <4>2. f[i] = g[i] /\ g[i] = step[i][g[i - 1]]
        BY <2>1, <3>1, <3>4, <4>1
      <4>. QED
        BY <3>2, <4>2
    <3>. QED
      BY <3>3, <3>4
  <2>. HIDE DEF f
  <2>7. Good(k, f)
    BY <2>5, <2>6
  <2>. QED
    BY <2>2, <2>4, <2>7
<1>. HIDE DEF S
<1>3. n \in S
  <2>1. \A i \in 0..n : i \in S
    <3>1. \A i \in 1..n : i - 1 \in S => i \in S
      BY <1>2
    <3>. QED
      BY ONLY n \in Nat, <1>1, <3>1, IntervalInduction
  <2>. QED
    BY ONLY n \in Nat, <2>1
<1>4. PICK f \in [0..n -> T] : Good(n, f)
  BY <1>3 DEF S
<1>. QED
  BY <1>4 DEF Foldings

-----------------------------------------------------------------------------
(* Chains of bundles.                                                      *)

(* What a bundle extends, and what that extends, is a sequence.            *)
LEMMA AscentIsSequence ==
    ASSUME NEW bundles, IsFiniteSet(DOMAIN bundles), NEW name
    PROVE  \E U : Ascent(bundles, name) \in Seq(U) /\ Ascent(bundles, name) # <<>>
<1>. DEFINE n == Cardinality(DOMAIN bundles)
            U == {name} \cup {bundles[b].extends : b \in DOMAIN bundles}
            T == Seq(U) \ {<<>>}
            above(names) == IF names[1] \in DOMAIN bundles THEN bundles[names[1]].extends ELSE None
            Next1(names) == IF above(names) = None THEN names ELSE <<above(names)>> \o names
            step == [i \in 1..n |-> [names \in T |-> Next1(names)]]
            Body(f) == [i \in 0..n |-> IF i = 0 THEN <<name>> ELSE Next1(f[i - 1])]
<1>1. n \in Nat
  BY FS_CardinalityType
<1>2. <<name>> \in T
  BY Zenon, SMT
<1>3. ASSUME NEW names \in T PROVE Next1(names) \in T
  <2>1. names \in Seq(U) /\ names # <<>> /\ names[1] \in U
    BY <1>3, EmptySeq, ElementOfSeq
  <2>2. CASE above(names) = None
    BY <2>1, <2>2
  <2>3. CASE above(names) # None
    <3>1. names[1] \in DOMAIN bundles /\ above(names) \in U
      BY <2>3
    <3>. HIDE DEF U, above
    <3>2. <<above(names)>> \in Seq(U)
      BY <3>1
    <3>3. <<above(names)>> \o names \in Seq(U)
      BY <2>1, <3>2, ConcatProperties
    <3>4. <<above(names)>> \o names # <<>>
      BY <2>1, <3>2, ConcatEqualIffEmpty
    <3>. QED
      BY <2>3, <3>3, <3>4
  <2>. QED
    BY <2>2, <2>3
<1>. HIDE DEF T, Next1
<1>4. step \in [1..n -> [T -> T]]
  BY <1>3
<1>5. PICK f \in [0..n -> T] : f[0] = <<name>> /\ \A i \in 1..n : f[i] = step[i][f[i - 1]]
  <2>1. step \in [1..n -> [T -> T]] /\ n \in Nat /\ <<name>> \in T
    BY <1>1, <1>2, <1>4
  <2>. HIDE DEF step, n
  <2>2. Foldings(n, T, <<name>>, step) # {}
    BY ONLY <2>1, FoldExists
  <2>. QED
    BY <2>2 DEF Foldings
<1>6. f = Body(f)
  <2>1. ASSUME NEW i \in 0..n
        PROVE  f[i] = IF i = 0 THEN <<name>> ELSE Next1(f[i - 1])
    <3>1. CASE i = 0
      BY <1>5, <3>1
    <3>2. CASE i # 0
      <4>1. i \in 1..n /\ i - 1 \in 0..n
        BY <1>1, <3>2
      <4>2. f[i - 1] \in T /\ f[i] = step[i][f[i - 1]]
        BY <1>5, <4>1
      <4>. QED
        BY <3>2, <4>2
    <3>. QED
      BY <3>1, <3>2
  <2>. HIDE DEF n
  <2>. QED
    BY <2>1
<1>. DEFINE g == CHOOSE h : h = Body(h)
<1>7. g = Body(g)
  BY <1>6
<1>8. Ascent(bundles, name) = g[n]
  BY DEF Ascent, Next1
<1>9. n \in {i \in 0..n : g[i] \in T}
  <2>. DEFINE S == {i \in 0..n : g[i] \in T}
  <2>. HIDE DEF n, g
  <2>1. 0 \in S
    BY <1>1, <1>2, <1>7
  <2>2. ASSUME NEW i \in 1..n, i - 1 \in S PROVE i \in S
    <3>1. i \in 0..n /\ i # 0 /\ g[i - 1] \in T
      BY <1>1, <2>2
    <3>2. g[i] = Next1(g[i - 1])
      BY <1>7, <3>1
    <3>. QED
      BY <1>3, <3>1, <3>2
  <2>. HIDE DEF S
  <2>3. n \in S
    BY <1>1, <2>1, <2>2, IntervalInduction
  <2>. QED
    BY <2>3 DEF S
<1>10. g[n] \in T
  BY <1>9
<1>. HIDE DEF g, n
<1>. QED
  BY <1>8, <1>10 DEF T

(* A chain is a non-empty sequence of bundles that exist.                  *)
LEMMA ChainShape ==
    ASSUME NEW bundles, IsFiniteSet(DOMAIN bundles), NEW name, NEW names \in Chain(bundles, name)
    PROVE  /\ names = Ascent(bundles, name)
           /\ names \in Seq(DOMAIN bundles) /\ Len(names) \in Nat \ {0}
<1>1. names = Ascent(bundles, name) /\ ToSet(names) \subseteq DOMAIN bundles
  BY DEF Chain
<1>2. PICK U : names \in Seq(U) /\ names # <<>>
  BY <1>1, AscentIsSequence
<1>3. Len(names) \in Nat \ {0} /\ names \in [1..Len(names) -> U]
  BY <1>2, EmptySeq, LenProperties
<1>4. \A i \in 1..Len(names) : names[i] \in DOMAIN bundles
  BY <1>1, <1>3 DEF ToSet
<1>5. names \in [1..Len(names) -> DOMAIN bundles]
  BY <1>3, <1>4
<1>. HIDE DEF Chain
<1>. QED
  BY <1>1, <1>3, <1>5

-----------------------------------------------------------------------------
(* What a chain of settings bundles amounts to.                            *)

(* Every node is that of a bundle at its place; so what holds of all       *)
(* bundles place by place holds of what a chain of them amounts to.        *)
FromLibrary(tree) ==
    \A p \in DOMAIN tree \ {<<>>} :
        \E name \in DOMAIN Library.settings :
            LET settings == Library.settings[name].settings
            IN  p \in DOMAIN settings /\ tree[p] = settings[p]

Sound(tree) == IsTree(tree) /\ Kind(tree) = "map" /\ GateIsList(tree) /\ FromLibrary(tree)

(* Merging keeps what all the trees of the library have.                   *)
LEMMA MergeIsSound ==
    ASSUME NEW b, Sound(b), NEW o, Sound(o)
    PROVE  Sound(DeepMerge(b, o))
<1>1. IsTree(b) /\ IsTree(o) /\ Kind(o) = "map"
  BY DEF Sound
<1>2. IsTree(DeepMerge(b, o)) /\ Kind(DeepMerge(b, o)) = "map"
  BY <1>1, MergeIsTree
<1>3. ASSUME GatePath \in DOMAIN DeepMerge(b, o) PROVE DeepMerge(b, o)[GatePath].kind = "list"
  <2>1. GatePath \in DOMAIN o \/ GatePath \in DOMAIN b
    BY <1>1, <1>3, MergePoints
  <2>2. DeepMerge(b, o)[GatePath] = IF GatePath \in DOMAIN o THEN o[GatePath] ELSE b[GatePath]
    BY <1>1, <1>3, MergePoints
  <2>. QED
    BY <2>1, <2>2 DEF Sound, GateIsList
<1>4. FromLibrary(DeepMerge(b, o))
  <2>1. ASSUME NEW p \in DOMAIN DeepMerge(b, o)
        PROVE  \/ p \in DOMAIN o /\ DeepMerge(b, o)[p] = o[p]
               \/ p \in DOMAIN b /\ DeepMerge(b, o)[p] = b[p]
    <3>1. p \in DOMAIN o \/ p \in DOMAIN b
      BY <1>1, MergePoints
    <3>2. DeepMerge(b, o)[p] = IF p \in DOMAIN o THEN o[p] ELSE b[p]
      BY <1>1, MergePoints
    <3>. QED
      BY <3>1, <3>2
  <2>2. FromLibrary(b) /\ FromLibrary(o)
    BY DEF Sound
  <2>. QED
    BY <2>1, <2>2 DEF FromLibrary
<1>. QED
  BY <1>2, <1>3, <1>4 DEF Sound, GateIsList

(* So does merging a whole chain, layer by layer.                          *)
LEMMA MergedIsSound ==
    ASSUME NEW names \in Seq(DOMAIN Library.settings)
    PROVE  Sound(Merged(names))
<1>. DEFINE n == Len(names)
            layers == {Layer(names, i) : i \in 1..n}
            Nodes == {MapOf(<<>>)[<<>>]} \cup UNION {{t[p] : p \in DOMAIN t} : t \in layers}
            T == {t \in UNION {[P -> Nodes] : P \in SUBSET Path} : Sound(t)}
            Body(f) == [i \in 0..n |-> IF i = 0 THEN MapOf(<<>>)
                                       ELSE DeepMerge(f[i - 1], Layer(names, i))]
            step == [i \in 1..n |-> [t \in T |-> DeepMerge(t, Layer(names, i))]]
            start == MapOf(<<>>)
<1>1. n \in Nat
  BY LenProperties
<1>2. ASSUME NEW i \in 1..n PROVE Sound(Layer(names, i)) /\ Layer(names, i) \in layers
  <2>1. names[i] \in DOMAIN Library.settings
    BY ElementOfSeq
  <2>. QED
    BY <2>1, CompositionAssumption DEF Layer, Sound, FromLibrary
<1>3. start \in T
  <2>1. <<>> \in Path
    BY EmptySeq DEF Path
  <2>2. start \in [{<<>>} -> Nodes]
    <3>1. DOMAIN start = {<<>>} /\ start[<<>>] \in Nodes
      BY EmptyMap
    <3>2. start = [p \in DOMAIN start |-> start[p]]
      BY DEF MapOf
    <3>. HIDE DEF Nodes, start
    <3>. QED
      BY <3>1, <3>2
  <2>3. GatePath \notin {<<>>}
    BY DEF GatePath
  <2>4. Sound(start)
    BY <2>3, EmptyMap DEF Sound, GateIsList, FromLibrary
  <2>. HIDE DEF Nodes, start
  <2>. QED
    BY <2>1, <2>2, <2>4
<1>4. ASSUME NEW t \in T, NEW i \in 1..n PROVE DeepMerge(t, Layer(names, i)) \in T
  <2>. DEFINE o == Layer(names, i)
              M == DeepMerge(t, o)
  <2>1. Sound(t) /\ Sound(o) /\ o \in layers
    BY <1>2
  <2>2. Sound(M)
    BY <2>1, MergeIsSound
  <2>3. DOMAIN M \in SUBSET Path
    BY <2>2, TreePaths DEF Sound
  <2>4. /\ \A p \in DOMAIN M : p \in DOMAIN o \/ p \in DOMAIN t
        /\ M = [p \in DOMAIN M |-> IF p \in DOMAIN o THEN o[p] ELSE t[p]]
    BY <2>1, MergePoints DEF Sound
  <2>5. \A p \in DOMAIN t : t[p] \in Nodes
    <3>1. PICK P \in SUBSET Path : t \in [P -> Nodes]
      OBVIOUS
    <3>. HIDE DEF Nodes
    <3>. QED
      BY <3>1
  <2>6. \A p \in DOMAIN o : o[p] \in Nodes
    BY <2>1
  <2>. HIDE DEF M, o, Nodes
  <2>7. M \in [DOMAIN M -> Nodes]
    BY <2>4, <2>5, <2>6
  <2>. QED
    BY <2>2, <2>3, <2>7 DEF M, o
<1>. HIDE DEF T
<1>5. step \in [1..n -> [T -> T]]
  BY <1>4
<1>6. PICK f \in [0..n -> T] : f[0] = start /\ \A i \in 1..n : f[i] = step[i][f[i - 1]]
  <2>. HIDE DEF step, n, start
  <2>1. Foldings(n, T, start, step) # {}
    BY ONLY <1>1, <1>3, <1>5, FoldExists
  <2>. QED
    BY <2>1 DEF Foldings
<1>7. f = Body(f)
  <2>1. ASSUME NEW i \in 0..n
        PROVE  f[i] = IF i = 0 THEN MapOf(<<>>) ELSE DeepMerge(f[i - 1], Layer(names, i))
    <3>1. CASE i = 0
      BY <1>6, <3>1
    <3>2. CASE i # 0
      <4>1. i \in 1..n /\ i - 1 \in 0..n
        BY <1>1, <3>2
      <4>2. f[i - 1] \in T /\ f[i] = step[i][f[i - 1]]
        BY <1>6, <4>1
      <4>. QED
        BY <3>2, <4>1, <4>2
    <3>. QED
      BY <3>1, <3>2
  <2>. HIDE DEF n
  <2>. QED
    BY <2>1
<1>. DEFINE g == CHOOSE h : h = Body(h)
<1>8. g = Body(g)
  BY <1>7
<1>9. Merged(names) = g[n]
  BY DEF Merged
<1>10. g[n] \in T
  <2>. DEFINE S == {i \in 0..n : g[i] \in T}
  <2>. HIDE DEF n, g
  <2>1. 0 \in S
    BY <1>1, <1>3, <1>8
  <2>2. ASSUME NEW i \in 1..n, i - 1 \in S PROVE i \in S
    <3>1. i \in 0..n /\ i # 0 /\ g[i - 1] \in T
      BY <1>1, <2>2
    <3>2. g[i] = DeepMerge(g[i - 1], Layer(names, i))
      BY <1>8, <3>1
    <3>. QED
      BY <1>4, <3>1, <3>2
  <2>. HIDE DEF S
  <2>3. \A i \in 1..n : i - 1 \in S => i \in S
    BY <2>2
  <2>4. \A i \in 0..n : i \in S
    BY ONLY <1>1, <2>1, <2>3, IntervalInduction
  <2>. QED
    BY <1>1, <2>4 DEF S
<1>. HIDE DEF g, n
<1>. QED
  BY <1>9, <1>10 DEF T

(* A profile inherits at most one tree, and it is sound.                   *)
LEMMA InheritedIsSound ==
    ASSUME NEW name, NEW tree \in InheritedSettings(name)
    PROVE  Sound(tree) /\ \A other \in InheritedSettings(name) : other = tree
<1>1. PICK names \in Chain(Library.settings, name) : tree = Merged(names)
  BY DEF InheritedSettings
<1>2. IsFiniteSet(DOMAIN Library.settings)
  BY CompositionAssumption
<1>3. names \in Seq(DOMAIN Library.settings)
  BY <1>2, ChainShape
<1>4. \A other \in InheritedSettings(name) : other = tree
  <2>1. \A n \in Chain(Library.settings, name) : n = Ascent(Library.settings, name)
    BY DEF Chain
  <2>. QED
    BY <1>1, <2>1 DEF InheritedSettings
<1>. QED
  BY <1>1, <1>3, <1>4, MergedIsSound

-----------------------------------------------------------------------------
(* The checks that a tree requires.                                        *)

(* A pair of keys is a key before a key.                                   *)
LEMMA PairIsConcat ==
    ASSUME NEW a, NEW b
    PROVE  <<a>> \o <<b>> = <<a, b>>
<1>. DEFINE S == {a, b}
            s == <<a>> \o <<b>>
            t == <<a, b>>
<1>1. <<a>> \in Seq(S) /\ <<b>> \in Seq(S) /\ t \in Seq(S)
  OBVIOUS
<1>2. s \in Seq(S) /\ Len(s) = 2 /\ s[1] = a /\ s[2] = b
  BY <1>1, ConcatProperties
<1>3. Len(t) = 2 /\ t[1] = a /\ t[2] = b
  OBVIOUS
<1>4. s \in [1..2 -> S] /\ t \in [1..2 -> S]
  BY <1>1, <1>2, <1>3, LenProperties
<1>5. \A i \in 1..2 : s[i] = t[i]
  <2>1. \A i \in 1..2 : i = 1 \/ i = 2
    OBVIOUS
  <2>. QED
    BY <1>2, <1>3, <2>1
<1>. HIDE DEF s, t
<1>6. s = t
  BY <1>4, <1>5
<1>. QED
  BY <1>6 DEF s, t

(* Where the required checks are.                                          *)
LEMMA GateIsBelow ==
    /\ "security" \in Key
    /\ "default_branch" \in Key /\ "required_status_checks" \in Key
    /\ <<"required_status_checks">> \in Path /\ GatePath \in Path /\ GatePath # <<>>
    /\ <<"default_branch">> \o <<"required_status_checks">> = GatePath
    /\ Front(GatePath) = <<"default_branch">>
<1>1. "default_branch" \in Key /\ "required_status_checks" \in Key /\ "security" \in Key
  <2>1. ToSet(GatePath) \cup {"security"} \subseteq Key
    BY CompositionAssumption DEF Key
  <2>2. "default_branch" \in ToSet(GatePath) /\ "required_status_checks" \in ToSet(GatePath)
    <3>1. DOMAIN GatePath = 1..2 /\ GatePath[1] = "default_branch" /\ GatePath[2] = "required_status_checks"
      BY DEF GatePath
    <3>2. 1 \in 1..2 /\ 2 \in 1..2
      OBVIOUS
    <3>. QED
      BY <3>1, <3>2 DEF ToSet
  <2>. QED
    BY <2>1, <2>2
<1>2. /\ <<"required_status_checks">> \in Path
      /\ <<"default_branch">> \o <<>> = <<"default_branch">>
      /\ Front(<<"required_status_checks">>) = <<>>
      /\ <<"required_status_checks">> # <<>>
  <2>1. <<>> \in Path
    BY EmptySeq DEF Path
  <2>2. /\ <<"required_status_checks">> \in Path
        /\ <<"required_status_checks">> \o <<>> = <<"required_status_checks">>
    BY <1>1, <2>1, ConsProperties, SMT
  <2>3. Front(<<"required_status_checks">> \o <<>>) = <<>>
    BY <1>1, <2>1, FrontOfCons
  <2>. QED
    BY <2>2, <2>3
<1>3. <<"default_branch">> \o <<"required_status_checks">> = GatePath
  BY PairIsConcat DEF GatePath
<1>4. /\ GatePath \in Path /\ GatePath # <<>>
      /\ Front(GatePath) = <<"default_branch">> \o Front(<<"required_status_checks">>)
  <2>1. \A p \in Path : <<"default_branch">> \o p \in Path /\ <<"default_branch">> \o p # <<>>
    BY <1>1, ConsProperties
  <2>2. \A p \in Path : p # <<>> => Front(<<"default_branch">> \o p) = <<"default_branch">> \o Front(p)
    BY <1>1, FrontOfCons
  <2>. QED
    BY <1>2, <1>3, <2>1, <2>2
<1>. QED
  BY <1>1, <1>2, <1>3, <1>4

(* Reading the required checks key by key or at their path.                *)
LEMMA RequiredIsAtGate ==
    ASSUME NEW t, IsTree(t)
    PROVE  Required(t) = IF GatePath \in DOMAIN t THEN t[GatePath].items ELSE {}
<1>. DEFINE d == "default_branch"
            r == "required_status_checks"
            b == Get(t, d)
<1>1. IsTree(b)
  BY GetType
<1>2. Required(t) = Get(b, r)[<<>>].items
  BY DEF Required
<1>3. <<r>> \in DOMAIN b <=> GatePath \in DOMAIN t
  <2>1. CASE <<d>> \in DOMAIN t
    <3>1. <<r>> \in DOMAIN b <=> <<r>> \in Path /\ <<d>> \o <<r>> \in DOMAIN t
      BY <2>1, GetBelow
    <3>. QED
      BY <3>1, GateIsBelow
  <2>2. CASE <<d>> \notin DOMAIN t
    <3>1. b = MapOf(<<>>)
      BY <2>2, GetType
    <3>2. DOMAIN b = {<<>>} /\ <<r>> # <<>>
      BY <3>1, EmptyMap
    <3>3. GatePath \notin DOMAIN t
      BY <2>2, TreePaths, GateIsBelow
    <3>. QED
      BY <3>2, <3>3
  <2>. QED
    BY <2>1, <2>2
<1>4. CASE <<r>> \in DOMAIN b
  <2>1. GatePath \in DOMAIN t
    BY <1>3, <1>4
  <2>2. <<d>> \in DOMAIN t
    BY <2>1, TreePaths, GateIsBelow
  <2>3. Get(b, r)[<<>>] = b[<<r>>]
    <3>1. Kind(Get(b, r)) = b[<<r>>].kind /\ <<>> \in DOMAIN Get(b, r)
      BY <1>1, <1>4, GetBelow, TreePaths
    <3>2. Get(b, r) = [p \in DOMAIN Get(b, r) |-> b[<<r>> \o p]]
      BY <1>1, <1>4, GetBelow
    <3>3. <<r>> \o <<>> = <<r>>
      OBVIOUS
    <3>. QED
      BY <3>1, <3>2, <3>3
  <2>4. b[<<r>>] = t[GatePath]
    <3>1. b = [p \in DOMAIN b |-> t[<<d>> \o p]]
      BY <2>2, GetBelow
    <3>. QED
      BY <1>4, <3>1, GateIsBelow
  <2>. QED
    BY <1>2, <2>1, <2>3, <2>4
<1>5. CASE <<r>> \notin DOMAIN b
  <2>1. Get(b, r) = MapOf(<<>>)
    BY <1>1, <1>5, GetType
  <2>2. Get(b, r)[<<>>].items = {}
    BY <2>1, EmptyMap DEF Node
  <2>. QED
    BY <1>2, <1>3, <1>5, <2>2
<1>. QED
  BY <1>4, <1>5

(* M is a map with t at its only key.                                      *)
Single(M, key, t) ==
    /\ \A p : p \in DOMAIN M <=> p = <<>> \/ \E q \in DOMAIN t : p = <<key>> \o q
    /\ M[<<>>] = Node("map", 0, {})
    /\ \A q \in DOMAIN t : M[<<key>> \o q] = t[q]
    /\ IsTree(M) /\ Kind(M) = "map"

(* A map with a single key.                                                *)
LEMMA MapOfOne ==
    ASSUME NEW key \in Key, NEW t, IsTree(t), NEW map, DOMAIN map = {key}, map[key] = t
    PROVE  Single(MapOf(map), key, t)
<1>. DEFINE M == MapOf(map)
<1>1. DOMAIN t \subseteq Path
  BY TreePaths
<1>2. \A p : p \in DOMAIN M <=> p = <<>> \/ \E q \in DOMAIN t : p = <<key>> \o q
  BY DEF MapOf
<1>3. M[<<>>] = Node("map", 0, {})
  BY <1>2 DEF MapOf
<1>4. ASSUME NEW q \in DOMAIN t PROVE M[<<key>> \o q] = t[q]
  <2>1. <<key>> \o q \in DOMAIN M
    BY <1>2
  <2>2. <<key>> \o q # <<>> /\ Head(<<key>> \o q) = key /\ Tail(<<key>> \o q) = q
    BY <1>1, ConsProperties
  <2>3. M[<<key>> \o q] = map[Head(<<key>> \o q)][Tail(<<key>> \o q)]
    BY <2>1, <2>2 DEF MapOf
  <2>. QED
    BY <2>2, <2>3
<1>. HIDE DEF M
<1>5. DOMAIN M \subseteq Path
  <2>1. <<>> \in Path
    BY EmptySeq DEF Path
  <2>2. \A q \in DOMAIN t : <<key>> \o q \in Path
    BY <1>1, ConsProperties
  <2>. QED
    BY <1>2, <2>1, <2>2, ZenonT(60)
<1>6. ASSUME NEW p \in DOMAIN M
      PROVE  /\ p # <<>> => Front(p) \in DOMAIN M /\ M[Front(p)].kind = "map"
             /\ IsNode(M[p])
  <2>1. CASE p = <<>>
    BY <1>3, <2>1 DEF Node, IsNode
  <2>2. CASE p # <<>>
    <3>1. PICK q \in DOMAIN t : p = <<key>> \o q
      BY <1>2, <2>2
    <3>2. /\ q = <<>> => Front(p) = <<>>
          /\ q # <<>> => Front(p) = <<key>> \o Front(q)
      BY <1>1, <3>1, FrontOfCons
    <3>3. CASE q = <<>>
      <4>1. Front(p) = <<>> /\ <<>> \in DOMAIN M /\ M[<<>>].kind = "map"
        BY <1>2, <1>3, <3>2, <3>3 DEF Node
      <4>2. M[p] = t[q] /\ IsNode(t[q])
        BY <1>4, <3>1, TreePaths
      <4>. QED
        BY <4>1, <4>2
    <3>4. CASE q # <<>>
      <4>1. Front(q) \in DOMAIN t /\ t[Front(q)].kind = "map"
        BY <3>4, TreePaths
      <4>2. Front(p) \in DOMAIN M /\ M[Front(p)] = t[Front(q)]
        BY <1>2, <1>4, <3>2, <3>4, <4>1
      <4>3. M[p] = t[q] /\ IsNode(t[q])
        BY <1>4, <3>1, TreePaths
      <4>. QED
        BY <4>1, <4>2, <4>3
    <3>. QED
      BY <3>3, <3>4
  <2>. QED
    BY <2>1, <2>2
<1>7. IsTree(M)
  BY <1>2, <1>5, <1>6 DEF IsTree, Path, Key
<1>8. Kind(M) = "map"
  BY <1>3 DEF Kind, Node
<1>. QED
  BY <1>2, <1>3, <1>4, <1>7, <1>8 DEF M, Single

CheckTree(items) == MapOf([default_branch |-> MapOf([required_status_checks |-> ListOf(items)])])

(* The tree that is merged to ask for the checks.                          *)
LEMMA CheckTreeShape ==
    ASSUME NEW items
    PROVE  /\ IsTree(CheckTree(items)) /\ Kind(CheckTree(items)) = "map"
           /\ \A p : p \in DOMAIN CheckTree(items) <=> p \in {<<>>, <<"default_branch">>, GatePath}
           /\ CheckTree(items)[<<"default_branch">>].kind = "map"
           /\ CheckTree(items)[GatePath] = Node("list", 0, items)
<1>. DEFINE d == "default_branch"
            r == "required_status_checks"
            L == ListOf(items)
            B == MapOf([required_status_checks |-> L])
            C == MapOf([default_branch |-> B])
<1>1. IsTree(L) /\ DOMAIN L = {<<>>} /\ L[<<>>] = Node("list", 0, items)
  <2>1. DOMAIN L = {<<>>} /\ L[<<>>] = Node("list", 0, items)
    BY DEF ListOf
  <2>2. <<>> \in Seq(STRING) /\ L[<<>>].kind = "list" /\ IsNode(L[<<>>])
    BY <2>1, EmptySeq DEF Node, IsNode
  <2>. HIDE DEF L
  <2>. QED
    BY <2>1, <2>2 DEF IsTree
<1>. HIDE DEF L
<1>2. DOMAIN [required_status_checks |-> L] = {r} /\ [required_status_checks |-> L][r] = L
  OBVIOUS
<1>3. /\ \A p : p \in DOMAIN B <=> p = <<>> \/ \E q \in DOMAIN L : p = <<r>> \o q
      /\ B[<<>>] = Node("map", 0, {})
      /\ \A q \in DOMAIN L : B[<<r>> \o q] = L[q]
      /\ IsTree(B) /\ Kind(B) = "map"
  <2>. DEFINE map == [required_status_checks |-> L]
  <2>1. DOMAIN map = {r} /\ map[r] = L /\ r \in Key
    BY <1>2, GateIsBelow
  <2>. HIDE DEF map, r
  <2>2. IsTree(L)
    BY <1>1
  <2>. HIDE DEF L
  <2>3. Single(MapOf(map), r, L)
    BY ONLY <2>1, <2>2, MapOfOne
  <2>. QED
    BY <2>3 DEF map, r, Single, L
<1>4. <<r>> \o <<>> = <<r>>
  OBVIOUS
<1>5. /\ \A p : p \in DOMAIN B <=> p \in {<<>>, <<r>>}
      /\ B[<<>>].kind = "map" /\ B[<<r>>] = Node("list", 0, items)
  BY <1>1, <1>3, <1>4 DEF Node
<1>6. IsTree(B)
  BY <1>3
<1>. HIDE DEF B
<1>7. /\ \A p : p \in DOMAIN C <=> p = <<>> \/ \E q \in DOMAIN B : p = <<d>> \o q
      /\ \A q \in DOMAIN B : C[<<d>> \o q] = B[q]
      /\ IsTree(C) /\ Kind(C) = "map"
  <2>. DEFINE map == [default_branch |-> B]
  <2>1. DOMAIN map = {d} /\ map[d] = B /\ d \in Key
    BY GateIsBelow
  <2>. HIDE DEF map, d
  <2>2. IsTree(B)
    BY <1>6
  <2>. HIDE DEF B
  <2>3. Single(MapOf(map), d, B)
    BY ONLY <2>1, <2>2, MapOfOne
  <2>. QED
    BY <2>3 DEF map, d, Single, B
<1>8. <<d>> \o <<>> = <<d>> /\ <<d>> \o <<r>> = GatePath
  BY GateIsBelow
<1>. HIDE DEF C
<1>9. /\ \A p : p \in DOMAIN C <=> p \in {<<>>, <<d>>, GatePath}
      /\ C[<<d>>].kind = "map" /\ C[GatePath] = Node("list", 0, items)
  BY <1>5, <1>7, <1>8
<1>10. C = CheckTree(items)
  BY DEF C, B, L, CheckTree
<1>. QED
  BY <1>7, <1>9, <1>10

(* Asking for the checks of the pipelines changes nothing else.            *)
LEMMA GateIsMerged ==
    ASSUME NEW tree, IsTree(tree), Kind(tree) = "map", NEW checks, NEW R \in WithChecks(tree, checks)
    PROVE  /\ IsTree(R) /\ Required(R) = Required(tree) \cup checks
           /\ \A key \in Key : key # "default_branch" => Get(R, key) = Get(tree, key)
           /\ \A key \in Keys(Get(tree, "default_branch")) :
                 /\ key \in Keys(Get(R, "default_branch"))
                 /\ \/ Get(Get(R, "default_branch"), key) = Get(Get(tree, "default_branch"), key)
                    \/ /\ key = "required_status_checks"
                       /\ Kind(Get(Get(R, "default_branch"), key)) = "list"
           /\ \A p \in DOMAIN R : p \in DOMAIN tree \cup {<<>>, <<"default_branch">>, GatePath}
<1>. DEFINE d == "default_branch"
            r == "required_status_checks"
            C == CheckTree(Required(tree) \cup checks)
            b == Get(tree, d)
            c == Get(C, d)
<1>1. CASE checks = {}
  BY <1>1 DEF WithChecks
<1>2. CASE checks # {}
  <2>1. R = DeepMerge(tree, C) /\ Kind(b) = "map"
    BY <1>2 DEF WithChecks, CheckTree
  <2>2. /\ IsTree(C) /\ Kind(C) = "map"
        /\ \A p : p \in DOMAIN C <=> p \in {<<>>, <<d>>, GatePath}
        /\ C[<<d>>].kind = "map" /\ C[GatePath] = Node("list", 0, Required(tree) \cup checks)
    BY CheckTreeShape
  <2>. HIDE DEF C
  <2>3. IsTree(R)
    BY <2>1, <2>2, MergeIsTree
  <2>4. Required(R) = Required(tree) \cup checks
    <3>1. GatePath \in DOMAIN C
      BY <2>2
    <3>2. GatePath \in DOMAIN R /\ R[GatePath] = C[GatePath]
      BY <2>1, <2>2, <3>1, MergePoints
    <3>3. R[GatePath].items = Required(tree) \cup checks
      BY <2>2, <3>2 DEF Node
    <3>. QED
      BY <2>3, <3>2, <3>3, RequiredIsAtGate
  <2>5. ASSUME NEW key \in Key, key # d PROVE Get(R, key) = Get(tree, key)
    <3>1. <<key>> \notin DOMAIN C
      <4>1. <<key>> # <<>> /\ <<key>> # <<d>> /\ <<key>> # GatePath
        BY <2>5 DEF GatePath
      <4>. QED
        BY <2>2, <4>1
    <3>. QED
      BY <2>1, <2>2, <3>1, MergeGet
  <2>6. ASSUME NEW key \in Keys(b)
        PROVE  /\ key \in Keys(Get(R, d))
               /\ Get(Get(R, d), key) = Get(b, key) \/ (key = r /\ Kind(Get(Get(R, d), key)) = "list")
    <3>1. IsTree(b) /\ <<key>> \in DOMAIN b /\ key \in Key
      <4>1. IsTree(b)
        BY GetType
      <4>. QED
        BY <4>1, KeysAt
    <3>2. <<d>> \in DOMAIN tree
      <4>1. SUFFICES ASSUME <<d>> \notin DOMAIN tree PROVE FALSE
        OBVIOUS
      <4>2. b = MapOf(<<>>)
        BY <4>1, GetType
      <4>. QED
        BY <4>2, EmptyMap
    <3>3. <<d>> \in DOMAIN C /\ d \in Key
      BY <2>2, GateIsBelow
    <3>4. Get(R, d) = DeepMerge(b, c)
      BY <2>1, <2>2, <3>2, <3>3, MergeGet
    <3>5. IsTree(c) /\ Kind(c) = "map"
      BY <2>2, <3>3, GetBelow
    <3>. HIDE DEF b, c
    <3>6. /\ <<key>> \in DOMAIN DeepMerge(b, c)
          /\ Get(DeepMerge(b, c), key) = IF <<key>> \notin DOMAIN c THEN Get(b, key)
                                         ELSE DeepMerge(Get(b, key), Get(c, key))
      BY <2>1, <3>1, <3>5, MergeGet
    <3>7. IsTree(DeepMerge(b, c))
      BY <3>1, <3>5, MergeIsTree
    <3>8. key \in Keys(Get(R, d))
      BY <3>4, <3>6, <3>7, KeysAt
    <3>9. CASE <<key>> \notin DOMAIN c
      BY <3>4, <3>6, <3>8, <3>9
    <3>10. CASE <<key>> \in DOMAIN c
      <4>1. <<d>> \o <<key>> \in DOMAIN C
        BY <2>2, <3>3, <3>10, GetBelow DEF c
      <4>2. <<d>> \o <<key>> = <<d, key>>
        BY PairIsConcat
      <4>3. key = r /\ <<d>> \o <<key>> = GatePath
        <5>1. <<d, key>> # <<>> /\ <<d, key>> # <<d>>
          OBVIOUS
        <5>2. <<d, key>> = GatePath
          BY <2>2, <4>1, <4>2, <5>1
        <5>3. <<d, key>>[2] = key /\ GatePath[2] = r
          BY DEF GatePath
        <5>. QED
          BY <4>2, <5>2, <5>3
      <4>4. Kind(Get(c, key)) = c[<<key>>].kind /\ IsTree(Get(c, key)) /\ IsTree(Get(b, key))
        BY <3>1, <3>5, <3>10, GetBelow, GetType
      <4>5. c[<<key>>] = C[<<d>> \o <<key>>]
        <5>1. c = [p \in DOMAIN c |-> C[<<d>> \o p]]
          BY <2>2, <3>3, GetBelow DEF c
        <5>. QED
          BY <3>10, <5>1
      <4>6. C[<<d>> \o <<key>>].kind = "list"
        <5>1. C[GatePath].kind = "list"
          BY <2>2 DEF Node
        <5>. QED
          BY <4>3, <5>1
      <4>7. Kind(DeepMerge(Get(b, key), Get(c, key))) = "list"
        BY <4>4, <4>5, <4>6, MergeIsTree
      <4>. QED
        BY <3>4, <3>6, <3>8, <3>10, <4>3, <4>7
    <3>. QED
      BY <3>9, <3>10
  <2>7. ASSUME NEW p \in DOMAIN R PROVE p \in DOMAIN tree \cup {<<>>, <<d>>, GatePath}
    <3>1. p \in DOMAIN C \/ p \in DOMAIN tree
      BY <2>1, <2>2, MergePoints
    <3>. QED
      BY <2>2, <3>1
  <2>. QED
    BY <2>3, <2>4, <2>5, <2>6, <2>7
<1>. QED
  BY <1>1, <1>2

-----------------------------------------------------------------------------
(* What an accepted override makes of the settings of a profile.           *)

(* No required check is new, and no branch setting is gone or retyped.     *)
Kept(base, tree) ==
    /\ IsTree(tree) /\ Kind(tree) = "map" /\ Required(tree) \subseteq Required(base)
    /\ \A key \in Keys(Get(base, "default_branch")) :
          /\ key \in Keys(Get(tree, "default_branch"))
          /\ Kind(Get(Get(tree, "default_branch"), key)) = Kind(Get(Get(base, "default_branch"), key))

(* An accepted override adds no required check and retypes no key.         *)
LEMMA OverrideIsKept ==
    ASSUME NEW base, Sound(base), NEW over, IsTree(over), NEW tree \in OverriddenSettings(base, over)
    PROVE  Kept(base, tree)
<1>1. /\ tree = DeepMerge(base, over) /\ Kind(over) = "map" /\ ~HasList(over)
      /\ KeepsTypes(Get(base, "default_branch"), Get(tree, "default_branch"))
  BY DEF OverriddenSettings
<1>2. IsTree(base) /\ IsTree(tree) /\ Kind(tree) = "map"
  BY <1>1, MergeIsTree DEF Sound
<1>3. ASSUME GatePath \in DOMAIN over PROVE over[GatePath].items = {}
  <2>1. over[GatePath].kind # "list"
    BY <1>1, <1>3, GateIsBelow DEF HasList
  <2>. QED
    BY <1>3, <2>1, TreePaths DEF IsNode
<1>4. Required(tree) \subseteq Required(base)
  <2>1. ASSUME GatePath \in DOMAIN tree
        PROVE  tree[GatePath].items \subseteq Required(base)
    <3>1. /\ GatePath \in DOMAIN over \/ GatePath \in DOMAIN base
          /\ tree[GatePath] = IF GatePath \in DOMAIN over THEN over[GatePath] ELSE base[GatePath]
      BY <1>1, <1>2, <2>1, MergePoints
    <3>2. GatePath \in DOMAIN base => Required(base) = base[GatePath].items
      BY <1>2, RequiredIsAtGate
    <3>. QED
      BY <1>3, <3>1, <3>2
  <2>2. Required(tree) = IF GatePath \in DOMAIN tree THEN tree[GatePath].items ELSE {}
    BY <1>2, RequiredIsAtGate
  <2>. QED
    BY <2>1, <2>2
<1>. QED
  BY <1>1, <1>2, <1>4 DEF Kept, KeepsTypes

(* So it is for whatever ResolveSettings yields.                           *)
LEMMA ResolvedIsKept ==
    ASSUME NEW p, NEW o \in Overrides, NEW tree \in ResolveSettings(p, o)
    PROVE  /\ \E base \in InheritedSettings(p.settings) : Sound(base) /\ Kept(base, tree)
           /\ Holds(Floor, Get(tree, "security"))
<1>1. PICK base \in InheritedSettings(p.settings) :
          tree \in IF "settings" \in DOMAIN o THEN OverriddenSettings(base, o.settings) ELSE {base}
  BY DEF ResolveSettings
<1>2. Sound(base)
  BY InheritedIsSound
<1>3. Kept(base, tree)
  <2>1. CASE "settings" \in DOMAIN o
    <3>1. IsTree(o.settings)
      BY <2>1, CompositionAssumption
    <3>. QED
      BY <1>1, <1>2, <2>1, <3>1, OverrideIsKept
  <2>2. CASE "settings" \notin DOMAIN o
    BY <1>1, <1>2, <2>2 DEF Kept, Sound
  <2>. QED
    BY <2>1, <2>2
<1>. QED
  BY <1>2, <1>3 DEF ResolveSettings

-----------------------------------------------------------------------------
(* The composed sets.                                                      *)

(* The invariant: what is recorded is what resolve_profile makes of it.    *)
ComposedInv ==
    override \in Overrides /\ outcome.sets \subseteq Compose(profile, override, docs)

(* What is recorded has been composed from the profile and override.       *)
LEMMA ComposedOnly == CompositionSpec => []ComposedInv
<1>1. CompositionInit => ComposedInv
  BY DEF CompositionInit, ComposedInv
<1>2. ComposedInv /\ [ResolveProfile]_compositionVars => ComposedInv'
  BY DEF ComposedInv, ResolveProfile, compositionVars
<1>. QED
  BY <1>1, <1>2, PTL DEF CompositionSpec

(* The parts that a composed set has been made of.                         *)
LEMMA ComposedFrom ==
    ASSUME ComposedInv, NEW set \in outcome.sets
    PROVE  /\ set.pipelines \in ResolvePipelines(profile, override, docs)
           /\ \E tree \in ResolveSettings(profile, override) :
                 set.settings \in WithChecks(tree, ChecksOf(profile, set.pipelines))
<1>1. PICK pair \in ResolvePipelines(profile, override, docs) \X ResolveSettings(profile, override) :
          set \in [pipelines : {pair[1]},
                   settings : WithChecks(pair[2], ChecksOf(profile, pair[1])),
                   locations : ResolveVersionSource(profile, override)]
  BY DEF ComposedInv, Compose
<1>2. /\ set.pipelines = pair[1]
      /\ set.settings \in WithChecks(pair[2], ChecksOf(profile, pair[1]))
  BY <1>1
<1>3. /\ pair[1] \in ResolvePipelines(profile, override, docs)
      /\ pair[2] \in ResolveSettings(profile, override)
  OBVIOUS
<1>. QED
  BY <1>2, <1>3

(* No chain of bundles and no override that resolve_profile accepts leads  *)
(* to a repository without the always-on pipelines, with a security toggle *)
(* below the floor or with a key of branch protection missing or retyped.  *)
THEOREM NothingGoesBelowBaseline == CompositionSpec => []BaselineHolds
<1>1. ComposedInv => BaselineHolds
  <2>. SUFFICES ASSUME ComposedInv, NEW set \in outcome.sets
                PROVE  /\ \A name \in DOMAIN Manifest :
                             Manifest[name].always => name \in ToSet(set.pipelines)
                       /\ \A path \in DOMAIN Floor :
                             LET final == Get(set.settings, "security")
                             IN  /\ path \in DOMAIN final
                                 /\ final[path].kind = Floor[path].kind
                                 /\ Floor[path].kind \in {"bool", "int"} =>
                                       final[path].value >= Floor[path].value
                                 /\ Floor[path].items \subseteq final[path].items
                       /\ \A tree \in InheritedSettings(profile.settings) :
                             \A key \in Keys(Get(tree, "default_branch")) :
                                LET final == Get(set.settings, "default_branch")
                                IN  /\ key \in Keys(final)
                                    /\ Kind(Get(final, key)) = Kind(Get(Get(tree, "default_branch"), key))
    BY DEF BaselineHolds
  <2>. DEFINE S == set.settings
              d == "default_branch"
  <2>1. PICK tree \in ResolveSettings(profile, override) :
            S \in WithChecks(tree, ChecksOf(profile, set.pipelines))
    BY ComposedFrom
  <2>2. PICK base \in InheritedSettings(profile.settings) : Sound(base) /\ Kept(base, tree)
    BY ResolvedIsKept DEF ComposedInv
  <2>3. IsTree(tree) /\ Kind(tree) = "map"
    BY <2>2 DEF Kept
  <2>. HIDE DEF S
  <2>4. ASSUME NEW name \in DOMAIN Manifest, Manifest[name].always
        PROVE  name \in ToSet(set.pipelines)
    <3>1. AlwaysOn \subseteq ToSet(set.pipelines)
      BY ComposedFrom DEF ResolvePipelines
    <3>. QED
      BY <2>4, <3>1 DEF AlwaysOn
  <2>5. ASSUME NEW path \in DOMAIN Floor
        PROVE  /\ path \in DOMAIN Get(S, "security")
               /\ Get(S, "security")[path].kind = Floor[path].kind
               /\ Floor[path].kind \in {"bool", "int"} =>
                     Get(S, "security")[path].value >= Floor[path].value
               /\ Floor[path].items \subseteq Get(S, "security")[path].items
    <3>. DEFINE block == Get(S, "security")
    <3>1. block = Get(tree, "security")
      <4>1. "security" \in Key /\ "security" # d
        BY GateIsBelow
      <4>. QED
        BY <2>1, <2>3, <4>1, GateIsMerged
    <3>2. IsTree(block) /\ Holds(Floor, block)
      BY <2>1, <2>3, <3>1, GetType, ResolvedIsKept DEF ComposedInv
    <3>3. /\ IsTree(Floor) /\ Kind(Floor) = "map"
          /\ path \in Path
      BY CompositionAssumption, TreePaths
    <3>. HIDE DEF block
    <3>4. CASE path = <<>>
      <4>1. <<>> \in DOMAIN block /\ block[<<>>].kind = "map" /\ Floor[<<>>].kind = "map"
        BY <3>2, <3>3, TreePaths DEF Holds, Kind
      <4>2. Floor[<<>>].items = {}
        BY <3>3, <3>4, <4>1, TreePaths DEF IsNode
      <4>. QED
        BY <3>4, <4>1, <4>2 DEF block
    <3>5. CASE path # <<>>
      <4>. DEFINE key == Head(path)
                  rest == Tail(path)
      <4>1. key \in Key /\ rest \in Path /\ path = <<key>> \o rest
        BY <3>3, <3>5, ConsSplit
      <4>. HIDE DEF key, rest
      <4>2. <<key>> \in DOMAIN Floor
        <5>1. <<>> \in Path /\ IsPrefix(<<>>, rest)
          BY <4>1, RootIsPrefix
        <5>2. IsPrefix(<<key>> \o <<>>, path)
          BY <4>1, <5>1, ConsPrefix
        <5>3. <<key>> \o <<>> = <<key>> /\ <<key>> \in Path
          BY <4>1, ConsProperties
        <5>. QED
          BY <3>3, <5>2, <5>3, AboveAreMaps
      <4>3. rest \in DOMAIN Get(Floor, key) /\ Get(Floor, key)[rest] = Floor[path]
        <5>1. /\ \A p : p \in DOMAIN Get(Floor, key) <=> p \in Path /\ <<key>> \o p \in DOMAIN Floor
              /\ Get(Floor, key) = [p \in DOMAIN Get(Floor, key) |-> Floor[<<key>> \o p]]
          BY <3>3, <4>2, GetBelow
        <5>2. rest \in DOMAIN Get(Floor, key)
          BY <4>1, <5>1
        <5>. QED
          BY <4>1, <5>1, <5>2
      <4>4. key \in Keys(block) /\ ~Weakens(Get(Floor, key), Get(block, key))
        BY <3>2, <3>3, <4>2, KeysAt DEF Holds
      <4>5. rest \in DOMAIN Get(block, key) /\ AtLeast(Get(block, key)[rest], Floor[path])
        BY <4>3, <4>4 DEF Weakens
      <4>6. path \in DOMAIN block /\ Get(block, key)[rest] = block[path]
        <5>1. <<key>> \in DOMAIN block
          BY <3>2, <4>4, KeysAt
        <5>2. /\ \A p : p \in DOMAIN Get(block, key) <=> p \in Path /\ <<key>> \o p \in DOMAIN block
              /\ Get(block, key) = [p \in DOMAIN Get(block, key) |-> block[<<key>> \o p]]
          BY <3>2, <5>1, GetBelow
        <5>. QED
          BY <4>1, <4>5, <5>2
      <4>7. IsNode(Floor[path]) /\ IsNode(block[path])
        BY <3>2, <3>3, <4>6, TreePaths
      <4>8. AtLeast(block[path], Floor[path])
        BY <4>5, <4>6
      <4>. HIDE DEF IsTree
      <4>. QED
        BY <4>6, <4>7, <4>8 DEF AtLeast, IsNode, block
    <3>. QED
      BY <3>4, <3>5
  <2>6. ASSUME NEW inherited \in InheritedSettings(profile.settings),
               NEW key \in Keys(Get(inherited, d))
        PROVE  /\ key \in Keys(Get(S, d))
               /\ Kind(Get(Get(S, d), key)) = Kind(Get(Get(inherited, d), key))
    <3>1. inherited = base
      BY InheritedIsSound
    <3>2. /\ key \in Keys(Get(tree, d))
          /\ Kind(Get(Get(tree, d), key)) = Kind(Get(Get(base, d), key))
      BY <2>2, <3>1 DEF Kept
    <3>3. /\ key \in Keys(Get(S, d))
          /\ \/ Get(Get(S, d), key) = Get(Get(tree, d), key)
             \/ key = "required_status_checks" /\ Kind(Get(Get(S, d), key)) = "list"
      BY <2>1, <2>3, <3>2, GateIsMerged
    <3>4. CASE Get(Get(S, d), key) = Get(Get(tree, d), key)
      BY <3>1, <3>2, <3>3, <3>4
    <3>5. CASE key = "required_status_checks" /\ Kind(Get(Get(S, d), key)) = "list"
      <4>1. GatePath \in DOMAIN base /\ Kind(Get(Get(base, d), key)) = base[GatePath].kind
        <5>1. IsTree(base) /\ IsTree(Get(base, d)) /\ <<key>> \in DOMAIN Get(base, d)
          BY <2>2, <3>1, GetType, KeysAt DEF Sound
        <5>2. <<d>> \in DOMAIN base
          <6>1. <<d>> \notin DOMAIN base => Get(base, d) = MapOf(<<>>)
            BY <5>1, GetType
          <6>. QED
            BY <3>1, <6>1, EmptyMap
        <5>3. <<d>> \o <<key>> \in DOMAIN base /\ Get(base, d)[<<key>>] = base[<<d>> \o <<key>>]
          <6>1. /\ \A p : p \in DOMAIN Get(base, d) <=> p \in Path /\ <<d>> \o p \in DOMAIN base
                /\ Get(base, d) = [p \in DOMAIN Get(base, d) |-> base[<<d>> \o p]]
            BY <5>1, <5>2, GetBelow
          <6>. QED
            BY <5>1, <6>1
        <5>4. <<d>> \o <<key>> = GatePath
          BY <3>5, PairIsConcat DEF GatePath
        <5>5. Kind(Get(Get(base, d), key)) = Get(base, d)[<<key>>].kind
          BY <5>1, GetBelow
        <5>. QED
          BY <5>3, <5>4, <5>5
      <4>. QED
        BY <2>2, <3>1, <3>3, <3>5, <4>1 DEF Sound, GateIsList
    <3>. QED
      BY <3>3, <3>4, <3>5
  <2>. QED
    BY <2>4, <2>5, <2>6 DEF S
<1>. QED
  BY <1>1, ComposedOnly, PTL

(* The merge gate that resolve_profile composes asks for what the composed *)
(* pipelines report, no more and no less: a consumer who adds or removes a *)
(* pipeline moves the two together.                                        *)
THEOREM GateMatchesPipelines == CompositionSpec => []RequiredChecksAreProduced
<1>1. ComposedInv => RequiredChecksAreProduced
  <2>. SUFFICES ASSUME ComposedInv, NEW set \in outcome.sets
                PROVE  LET listed == UNION {Required(tree) : tree \in InheritedSettings(profile.settings)}
                           produced == {Manifest[set.pipelines[i]].check :
                                           i \in DOMAIN set.pipelines} \ {None}
                       IN  Required(set.settings) \ listed = produced \ listed
    BY DEF RequiredChecksAreProduced
  <2>. DEFINE listed == UNION {Required(tree) : tree \in InheritedSettings(profile.settings)}
              produced == {Manifest[set.pipelines[i]].check : i \in DOMAIN set.pipelines} \ {None}
  <2>1. PICK tree \in ResolveSettings(profile, override) :
            set.settings \in WithChecks(tree, ChecksOf(profile, set.pipelines))
    BY ComposedFrom
  <2>2. PICK base \in InheritedSettings(profile.settings) : Sound(base) /\ Kept(base, tree)
    BY ResolvedIsKept DEF ComposedInv
  <2>3. Required(set.settings) = Required(tree) \cup ChecksOf(profile, set.pipelines)
    BY <2>1, <2>2, GateIsMerged DEF Kept
  <2>4. Required(tree) \subseteq listed
    BY <2>2 DEF Kept
  <2>5. ChecksOf(profile, set.pipelines) = produced
    BY DEF ChecksOf, ToSet
  <2>. HIDE DEF listed, produced
  <2>6. Required(set.settings) \ listed = produced \ listed
    BY <2>3, <2>4, <2>5
  <2>. QED
    BY <2>6 DEF listed, produced
<1>. QED
  BY <1>1, ComposedOnly, PTL

-----------------------------------------------------------------------------
(* Lists of names.                                                         *)

(* The members of a concatenation.                                         *)
LEMMA ConcatMembers ==
    ASSUME NEW S, NEW s \in Seq(S), NEW t \in Seq(S)
    PROVE  /\ s \o t \in Seq(S) /\ ToSet(s \o t) = ToSet(s) \cup ToSet(t)
           /\ IsInjective(s) /\ IsInjective(t) /\ ToSet(s) \cap ToSet(t) = {} => IsInjective(s \o t)
<1>. DEFINE c == s \o t
<1>1. /\ c \in Seq(S) /\ Len(s) \in Nat /\ Len(t) \in Nat /\ Len(c) = Len(s) + Len(t)
      /\ DOMAIN s = 1..Len(s) /\ DOMAIN t = 1..Len(t) /\ DOMAIN c = 1..Len(c)
      /\ \A i \in 1..Len(s) + Len(t) : c[i] = IF i <= Len(s) THEN s[i] ELSE t[i - Len(s)]
  BY ConcatProperties, LenProperties
<1>. HIDE DEF c
<1>2. \A i \in DOMAIN s : i \in DOMAIN c /\ c[i] = s[i]
  BY <1>1
<1>3. \A i \in DOMAIN t : i + Len(s) \in DOMAIN c /\ c[i + Len(s)] = t[i]
  BY <1>1
<1>4. \A i \in DOMAIN c : \/ i \in DOMAIN s /\ c[i] = s[i]
                          \/ i - Len(s) \in DOMAIN t /\ c[i] = t[i - Len(s)] /\ i \notin DOMAIN s
  BY <1>1
<1>5. ToSet(c) = ToSet(s) \cup ToSet(t)
  BY <1>2, <1>3, <1>4 DEF ToSet
<1>6. ASSUME IsInjective(s), IsInjective(t), ToSet(s) \cap ToSet(t) = {} PROVE IsInjective(c)
  <2>. SUFFICES ASSUME NEW i \in DOMAIN c, NEW j \in DOMAIN c, c[i] = c[j] PROVE i = j
    BY DEF IsInjective
  <2>1. \A k \in DOMAIN s, l \in DOMAIN t : s[k] # t[l]
    BY <1>6 DEF ToSet
  <2>2. i \in Int /\ j \in Int /\ Len(s) \in Int
    BY <1>1
  <2>3. CASE i \in DOMAIN s
    BY <1>4, <1>6, <2>1, <2>3 DEF IsInjective
  <2>4. CASE i \notin DOMAIN s
    <3>1. i - Len(s) \in DOMAIN t /\ c[i] = t[i - Len(s)]
      BY <1>4, <2>4
    <3>2. j - Len(s) \in DOMAIN t /\ c[j] = t[j - Len(s)]
      BY <1>4, <2>1, <3>1
    <3>3. i - Len(s) = j - Len(s)
      BY <1>6, <3>1, <3>2 DEF IsInjective
    <3>. QED
      BY <2>2, <3>3
  <2>. QED
    BY <2>3, <2>4
<1>. QED
  BY <1>1, <1>5, <1>6 DEF c

(* The member of a list of one.                                            *)
LEMMA OneMember ==
    ASSUME NEW x
    PROVE  <<x>> \in Seq({x}) /\ ToSet(<<x>>) = {x} /\ IsInjective(<<x>>)
<1>. DEFINE s == <<x>>
<1>1. s \in Seq({x})
  OBVIOUS
<1>2. DOMAIN s = {1} /\ s[1] = x
  OBVIOUS
<1>. HIDE DEF s
<1>3. ToSet(s) = {x} /\ IsInjective(s)
  BY <1>2 DEF ToSet, IsInjective
<1>. QED
  BY <1>1, <1>3 DEF s

(* Appending adds a member.                                                *)
LEMMA AppendMember ==
    ASSUME NEW S, NEW s \in Seq(S), NEW x \in S
    PROVE  /\ Append(s, x) \in Seq(S) /\ ToSet(Append(s, x)) = ToSet(s) \cup {x}
           /\ IsInjective(s) /\ x \notin ToSet(s) => IsInjective(Append(s, x))
<1>. DEFINE t == <<x>>
<1>1. Append(s, x) = s \o t /\ t \in Seq(S)
  BY AppendIsConcat
<1>2. ToSet(t) = {x} /\ IsInjective(t)
  BY OneMember
<1>. HIDE DEF t
<1>3. /\ s \o t \in Seq(S) /\ ToSet(s \o t) = ToSet(s) \cup ToSet(t)
      /\ IsInjective(s) /\ IsInjective(t) /\ ToSet(s) \cap ToSet(t) = {} => IsInjective(s \o t)
  BY <1>1, ConcatMembers
<1>4. x \notin ToSet(s) => ToSet(s) \cap ToSet(t) = {}
  BY <1>2
<1>. QED
  BY <1>1, <1>2, <1>3, <1>4

(* The empty list.                                                         *)
LEMMA NoMember == ToSet(<<>>) = {} /\ IsInjective(<<>>)
<1>1. DOMAIN <<>> = {}
  OBVIOUS
<1>. QED
  BY <1>1 DEF ToSet, IsInjective

(* What Surviving computes: the members not removed, once each.            *)
LEMMA SurvivingMembers ==
    ASSUME NEW S, NEW base \in Seq(S), IsInjective(base), NEW remove
    PROVE  /\ Surviving(base, remove) \in Seq(S) /\ IsInjective(Surviving(base, remove))
           /\ ToSet(Surviving(base, remove)) = ToSet(base) \ ToSet(remove)
<1>. DEFINE n == Len(base)
            R == ToSet(remove)
            T == Seq(S)
            Body(f) == [i \in 0..n |-> IF i = 0 THEN <<>> ELSE IF base[i] \in R THEN f[i - 1]
                                                                ELSE Append(f[i - 1], base[i])]
            step == [i \in 1..n |-> [t \in T |-> IF base[i] \in R THEN t ELSE Append(t, base[i])]]
            start == <<>>
<1>1. n \in Nat /\ DOMAIN base = 1..n /\ \A i \in 1..n : base[i] \in S
  BY LenProperties, ElementOfSeq
<1>2. start \in T
  BY EmptySeq
<1>3. \A t \in T, i \in 1..n : Append(t, base[i]) \in T
  BY <1>1, AppendMember
<1>. HIDE DEF T
<1>4. step \in [1..n -> [T -> T]]
  BY <1>3
<1>5. PICK f \in [0..n -> T] : f[0] = start /\ \A i \in 1..n : f[i] = step[i][f[i - 1]]
  <2>. HIDE DEF step, n, start
  <2>1. Foldings(n, T, start, step) # {}
    BY ONLY <1>1, <1>2, <1>4, FoldExists
  <2>. QED
    BY <2>1 DEF Foldings
<1>6. f = Body(f)
  <2>1. ASSUME NEW i \in 0..n
        PROVE  f[i] = IF i = 0 THEN <<>> ELSE IF base[i] \in R THEN f[i - 1] ELSE Append(f[i - 1], base[i])
    <3>1. CASE i = 0
      BY <1>5, <3>1
    <3>2. CASE i # 0
      <4>1. i \in 1..n /\ i - 1 \in 0..n
        BY <1>1, <3>2
      <4>2. f[i - 1] \in T /\ f[i] = step[i][f[i - 1]]
        BY <1>5, <4>1
      <4>. QED
        BY <3>2, <4>1, <4>2
    <3>. QED
      BY <3>1, <3>2
  <2>. HIDE DEF n, R
  <2>. QED
    BY <2>1
<1>. DEFINE g == CHOOSE h : h = Body(h)
<1>7. g = Body(g)
  BY <1>6
<1>8. Surviving(base, remove) = g[n]
  BY DEF Surviving
<1>. DEFINE Left(i) == {base[j] : j \in 1..i} \ R
            Fine(i) == g[i] \in Seq(S) /\ IsInjective(g[i]) /\ ToSet(g[i]) = Left(i)
            P == {i \in 0..n : Fine(i)}
<1>. HIDE DEF g, n
<1>9. 0 \in P
  <2>1. g[0] = <<>>
    BY <1>1, <1>7
  <2>2. Left(0) = {}
    OBVIOUS
  <2>3. <<>> \in Seq(S)
    BY EmptySeq
  <2>. HIDE DEF Left
  <2>4. Fine(0)
    BY <2>1, <2>2, <2>3, NoMember
  <2>. QED
    BY <1>1, <2>4
<1>10. ASSUME NEW i \in 1..n, i - 1 \in P PROVE i \in P
  <2>1. /\ i \in 0..n /\ i # 0 /\ Fine(i - 1)
        /\ i \in DOMAIN base /\ base[i] \in S /\ \A j \in 1..i - 1 : j \in DOMAIN base /\ j # i
    BY <1>1, <1>10
  <2>2. g[i] = IF base[i] \in R THEN g[i - 1] ELSE Append(g[i - 1], base[i])
    BY <1>7, <2>1
  <2>3. \A j \in 1..i : j = i \/ j \in 1..i - 1
    BY <2>1
  <2>4. 1..i - 1 \subseteq 1..i /\ i \in 1..i
    BY <1>1, <2>1
  <2>. HIDE DEF R
  <2>5. CASE base[i] \in R
    <3>1. Left(i) = Left(i - 1)
      BY <2>3, <2>4, <2>5
    <3>. QED
      BY <2>1, <2>2, <2>5, <3>1
  <2>6. CASE base[i] \notin R
    <3>1. Left(i) = Left(i - 1) \cup {base[i]}
      BY <2>3, <2>4, <2>6
    <3>2. base[i] \notin ToSet(g[i - 1])
      BY <2>1 DEF IsInjective
    <3>3. /\ Append(g[i - 1], base[i]) \in Seq(S)
          /\ ToSet(Append(g[i - 1], base[i])) = ToSet(g[i - 1]) \cup {base[i]}
          /\ IsInjective(Append(g[i - 1], base[i]))
      BY <2>1, <3>2, AppendMember
    <3>. QED
      BY <2>1, <2>2, <2>6, <3>1, <3>3
  <2>. QED
    BY <2>5, <2>6
<1>. HIDE DEF P
<1>11. n \in P
  <2>1. \A i \in 1..n : i - 1 \in P => i \in P
    BY <1>10
  <2>2. \A i \in 0..n : i \in P
    BY ONLY <1>1, <1>9, <2>1, IntervalInduction
  <2>. QED
    BY <1>1, <2>2
<1>12. Fine(n)
  BY <1>11 DEF P
<1>13. {base[j] : j \in 1..n} = ToSet(base)
  BY <1>1 DEF ToSet
<1>. QED
  BY <1>8, <1>12, <1>13

(* What merge_list computes.                                               *)
LEMMA MergeListMembers ==
    ASSUME NEW base \in Seq(Key), NEW add \in Seq(Key), NEW remove \in Seq(Key),
           NEW list \in MergeList(base, add, remove)
    PROVE  /\ list \in Seq(Key) /\ IsInjective(list)
           /\ ToSet(list) = (ToSet(base) \ ToSet(remove)) \cup ToSet(add)
           /\ ToSet(add) \cap ToSet(remove) = {}
<1>. DEFINE kept == Surviving(base, remove)
<1>1. /\ IsInjective(base) /\ IsInjective(add)
      /\ ToSet(add) \cap (ToSet(remove) \cup ToSet(base)) = {}
      /\ list = kept \o add
  BY DEF MergeList, MergeAllowed
<1>2. /\ kept \in Seq(Key) /\ IsInjective(kept)
      /\ ToSet(kept) = ToSet(base) \ ToSet(remove)
  BY <1>1, SurvivingMembers
<1>. HIDE DEF kept
<1>3. ToSet(kept) \cap ToSet(add) = {}
  BY <1>1, <1>2
<1>. QED
  BY <1>1, <1>2, <1>3, ConcatMembers

-----------------------------------------------------------------------------
(* The last of the first n layers to mention a name adds it.               *)

LastAdds(layers, n, name) ==
    \E i \in 1..n : /\ name \in layers[i].in
                    /\ \A j \in 1..n : name \in layers[j].in \cup layers[j].out => j <= i

(* A list has just the names that the first n layers leave in, once each.  *)
Reflects(list, layers, n) ==
    /\ list \in Seq(Key) /\ IsInjective(list)
    /\ \A name : name \in ToSet(list) <=> LastAdds(layers, n, name)

(* With one more layer: it decides, or the layers before it do.            *)
LEMMA LastOfMore ==
    ASSUME NEW layers, NEW n \in Nat \ {0}, NEW name,
           layers[n].in \cap layers[n].out = {}
    PROVE  LastAdds(layers, n, name) <=>
              \/ name \in layers[n].in
              \/ name \notin layers[n].out /\ LastAdds(layers, n - 1, name)
<1>1. /\ n \in 1..n /\ \A j \in 1..n : j <= n
      /\ \A j \in 1..n - 1 : j \in 1..n /\ j # n
      /\ \A j \in 1..n : j = n \/ j \in 1..n - 1
      /\ \A i \in 1..n - 1 : ~(n <= i)
  OBVIOUS
<1>2. ASSUME name \in layers[n].in PROVE LastAdds(layers, n, name)
  BY <1>1, <1>2 DEF LastAdds
<1>3. ASSUME name \notin layers[n].in, name \notin layers[n].out, LastAdds(layers, n - 1, name)
      PROVE  LastAdds(layers, n, name)
  <2>1. PICK i \in 1..n - 1 :
            /\ name \in layers[i].in
            /\ \A j \in 1..n - 1 : name \in layers[j].in \cup layers[j].out => j <= i
    BY <1>3 DEF LastAdds
  <2>2. \A j \in 1..n : name \in layers[j].in \cup layers[j].out => j <= i
    BY <1>1, <1>3, <2>1
  <2>. QED
    BY <1>1, <2>1, <2>2 DEF LastAdds
<1>4. ASSUME LastAdds(layers, n, name), name \notin layers[n].in
      PROVE  name \notin layers[n].out /\ LastAdds(layers, n - 1, name)
  <2>1. PICK i \in 1..n :
            /\ name \in layers[i].in
            /\ \A j \in 1..n : name \in layers[j].in \cup layers[j].out => j <= i
    BY <1>4 DEF LastAdds
  <2>2. i \in 1..n - 1
    BY <1>1, <1>4, <2>1
  <2>3. name \notin layers[n].out
    BY <1>1, <2>1, <2>2
  <2>4. \A j \in 1..n - 1 : name \in layers[j].in \cup layers[j].out => j <= i
    BY <1>1, <2>1
  <2>. QED
    BY <2>1, <2>2, <2>3, <2>4 DEF LastAdds
<1>. QED
  BY <1>2, <1>3, <1>4

(* A merge makes the list follow one more layer.                           *)
LEMMA MergeReflects ==
    ASSUME NEW layers, NEW n \in Nat \ {0}, NEW base, Reflects(base, layers, n - 1),
           NEW add \in Seq(Key), NEW remove \in Seq(Key), NEW list \in MergeList(base, add, remove),
           layers[n].in = ToSet(add), layers[n].out = ToSet(remove)
    PROVE  Reflects(list, layers, n)
<1>1. /\ list \in Seq(Key) /\ IsInjective(list)
      /\ ToSet(list) = (ToSet(base) \ ToSet(remove)) \cup ToSet(add)
      /\ ToSet(add) \cap ToSet(remove) = {}
  BY MergeListMembers DEF Reflects
<1>2. ASSUME NEW name PROVE name \in ToSet(list) <=> LastAdds(layers, n, name)
  <2>1. LastAdds(layers, n, name) <=>
           name \in ToSet(add) \/ (name \notin ToSet(remove) /\ LastAdds(layers, n - 1, name))
    BY <1>1, LastOfMore
  <2>2. name \in ToSet(base) <=> LastAdds(layers, n - 1, name)
    BY DEF Reflects
  <2>. QED
    BY <1>1, <2>1, <2>2
<1>. QED
  BY <1>1, <1>2 DEF Reflects

(* The lists of a bundle of the library.                                   *)
LEMMA BundleLists ==
    ASSUME NEW b \in DOMAIN Library.workflows
    PROVE  LET bundle == Library.workflows[b]
           IN  /\ bundle.items \in Seq(Key) /\ bundle.add \in Seq(Key) /\ bundle.remove \in Seq(Key)
               /\ IsInjective(bundle.items)
  BY CompositionAssumption DEF Key

(* A resolved list follows all the layers of its chain.                    *)
LEMMA LayeredReflects ==
    ASSUME NEW names \in Seq(DOMAIN Library.workflows), Len(names) \in Nat \ {0}, NEW layers,
           \A i \in 1..Len(names) :
               LET bundle == Library.workflows[names[i]]
               IN  layers[i].in = ToSet(bundle.items \o bundle.add) /\ layers[i].out = ToSet(bundle.remove),
           NEW list \in Layered(Library.workflows, names)
    PROVE  Reflects(list, layers, Len(names))
<1>. DEFINE n == Len(names)
            B(i) == Library.workflows[names[i]]
            T == SUBSET Seq(Key)
            Go(i, t) == IF i = 1 THEN Rooted(B(i)) ELSE ExtendedBy(t, B(i))
            Body(f) == [i \in 0..n |-> IF i = 0 THEN {}
                                       ELSE IF i = 1 THEN Rooted(Library.workflows[names[i]])
                                       ELSE ExtendedBy(f[i - 1], Library.workflows[names[i]])]
            step == [i \in 1..n |-> [t \in T |-> Go(i, t)]]
            start == {}
<1>1. n \in Nat \ {0}
  OBVIOUS
<1>2. ASSUME NEW i \in 1..n
      PROVE  /\ B(i).items \in Seq(Key) /\ B(i).add \in Seq(Key) /\ B(i).remove \in Seq(Key)
             /\ IsInjective(B(i).items)
             /\ layers[i].in = ToSet(B(i).items \o B(i).add) /\ layers[i].out = ToSet(B(i).remove)
  <2>1. names[i] \in DOMAIN Library.workflows
    BY ElementOfSeq
  <2>. QED
    BY <2>1, BundleLists
<1>. HIDE DEF n, B
(* A root: its items are what it adds, and nothing is removed.             *)
<1>3. ASSUME NEW result \in Rooted(B(1)) PROVE Reflects(result, layers, 1)
  <2>1. 1 \in 1..n
    BY <1>1
  <2>2. B(1).add \o B(1).remove = <<>> /\ result = B(1).items
    BY DEF Rooted
  <2>3. B(1).add = <<>> /\ B(1).remove = <<>>
    BY <1>2, <2>1, <2>2, ConcatEqualIffEmpty
  <2>4. layers[1].in = ToSet(result) /\ layers[1].out = {}
    BY <1>2, <2>1, <2>2, <2>3, NoMember, ConcatEmptySeq, ZenonT(60)
  <2>5. ASSUME NEW name PROVE name \in ToSet(result) <=> LastAdds(layers, 1, name)
    <3>1. \A i \in 1..1 : i = 1 /\ i <= 1
      OBVIOUS
    <3>2. 1 \in 1..1
      OBVIOUS
    <3>. QED
      BY <2>4, <3>1, <3>2 DEF LastAdds
  <2>. QED
    BY <1>2, <2>1, <2>2, <2>5 DEF Reflects
<1>4. ASSUME NEW i \in 1..n, i # 1, NEW t, NEW result \in ExtendedBy(t, B(i)),
             \A base \in t : Reflects(base, layers, i - 1)
      PROVE  Reflects(result, layers, i)
  <2>1. B(i).items = <<>> /\ \E base \in t : result \in MergeList(base, B(i).add, B(i).remove)
    BY <1>4 DEF ExtendedBy
  <2>2. PICK base \in t : result \in MergeList(base, B(i).add, B(i).remove)
    BY <2>1
  <2>3. layers[i].in = ToSet(B(i).add) /\ layers[i].out = ToSet(B(i).remove)
    BY <1>2, <2>1, ConcatEmptySeq
  <2>4. i \in Nat \ {0}
    BY <1>1
  <2>. QED
    BY <1>2, <1>4, <2>2, <2>3, <2>4, MergeReflects
<1>5. ASSUME NEW i \in 1..n, NEW t \in T PROVE Go(i, t) \in T
  <2>1. CASE i = 1
    BY <1>2, <2>1 DEF Rooted
  <2>2. CASE i # 1
    <3>1. ASSUME NEW result \in ExtendedBy(t, B(i)) PROVE result \in Seq(Key)
      <4>1. PICK base \in t : result \in MergeList(base, B(i).add, B(i).remove)
        BY DEF ExtendedBy
      <4>2. base \in Seq(Key)
        OBVIOUS
      <4>. QED
        BY <1>2, <4>1, <4>2, MergeListMembers
    <3>. QED
      BY <2>2, <3>1
  <2>. QED
    BY <2>1, <2>2
<1>6. start \in T
  OBVIOUS
<1>. HIDE DEF T, Go
<1>7. step \in [1..n -> [T -> T]]
  BY <1>5
<1>8. PICK f \in [0..n -> T] : f[0] = start /\ \A i \in 1..n : f[i] = step[i][f[i - 1]]
  <2>1. n \in Nat
    BY <1>1
  <2>. HIDE DEF step, start
  <2>2. Foldings(n, T, start, step) # {}
    BY ONLY <1>6, <1>7, <2>1, FoldExists
  <2>. QED
    BY <2>2 DEF Foldings
<1>9. f = Body(f)
  <2>1. ASSUME NEW i \in 0..n
        PROVE  f[i] = IF i = 0 THEN {} ELSE IF i = 1 THEN Rooted(Library.workflows[names[i]])
                                       ELSE ExtendedBy(f[i - 1], Library.workflows[names[i]])
    <3>1. CASE i = 0
      BY <1>8, <3>1
    <3>2. CASE i # 0
      <4>1. i \in 1..n /\ i - 1 \in 0..n
        BY <1>1, <3>2
      <4>2. f[i - 1] \in T /\ f[i] = step[i][f[i - 1]]
        BY <1>8, <4>1
      <4>3. f[i] = Go(i, f[i - 1])
        BY <4>1, <4>2
      <4>. QED
        BY <3>2, <4>3 DEF Go, B
    <3>. QED
      BY <3>1, <3>2
  <2>. QED
    BY <2>1
<1>. DEFINE g == CHOOSE h : h = Body(h)
<1>10. g = Body(g)
  BY <1>9
<1>11. Layered(Library.workflows, names) = g[n]
  BY DEF Layered, n
<1>. HIDE DEF g
<1>. DEFINE P == {i \in 0..n : i # 0 => \A result \in g[i] : Reflects(result, layers, i)}
<1>12. 0 \in P
  BY <1>1
<1>13. ASSUME NEW i \in 1..n, i - 1 \in P PROVE i \in P
  <2>1. i \in 0..n /\ i # 0
    BY <1>1
  <2>2. g[i] = IF i = 1 THEN Rooted(B(1)) ELSE ExtendedBy(g[i - 1], B(i))
    BY <1>10, <2>1 DEF B
  <2>3. CASE i = 1
    BY <1>3, <2>1, <2>2, <2>3
  <2>4. CASE i # 1
    <3>1. i - 1 # 0
      BY <2>1, <2>4
    <3>2. \A base \in g[i - 1] : Reflects(base, layers, i - 1)
      BY <1>13, <3>1
    <3>. QED
      BY <1>4, <2>1, <2>2, <2>4, <3>2
  <2>. QED
    BY <2>3, <2>4
<1>. HIDE DEF P
<1>14. n \in P
  <2>1. \A i \in 1..n : i - 1 \in P => i \in P
    BY <1>13
  <2>2. \A i \in 0..n : i \in P
    BY ONLY <1>1, <1>12, <2>1, IntervalInduction
  <2>. QED
    BY <1>1, <2>2
<1>15. Reflects(list, layers, n)
  BY <1>1, <1>11, <1>14 DEF P
<1>. QED
  BY <1>15 DEF n

(* Nothing occurs twice in an injective sequence.                          *)
LEMMA CountOfInjective ==
    ASSUME NEW s, IsInjective(s), NEW x
    PROVE  Cardinality({i \in DOMAIN s : s[i] = x}) <= 1
<1>. DEFINE At == {i \in DOMAIN s : s[i] = x}
<1>1. CASE At = {}
  BY <1>1, FS_EmptySet
<1>2. CASE At # {}
  <2>1. PICK i \in At : TRUE
    BY <1>2
  <2>2. At = {i}
    BY <2>1 DEF IsInjective
  <2>. HIDE DEF At
  <2>3. Cardinality(At) = 1
    BY <2>2, FS_Singleton
  <2>. QED
    BY <2>3 DEF At
<1>. QED
  BY <1>1, <1>2

(* The mentions of a pipeline: those of the bundles, then the consumer's.  *)
LEMMA MentionsShape ==
    ASSUME ComposedInv, NEW layers \in Mentions
    PROVE  \E names \in Chain(Library.workflows, profile.workflows) :
              LET n == Len(names)
                  k == IF "pipelines" \in DOMAIN override THEN 1 ELSE 0
              IN  /\ DOMAIN layers = 1..n + k
                  /\ \A i \in 1..n :
                        LET bundle == Library.workflows[names[i]]
                        IN  /\ layers[i].in = ToSet(bundle.items \o bundle.add)
                            /\ layers[i].out = ToSet(bundle.remove)
                  /\ k = 1 => /\ layers[n + 1].in = ToSet(override.pipelines.add)
                              /\ layers[n + 1].out = ToSet(override.pipelines.remove)
<1>. DEFINE W == Library.workflows
            over == IF "pipelines" \in DOMAIN override THEN <<override.pipelines>> ELSE <<>>
            first(names) == [i \in 1..Len(names) |->
                                [in |-> ToSet(W[names[i]].items \o W[names[i]].add),
                                 out |-> ToSet(W[names[i]].remove)]]
            rest == [i \in DOMAIN over |-> [in |-> ToSet(over[i].add), out |-> ToSet(over[i].remove)]]
<1>1. PICK names \in Chain(W, profile.workflows) : layers = first(names) \o rest
  BY DEF Mentions
<1>. DEFINE n == Len(names)
            k == IF "pipelines" \in DOMAIN override THEN 1 ELSE 0
            Rec == {first(names)[i] : i \in 1..n} \cup {rest[i] : i \in DOMAIN over}
<1>2. n \in Nat
  <2>1. IsFiniteSet(DOMAIN W)
    BY CompositionAssumption
  <2>. QED
    BY <2>1, ChainShape
<1>3. DOMAIN over = 1..k /\ k \in Nat /\ (k = 1 => over[1] = override.pipelines)
  <2>1. CASE "pipelines" \in DOMAIN override
    BY <2>1
  <2>2. CASE "pipelines" \notin DOMAIN override
    <3>1. over = <<>> /\ k = 0
      BY <2>2
    <3>. QED
      BY <3>1
  <2>. QED
    BY <2>1, <2>2
<1>4. /\ \A i \in 1..n : /\ first(names)[i].in = ToSet(W[names[i]].items \o W[names[i]].add)
                         /\ first(names)[i].out = ToSet(W[names[i]].remove)
      /\ k = 1 => rest[1].in = ToSet(override.pipelines.add) /\ rest[1].out = ToSet(override.pipelines.remove)
  <2>1. k = 1 => 1 \in DOMAIN over
    BY <1>3
  <2>. HIDE DEF over, k
  <2>. QED
    BY <1>3, <2>1
<1>5. first(names) \in [1..n -> Rec] /\ rest \in [1..k -> Rec]
  BY <1>3
<1>. DEFINE one == first(names)
<1>. HIDE DEF first, rest, Rec, n, k
<1>6. /\ one \in Seq(Rec) /\ rest \in Seq(Rec) /\ Len(one) = n /\ Len(rest) = k
  BY <1>2, <1>3, <1>5
<1>7. /\ Len(layers) = n + k /\ layers \in Seq(Rec)
      /\ \A i \in 1..n + k : layers[i] = IF i <= n THEN one[i] ELSE rest[i - n]
  BY <1>1, <1>6, ConcatProperties
<1>8. DOMAIN layers = 1..n + k
  BY <1>7, LenProperties
<1>9. ASSUME NEW i \in 1..n
      PROVE  /\ layers[i].in = ToSet(W[names[i]].items \o W[names[i]].add)
             /\ layers[i].out = ToSet(W[names[i]].remove)
  <2>1. i \in 1..n + k /\ i <= n
    BY <1>2, <1>3
  <2>2. layers[i] = one[i]
    BY <1>7, <2>1
  <2>. QED
    BY <1>4, <2>2
<1>10. ASSUME k = 1
       PROVE  /\ layers[n + 1].in = ToSet(override.pipelines.add)
              /\ layers[n + 1].out = ToSet(override.pipelines.remove)
  <2>1. n + 1 \in 1..n + k /\ ~(n + 1 <= n) /\ n + 1 - n = 1
    BY <1>2, <1>10
  <2>. DEFINE m == n + 1
  <2>2. m \in 1..n + k /\ ~(m <= n) /\ m - n = 1
    BY <1>2, <2>1
  <2>. HIDE DEF m
  <2>3. layers[m] = rest[m - n]
    BY <1>7, <2>2
  <2>4. layers[n + 1] = rest[1]
    BY <2>2, <2>3 DEF m
  <2>. QED
    BY <1>4, <1>10, <2>4
<1>. QED
  BY <1>8, <1>9, <1>10 DEF n, k

(* However long the chain of bundles that resolve_profile merges, the last *)
(* to mention a pipeline says whether it runs, the consumer's override     *)
(* coming last of all, and merge_list lets none in twice.                  *)
THEOREM LastMentionDecides == CompositionSpec => []MembershipFollowsLastMention
<1>1. ComposedInv => MembershipFollowsLastMention
  <2>. SUFFICES ASSUME ComposedInv, NEW set \in outcome.sets, NEW layers \in Mentions,
                       NEW name \in DOMAIN Manifest
                PROVE  LET saying == {i \in DOMAIN layers : name \in layers[i].in \cup layers[i].out}
                       IN  /\ name \in ToSet(set.pipelines) <=>
                                 \/ \E i \in saying : name \in layers[i].in /\ \A j \in saying : j <= i
                                 \/ docs /\ name = profile.docs
                           /\ Cardinality({i \in DOMAIN set.pipelines : set.pipelines[i] = name}) <= 1
    BY DEF MembershipFollowsLastMention
  <2>. DEFINE W == Library.workflows
              k == IF "pipelines" \in DOMAIN override THEN 1 ELSE 0
              list == set.pipelines
  <2>1. PICK names \in Chain(W, profile.workflows) :
            /\ DOMAIN layers = 1..Len(names) + k
            /\ \A i \in 1..Len(names) :
                  /\ layers[i].in = ToSet(W[names[i]].items \o W[names[i]].add)
                  /\ layers[i].out = ToSet(W[names[i]].remove)
            /\ k = 1 => /\ layers[Len(names) + 1].in = ToSet(override.pipelines.add)
                        /\ layers[Len(names) + 1].out = ToSet(override.pipelines.remove)
    BY MentionsShape
  <2>. DEFINE n == Len(names)
              Reached(s) == Reflects(s, layers, n + k)
  <2>2. /\ names = Ascent(W, profile.workflows) /\ names \in Seq(DOMAIN W) /\ n \in Nat \ {0}
    <3>1. IsFiniteSet(DOMAIN W)
      BY CompositionAssumption
    <3>. QED
      BY <3>1, ChainShape
  <2>3. ASSUME NEW own \in OwnPipelines(profile) PROVE Reflects(own, layers, n)
    <3>1. PICK other \in Chain(W, profile.workflows) : own \in Layered(W, other)
      BY DEF OwnPipelines, ResolveList
    <3>2. other = names
      BY <2>2 DEF Chain
    <3>. QED
      BY <2>1, <2>2, <3>1, <3>2, LayeredReflects
  <2>4. PICK edited :
            /\ IF "pipelines" \notin DOMAIN override THEN edited \in OwnPipelines(profile)
               ELSE \E own \in OwnPipelines(profile) :
                       edited \in MergeList(own, override.pipelines.add, override.pipelines.remove)
            /\ list = IF docs /\ profile.docs \notin ToSet(edited) \cup {None}
                      THEN Append(edited, profile.docs) ELSE edited
            /\ ToSet(list) \subseteq DOMAIN Manifest
    <3>1. list \in ResolvePipelines(profile, override, docs)
      BY ComposedFrom
    <3>2. CASE "pipelines" \notin DOMAIN override
      BY <3>1, <3>2 DEF ResolvePipelines
    <3>3. CASE "pipelines" \in DOMAIN override
      BY <3>1, <3>3, ZenonT(60) DEF ResolvePipelines
    <3>. QED
      BY <3>2, <3>3
  <2>. HIDE DEF list
  <2>5. Reached(edited)
    <3>1. CASE "pipelines" \notin DOMAIN override
      <4>1. n + k = n
        BY <2>2, <3>1
      <4>. QED
        BY <2>3, <2>4, <3>1, <4>1
    <3>2. CASE "pipelines" \in DOMAIN override
      <4>1. PICK own \in OwnPipelines(profile) :
                edited \in MergeList(own, override.pipelines.add, override.pipelines.remove)
        BY <2>4, <3>2
      <4>2. override.pipelines.add \in Seq(Key) /\ override.pipelines.remove \in Seq(Key)
        BY <3>2, CompositionAssumption DEF ComposedInv, Key
      <4>3. k = 1 /\ n + 1 \in Nat \ {0} /\ n + 1 - 1 = n
        BY <2>2, <3>2
      <4>4. Reflects(own, layers, n + 1 - 1)
        BY <2>3, <4>3
      <4>5. /\ layers[n + 1].in = ToSet(override.pipelines.add)
            /\ layers[n + 1].out = ToSet(override.pipelines.remove)
        BY <2>1, <4>3
      <4>. DEFINE m == n + 1
      <4>6. /\ m \in Nat \ {0} /\ Reflects(own, layers, m - 1)
            /\ layers[m].in = ToSet(override.pipelines.add)
            /\ layers[m].out = ToSet(override.pipelines.remove)
        BY <4>3, <4>4, <4>5
      <4>7. m = n + k
        BY <4>3
      <4>. HIDE DEF m, n, k
      <4>8. Reflects(edited, layers, m)
        BY <4>1, <4>2, <4>6, MergeReflects
      <4>. QED
        BY <4>7, <4>8
    <3>. QED
      BY <3>1, <3>2
  <2>6. /\ edited \in Seq(Key) /\ IsInjective(edited)
        /\ name \in ToSet(edited) <=> LastAdds(layers, n + k, name)
    BY <2>5 DEF Reflects
  <2>7. /\ IsInjective(list)
        /\ name \in ToSet(list) <=> name \in ToSet(edited) \/ (docs /\ name = profile.docs)
    <3>1. name # None
      BY CompositionAssumption
    <3>2. CASE docs /\ profile.docs \notin ToSet(edited) \cup {None}
      <4>. DEFINE S == Key \cup {profile.docs}
      <4>1. edited \in Seq(S) /\ profile.docs \in S
        BY <2>6, SeqMonotonic
      <4>2. list = Append(edited, profile.docs) /\ profile.docs \notin ToSet(edited)
        BY <2>4, <3>2
      <4>. HIDE DEF S
      <4>3. IsInjective(list) /\ ToSet(list) = ToSet(edited) \cup {profile.docs}
        BY <2>6, <4>1, <4>2, AppendMember
      <4>. QED
        BY <3>2, <4>3
    <3>3. CASE ~(docs /\ profile.docs \notin ToSet(edited) \cup {None})
      BY <2>4, <2>6, <3>1, <3>3
    <3>. QED
      BY <3>2, <3>3
  <2>8. LastAdds(layers, n + k, name) <=>
           \E i \in {m \in DOMAIN layers : name \in layers[m].in \cup layers[m].out} :
              /\ name \in layers[i].in
              /\ \A j \in {m \in DOMAIN layers : name \in layers[m].in \cup layers[m].out} : j <= i
    BY <2>1 DEF LastAdds
  <2>9. Cardinality({i \in DOMAIN list : list[i] = name}) <= 1
    BY <2>7, CountOfInjective
  <2>. HIDE DEF n, k
  <2>. QED
    BY <2>6, <2>7, <2>8, <2>9 DEF list
<1>. QED
  BY <1>1, ComposedOnly, PTL

-----------------------------------------------------------------------------
(* The paths of two keys.                                                  *)

(* A path of length two is a key before a key.                             *)
LEMMA PairPath ==
    ASSUME NEW p \in Path, Len(p) = 2
    PROVE  /\ p[1] \in Key /\ p[2] \in Key /\ p = <<p[1]>> \o <<p[2]>>
           /\ Front(p) = <<p[1]>> /\ p # <<>>
<1>1. p[1] \in Key /\ p[2] \in Key /\ p # <<>>
  BY EmptySeq, ElementOfSeq, SMTT(30) DEF Path
<1>. DEFINE t == <<p[1], p[2]>>
<1>2. t \in Path /\ Len(t) = 2 /\ t[1] = p[1] /\ t[2] = p[2]
  BY <1>1 DEF Path
<1>3. \A i \in 1..2 : i = 1 \/ i = 2
  OBVIOUS
<1>4. p \in [1..2 -> Key] /\ t \in [1..2 -> Key]
  BY <1>2, LenProperties DEF Path
<1>5. p = t
  <2>1. \A i \in 1..2 : p[i] = t[i]
    BY <1>2, <1>3
  <2>. HIDE DEF t
  <2>. QED
    BY <1>4, <2>1
<1>6. p = <<p[1]>> \o <<p[2]>>
  BY <1>5, PairIsConcat
<1>7. /\ Front(p) \in Path /\ Len(Front(p)) = 1 /\ Front(p)[1] = p[1]
  <2>1. /\ Front(p) \in Path /\ Len(Front(p)) = Len(p) - 1
        /\ \A i \in 1..Len(p) - 1 : Front(p)[i] = p[i]
    BY <1>1, FrontProperties
  <2>2. Len(p) - 1 = 1 /\ 1 \in 1..1
    OBVIOUS
  <2>. QED
    BY <2>1, <2>2
<1>8. Front(p) = <<p[1]>>
  BY <1>7, SinglePath
<1>. QED
  BY <1>1, <1>6, <1>8

(* And a key before a key is a path of length two.                         *)
LEMMA PathOfPair ==
    ASSUME NEW a \in Key, NEW b \in Key
    PROVE  LET p == <<a>> \o <<b>>
           IN  p \in Path /\ Len(p) = 2 /\ p[1] = a /\ p[2] = b
<1>1. <<a>> \o <<b>> = <<a, b>>
  BY PairIsConcat
<1>. QED
  BY <1>1 DEF Path

(* An accepted override names only what the bundles name.                  *)
LEMMA OverridePairs ==
    ASSUME NEW base, Sound(base), NEW over, IsTree(over), Kind(over) = "map", ~HasUnknown(over, base)
    PROVE  \A p \in DOMAIN over : Len(p) = 2 => p \in DOMAIN base
<1>. SUFFICES ASSUME NEW p \in DOMAIN over, Len(p) = 2 PROVE p \in DOMAIN base
  OBVIOUS
<1>. DEFINE f == Front(p)
<1>1. IsTree(base) /\ Kind(base) = "map" /\ FromLibrary(base) /\ p \in Path
  BY TreePaths DEF Sound
<1>2. p # <<>> /\ f = <<p[1]>> /\ p[1] \in Key
  BY <1>1, PairPath
<1>3. f \in DOMAIN over
  BY <1>2, TreePaths
<1>4. f \in Path /\ Len(f) = 1 /\ f # <<>> /\ Front(f) = <<>>
  <2>1. <<>> \in Path /\ f = <<p[1]>> \o <<>>
    <3>1. <<>> \in Path /\ <<p[1]>> \in Seq(Key)
      BY <1>2, EmptySeq DEF Path
    <3>. QED
      BY <1>2, <3>1, ConcatEmptySeq
  <2>. DEFINE c == <<p[1]>> \o <<>>
  <2>2. c \in Path /\ c # <<>> /\ Len(c) = Len(<<>>) + 1 /\ Front(c) = <<>>
    <3>1. c \in Path /\ c # <<>> /\ Len(c) = Len(<<>>) + 1
      BY <1>2, <2>1, ConsProperties
    <3>2. Front(c) = <<>>
      BY <1>2, <2>1, FrontOfCons
    <3>. QED
      BY <3>1, <3>2
  <2>3. Len(<<>>) = 0
    OBVIOUS
  <2>. HIDE DEF c, f
  <2>. QED
    BY <2>1, <2>2, <2>3 DEF c
<1>. HIDE DEF f
<1>5. f \in DOMAIN base
  BY <1>1, <1>3, <1>4, TreePaths DEF HasUnknown, Kind
<1>6. base[f].kind = "map"
  <2>1. PICK name \in DOMAIN Library.settings :
            f \in DOMAIN Library.settings[name].settings /\ base[f] = Library.settings[name].settings[f]
    BY <1>1, <1>4, <1>5 DEF FromLibrary
  <2>. QED
    BY <1>4, <2>1, SettingsAssumption
<1>. QED
  BY <1>5, <1>6 DEF HasUnknown, f

(* The library names each key in one block, and it can be written.         *)
LEMMA PairInBundle ==
    ASSUME NEW base, Sound(base), NEW p \in DOMAIN base, Len(p) = 2
    PROVE  /\ p[2] \in Reconcilable /\ base[p].kind # "map"
           /\ \A q \in DOMAIN base \cup {GatePath} : Len(q) = 2 /\ p[2] = q[2] => p = q
<1>1. IsTree(base) /\ FromLibrary(base)
  BY DEF Sound
<1>2. \A q \in DOMAIN base : Len(q) = 2 => q # <<>>
  OBVIOUS
<1>3. PICK name \in DOMAIN Library.settings :
          p \in DOMAIN Library.settings[name].settings /\ base[p] = Library.settings[name].settings[p]
  BY <1>1, <1>2 DEF FromLibrary
<1>4. p[2] \in Reconcilable /\ base[p].kind # "map"
  BY <1>3, SettingsAssumption
<1>5. ASSUME NEW q \in DOMAIN base \cup {GatePath}, Len(q) = 2, p[2] = q[2] PROVE p = q
  <2>1. CASE q = GatePath
    BY <1>3, <1>5, <2>1, SettingsAssumption
  <2>2. CASE q \in DOMAIN base
    <3>1. PICK other \in DOMAIN Library.settings : q \in DOMAIN Library.settings[other].settings
      BY <1>1, <1>2, <1>5, <2>2 DEF FromLibrary
    <3>. QED
      BY <1>3, <1>5, <3>1, SettingsAssumption
  <2>. QED
    BY <2>1, <2>2
<1>. QED
  BY <1>4, <1>5

(* What an accepted override says of a key is what the merged tree has.    *)
LEMMA OverrideReplaces ==
    ASSUME NEW base, Sound(base), NEW over, IsTree(over), NEW tree \in OverriddenSettings(base, over),
           NEW block \in Keys(over), NEW key \in Keys(Get(over, block))
    PROVE  /\ block \in Key /\ key \in Key /\ <<block>> \o <<key>> \in DOMAIN base
           /\ Get(Get(tree, block), key) = Get(Get(over, block), key)
           /\ key \in Keys(Get(tree, block))
           /\ \A p \in DOMAIN tree : Len(p) = 2 => p \in DOMAIN base
           /\ key # "required_status_checks"
<1>. DEFINE B == Get(base, block)
            O == Get(over, block)
            p == <<block>> \o <<key>>
<1>1. /\ tree = DeepMerge(base, over) /\ Kind(over) = "map" /\ ~HasList(over) /\ ~HasUnknown(over, base)
      /\ KeepsTypes(Get(base, "default_branch"), Get(tree, "default_branch"))
  BY DEF OverriddenSettings
<1>2. IsTree(base) /\ Kind(base) = "map" /\ IsTree(tree)
  BY <1>1, MergeIsTree DEF Sound
<1>3. /\ block \in Key /\ <<block>> \in DOMAIN over /\ IsTree(O)
      /\ key \in Key /\ <<key>> \in DOMAIN O
  <2>1. block \in Key /\ <<block>> \in DOMAIN over
    BY KeysAt
  <2>2. IsTree(O)
    BY GetType
  <2>. QED
    BY <2>1, <2>2, KeysAt
<1>4. p \in DOMAIN over /\ over[p] = O[<<key>>]
  <2>1. /\ \A q : q \in DOMAIN O <=> q \in Path /\ <<block>> \o q \in DOMAIN over
        /\ O = [q \in DOMAIN O |-> over[<<block>> \o q]]
    BY <1>3, GetBelow
  <2>. HIDE DEF O
  <2>. QED
    BY <1>3, <2>1
<1>5. p \in Path /\ Len(p) = 2 /\ p[1] = block /\ p[2] = key
  BY <1>3, PathOfPair
<1>6. p \in DOMAIN base /\ base[p].kind # "map"
  BY <1>1, <1>4, <1>5, OverridePairs, PairInBundle
<1>7. Front(p) = <<block>>
  BY <1>5, PairPath
<1>8. <<block>> \in DOMAIN base /\ base[<<block>>].kind = "map" /\ over[<<block>>].kind = "map"
  <2>1. p # <<>>
    BY <1>5, PairPath
  <2>. QED
    BY <1>2, <1>4, <1>6, <1>7, <2>1, TreePaths
<1>9. IsTree(B) /\ Kind(B) = "map" /\ Kind(O) = "map"
  BY <1>2, <1>3, <1>8, GetBelow
<1>10. Get(tree, block) = DeepMerge(B, O)
  BY <1>1, <1>2, <1>3, <1>8, MergeGet
<1>11. <<key>> \in DOMAIN B /\ B[<<key>>] = base[p] /\ <<key>> \in Path
  <2>1. /\ \A q : q \in DOMAIN B <=> q \in Path /\ <<block>> \o q \in DOMAIN base
        /\ B = [q \in DOMAIN B |-> base[<<block>> \o q]]
    BY <1>2, <1>8, GetBelow
  <2>2. <<key>> \in Path
    BY <1>3 DEF Path
  <2>. HIDE DEF B
  <2>. QED
    BY <1>6, <2>1, <2>2
<1>. DEFINE bk == Get(B, key)
            ok == Get(O, key)
<1>. HIDE DEF B, O
<1>12. /\ IsTree(bk) /\ IsTree(ok) /\ Kind(bk) # "map"
       /\ Kind(bk) = base[p].kind /\ Kind(ok) = over[p].kind
       /\ ok = [q \in DOMAIN ok |-> O[<<key>> \o q]]
  <2>1. Kind(bk) = B[<<key>>].kind /\ IsTree(bk)
    BY <1>9, <1>11, GetBelow
  <2>2. /\ IsTree(ok) /\ ok = [q \in DOMAIN ok |-> O[<<key>> \o q]]
        /\ Kind(ok) = O[<<key>>].kind
    BY <1>3, GetBelow
  <2>. QED
    BY <1>4, <1>6, <1>11, <2>1, <2>2
<1>13. /\ Get(DeepMerge(B, O), key) = DeepMerge(bk, ok)
       /\ <<key>> \in DOMAIN DeepMerge(B, O) /\ IsTree(DeepMerge(B, O))
  BY <1>3, <1>9, <1>11, MergeGet, MergeIsTree
<1>. HIDE DEF bk, ok
<1>14. DeepMerge(bk, ok) = ok
  <2>1. DeepMerge(bk, ok) = [q \in DOMAIN ok |-> ok[q]]
    BY <1>12, MergeReplaces
  <2>2. ok = [q \in DOMAIN ok |-> ok[q]]
    BY <1>12
  <2>. QED
    BY <2>1, <2>2
<1>15. key \in Keys(Get(tree, block))
  BY <1>10, <1>13, KeysAt
<1>16. ASSUME NEW q \in DOMAIN tree, Len(q) = 2 PROVE q \in DOMAIN base
  <2>1. q \in DOMAIN over \/ q \in DOMAIN base
    BY <1>1, <1>2, MergePoints
  <2>. QED
    BY <1>1, <1>16, <2>1, OverridePairs
<1>17. key # "required_status_checks"
  <2>1. SUFFICES ASSUME key = "required_status_checks" PROVE FALSE
    OBVIOUS
  <2>2. p = GatePath
    <3>1. Len(GatePath) = 2 /\ GatePath[2] = key
      BY <2>1 DEF GatePath
    <3>. QED
      BY <1>5, <1>6, <3>1, PairInBundle
  <2>3. base[GatePath].kind = "list"
    BY <1>6, <2>2 DEF Sound, GateIsList
  <2>4. over[GatePath].kind # "list"
    BY <1>1, <1>4, <2>2, GateIsBelow DEF HasList
  <2>5. block = "default_branch"
    <3>1. GatePath[1] = "default_branch"
      BY DEF GatePath
    <3>. QED
      BY <1>5, <2>2, <3>1
  <2>6. Kind(Get(Get(tree, block), key)) = Kind(bk)
    <3>1. key \in Keys(B)
      BY <1>9, <1>11, KeysAt
    <3>2. KeepsTypes(B, Get(tree, block))
      BY <1>1, <2>5 DEF B
    <3>. QED
      BY <3>1, <3>2 DEF KeepsTypes, bk
  <2>7. Kind(bk) = "list"
    BY <1>12, <2>2, <2>3
  <2>8. Kind(ok) = over[GatePath].kind
    BY <1>12, <2>2
  <2>. QED
    BY <1>10, <1>13, <1>14, <2>4, <2>6, <2>7, <2>8
<1>. QED
  BY <1>3, <1>6, <1>10, <1>13, <1>14, <1>15, <1>16, <1>17 DEF O, ok

(* The four blocks are distinct.                                           *)
LEMMA BlocksAreDistinct ==
    /\ DOMAIN Blocks = 1..4
    /\ \A i, j \in 1..4 : Blocks[i] = Blocks[j] => i = j
<1>1. DOMAIN Blocks = 1..4
  BY DEF Blocks
<1>2. /\ Blocks[1] = "default_branch" /\ Blocks[2] = "security"
      /\ Blocks[3] = "repository" /\ Blocks[4] = "actions"
  BY DEF Blocks
<1>3. \A i \in 1..4 : i = 1 \/ i = 2 \/ i = 3 \/ i = 4
  OBVIOUS
<1>. QED
  BY <1>1, <1>2, <1>3

(* Whatever a consumer may override arrives, as written, in what           *)
(* _desired_settings hands to drift detection and reconcile.               *)
THEOREM OverridesArrive == CompositionSpec => []OverridesAreNeverDropped
<1>1. ComposedInv => OverridesAreNeverDropped
  <2>. SUFFICES ASSUME ComposedInv, NEW set \in outcome.sets, "settings" \in DOMAIN override,
                       NEW block \in Keys(override.settings),
                       NEW key \in Keys(Get(override.settings, block))
                PROVE  /\ key \in DOMAIN Desired(set.settings)
                       /\ Desired(set.settings)[key] = Get(Get(override.settings, block), key)
    BY DEF OverridesAreNeverDropped
  <2>. DEFINE R == set.settings
              over == override.settings
              d == "default_branch"
              p == <<block>> \o <<key>>
  <2>1. PICK tree \in ResolveSettings(profile, override) :
            R \in WithChecks(tree, ChecksOf(profile, set.pipelines))
    BY ComposedFrom
  <2>2. PICK base \in InheritedSettings(profile.settings) : tree \in OverriddenSettings(base, over)
    BY DEF ResolveSettings
  <2>3. Sound(base) /\ IsTree(over)
    BY InheritedIsSound, CompositionAssumption DEF ComposedInv
  <2>4. IsTree(tree) /\ Kind(tree) = "map"
    BY <2>2, <2>3, OverrideIsKept DEF Kept
  <2>. HIDE DEF R, over
  <2>5. block \in Keys(over) /\ key \in Keys(Get(over, block))
    BY DEF over
  <2>6. /\ block \in Key /\ key \in Key /\ p \in DOMAIN base
        /\ Get(Get(tree, block), key) = Get(Get(over, block), key)
        /\ key \in Keys(Get(tree, block))
        /\ \A q \in DOMAIN tree : Len(q) = 2 => q \in DOMAIN base
        /\ key # "required_status_checks"
    BY <2>2, <2>3, <2>5, OverrideReplaces
  <2>7. p \in Path /\ Len(p) = 2 /\ p[1] = block /\ p[2] = key
    BY <2>6, PathOfPair
  <2>8. /\ key \in Reconcilable
        /\ \A q \in DOMAIN base \cup {GatePath} : Len(q) = 2 /\ key = q[2] => p = q
    BY <2>3, <2>6, <2>7, PairInBundle
  <2>9. /\ IsTree(R) /\ \A k \in Key : k # d => Get(R, k) = Get(tree, k)
        /\ \A k \in Keys(Get(tree, d)) :
              /\ k \in Keys(Get(R, d))
              /\ Get(Get(R, d), k) = Get(Get(tree, d), k) \/ k = "required_status_checks"
        /\ \A q \in DOMAIN R : q \in DOMAIN tree \cup {<<>>, <<d>>, GatePath}
    BY <2>1, <2>4, GateIsMerged
  (* The key is in its block, with the consumer's value ...                *)
  <2>10. /\ key \in Keys(Get(R, block))
         /\ Get(Get(R, block), key) = Get(Get(over, block), key)
    <3>1. CASE block = d
      BY <2>6, <2>9, <3>1
    <3>2. CASE block # d
      BY <2>6, <2>9, <3>2
    <3>. QED
      BY <3>1, <3>2
  (* ... and in no other.                                                  *)
  <2>11. ASSUME NEW other, key \in Keys(Get(R, other)) PROVE other = block
    <3>1. IsTree(Get(R, other)) /\ <<key>> \in DOMAIN Get(R, other)
      BY <2>9, <2>11, GetType, KeysAt
    <3>2. <<other>> \in DOMAIN R
      <4>1. <<other>> \notin DOMAIN R => Get(R, other) = MapOf(<<>>)
        BY <2>9, GetType
      <4>. QED
        BY <2>11, <4>1, EmptyMap
    <3>3. other \in Key
      BY <2>9, <3>2, KeysAt
    <3>. DEFINE q == <<other>> \o <<key>>
    <3>4. q \in DOMAIN R
      BY <2>9, <3>1, <3>2, GetBelow
    <3>5. Len(q) = 2 /\ q[1] = other /\ q[2] = key
      BY <2>6, <3>3, PathOfPair
    <3>6. q # <<>> /\ q # <<d>>
      <4>. DEFINE e == <<>>
                  f == <<d>>
      <4>1. Len(e) # 2 /\ Len(f) # 2
        OBVIOUS
      <4>. HIDE DEF e, f, q
      <4>2. q # e /\ q # f
        BY <3>5, <4>1
      <4>. QED
        BY <4>2 DEF e, f
    <3>. HIDE DEF q
    <3>7. q \in DOMAIN base \cup {GatePath}
      BY <2>6, <2>9, <3>4, <3>5, <3>6
    <3>8. p = q
      BY <2>8, <3>5, <3>7
    <3>. QED
      BY <2>7, <3>5, <3>8
  <2>12. PICK n \in 1..4 : Blocks[n] = block
    <3>1. <<block>> \in DOMAIN base
      <4>1. Front(p) = <<block>> /\ p # <<>>
        BY <2>7, PairPath
      <4>. QED
        BY <2>3, <2>6, <4>1, TreePaths DEF Sound
    <3>2. <<block>> # <<>> /\ Len(<<block>>) = 1 /\ <<block>>[1] = block
      OBVIOUS
    <3>3. PICK name \in DOMAIN Library.settings : <<block>> \in DOMAIN Library.settings[name].settings
      BY <2>3, <3>1, <3>2 DEF Sound, FromLibrary
    <3>4. block \in ToSet(Blocks)
      BY <3>2, <3>3, SettingsAssumption
    <3>. QED
      BY <3>4, BlocksAreDistinct DEF ToSet
  <2>. DEFINE Holders == {i \in DOMAIN Blocks : key \in Keys(Get(R, Blocks[i]))}
  <2>13. Holders = {n}
    BY <2>10, <2>11, <2>12, BlocksAreDistinct
  <2>14. Max(Holders) = n
    <3>1. n >= n
      OBVIOUS
    <3>. HIDE DEF Holders
    <3>. QED
      BY <2>13, <3>1 DEF Max
  <2>15. /\ key \in DOMAIN Desired(R)
         /\ Desired(R)[key] = Get(Get(R, Blocks[Max(Holders)]), key)
    BY <2>8, <2>13 DEF Desired
  <2>. HIDE DEF Holders
  <2>. QED
    BY <2>10, <2>12, <2>14, <2>15 DEF R, over
<1>. QED
  BY <1>1, ComposedOnly, PTL

==============================================================================
