--------------------------- MODULE AlgorithmProofs ---------------------------
(***************************************************************************)
(* Three algorithms that Aviato runs twice, in different ways, on the same *)
(* data.  The grants of a tracking issue are reduced from its timeline on  *)
(* every read, and kept as a summary by the models of reconciliation: for  *)
(* a history of any length, in any order GitHub returns it, the two agree. *)
(* The tool is compared with all the versions recorded in a repository or  *)
(* with the one that binds most: for any finite set of them the two agree. *)
(* A variable is resolved from four sources, and later from what that has  *)
(* left in the declaration: to the same value, whatever the texts.         *)
(***************************************************************************)
EXTENDS ConsentTimeline, Compatibility, Variables, TLAPS, WellFoundedInduction,
        SequenceTheorems, FiniteSetTheorems

(* A non-empty set of numbers has a least one.                             *)
LEMMA LeastNumber ==
    ASSUME NEW S \in SUBSET Nat, S # {}
    PROVE  \E m \in S : \A k \in S : m <= k
<1>. DEFINE Less == OpToRel(<, Nat)
<1>1. \A m, n \in Nat : m < n => <<m, n>> \in Less
  BY DEF OpToRel
<1>2. IsWellFoundedOn(Less, Nat)
  BY NatLessThanWellFounded
<1>. HIDE DEF Less
<1>3. PICK n \in S : \A m \in S : ~ (<<m, n>> \in Less)
  BY <1>2, WFMin
<1>4. ASSUME NEW m \in S PROVE n <= m
  <2>1. m \in Nat /\ n \in Nat
    OBVIOUS
  <2>2. ~ (m < n)
    BY <1>1, <1>3, <2>1, Zenon
  <2>. QED
    BY <2>1, <2>2
<1>. QED
  BY <1>4

(* The only increasing arrangement of n places is the one that leaves      *)
(* everything where it is.                                                 *)
LEMMA IncreasingIsIdentity ==
    ASSUME NEW n \in Nat, NEW f \in [1..n -> 1..n],
           \A i, j \in 1..n : i < j => f[i] < f[j]
    PROVE  \A k \in 1..n : f[k] = k
<1>1. \A k \in 1..n : f[k] \in 1..n
  OBVIOUS
<1>2. ASSUME NEW k \in 1..n, f[k] < k PROVE FALSE
  <2>. DEFINE Low == {i \in 1..n : f[i] < i}
  <2>1. PICK m \in Low : \A i \in Low : m <= i
    <3>1. Low \in SUBSET Nat /\ Low # {}
      BY <1>2
    <3>. QED
      BY <3>1, LeastNumber
  <2>2. m \in 1..n /\ f[m] < m /\ f[m] \in 1..n
    BY <1>1
  <2>3. m - 1 \in 1..n /\ ~(f[m - 1] < m - 1)
    BY <2>1, <2>2
  <2>4. f[m - 1] < f[m] /\ f[m - 1] \in 1..n
    BY <1>1, <2>2, <2>3
  <2>. QED
    BY <2>2, <2>3, <2>4
<1>3. ASSUME NEW k \in 1..n, k < f[k] PROVE FALSE
  <2>. DEFINE High == {i \in 1..n : i < f[i]}
              Left == {n - i : i \in High}
  <2>1. PICK d \in Left : \A e \in Left : d <= e
    <3>1. Left \in SUBSET Nat /\ Left # {}
      BY <1>3, SMTT(30)
    <3>. QED
      BY <3>1, LeastNumber
  <2>2. PICK m \in High : d = n - m
    OBVIOUS
  <2>3. m \in 1..n /\ m < f[m] /\ f[m] \in 1..n
    BY <1>1
  <2>4. m + 1 \in 1..n
    BY <2>3
  <2>5. ~(m + 1 < f[m + 1])
    <3>. SUFFICES ASSUME m + 1 < f[m + 1] PROVE FALSE
      OBVIOUS
    <3>1. m + 1 \in High
      BY <2>4
    <3>2. n - (m + 1) \in Left
      BY <3>1
    <3>3. d <= n - (m + 1)
      BY <2>1, <3>2
    <3>. QED
      BY <2>2, <2>3, <3>3
  <2>6. f[m] < f[m + 1] /\ f[m + 1] \in 1..n
    BY <1>1, <2>3, <2>4
  <2>. QED
    BY <2>3, <2>4, <2>5, <2>6
<1>. QED
  BY <1>1, <1>2, <1>3

(* A finite set of numbers has a greatest one.                             *)
LEMMA GreatestNumber ==
    ASSUME NEW n \in Nat, NEW S \in SUBSET (1..n), S # {}
    PROVE  Max(S) \in S /\ \A k \in S : k <= Max(S)
<1>. DEFINE Left == {n - i : i \in S}
<1>1. PICK d \in Left : \A e \in Left : d <= e
  <2>1. \A i \in S : n - i \in Nat
    OBVIOUS
  <2>2. Left \in SUBSET Nat /\ Left # {}
    BY <2>1
  <2>. QED
    BY <2>2, LeastNumber
<1>2. PICK m \in S : d = n - m
  OBVIOUS
<1>3. \A k \in S : m >= k
  BY <1>1, <1>2
<1>4. Max(S) \in S /\ \A k \in S : Max(S) >= k
  BY <1>3 DEF Max
<1>. QED
  BY <1>4

-----------------------------------------------------------------------------
(* The timeline in its order again.                                        *)

LEMMA OrdersAreBijections ==
    ASSUME NEW n \in 0..MaxEntries
    PROVE  /\ \A p \in Orders[n] :
                /\ p \in [1..n -> 1..n]
                /\ \A i, j \in 1..n : p[i] = p[j] => i = j
                /\ \A k \in 1..n : \E i \in 1..n : p[i] = k
           /\ \A p \in [1..n -> 1..n] :
                /\ \A i, j \in 1..n : p[i] = p[j] => i = j
                /\ \A k \in 1..n : \E i \in 1..n : p[i] = k
                => p \in Orders[n]
<1>1. Orders[n] = Bijection(1..n, 1..n)
  BY DEF Orders
<1>. QED
  BY <1>1 DEF Bijection, Injection, Surjection, IsInjective

(* The timestamps never go back.                                           *)
InOrder(T) == \A i, j \in 1..Len(T) : i < j => T[i].at <= T[j].at

TimelineOK == timeline \in Seq(Entry) /\ Len(timeline) \in 0..MaxEntries /\ InOrder(timeline)

(* Sorting any array that GitHub may return yields the history.            *)
LEMMA OrderRestored ==
    ASSUME TimelineOK, NEW array \in Returned
    PROVE  Chronological(array) = timeline
<1>. DEFINE n == Len(timeline)
            Precedes(i, j) == \/ array[i].at < array[j].at
                              \/ array[i].at = array[j].at /\ i < j
            Sorts(s) == \A i, j \in 1..n : i < j => Precedes(s[i], s[j])
<1>1. n \in 0..MaxEntries /\ n \in Nat /\ DOMAIN timeline = 1..n
  BY TimelineAssumption DEF TimelineOK
<1>2. \A i \in 1..n : timeline[i].at \in Nat
  <2>1. \A i \in 1..n : timeline[i] \in Entry
    BY ElementOfSeq DEF TimelineOK
  <2>. QED
    BY <2>1 DEF Entry
<1>3. \A i, j \in 1..n : i <= j => timeline[i].at <= timeline[j].at
  BY <1>1, <1>2 DEF TimelineOK, InOrder
<1>4. PICK p \in Orders[n] :
         /\ array = [i \in 1..n |-> timeline[p[i]]]
         /\ \A i, j \in 1..n : i < j /\ timeline[p[i]].at = timeline[p[j]].at => p[i] < p[j]
  BY <1>1 DEF Returned
<1>5. /\ p \in [1..n -> 1..n]
      /\ \A i, j \in 1..n : p[i] = p[j] => i = j
      /\ \A k \in 1..n : \E i \in 1..n : p[i] = k
  BY <1>1, OrdersAreBijections
<1>6. DOMAIN array = 1..n /\ Len(array) = n /\ \A i \in 1..n : array[i] = timeline[p[i]]
  BY <1>1, <1>4
<1>. HIDE DEF n
<1>7. \E s \in Orders[n] : Sorts(s)
  <2>. DEFINE s == [k \in 1..n |-> CHOOSE i \in 1..n : p[i] = k]
  <2>1. s \in [1..n -> 1..n] /\ \A k \in 1..n : s[k] \in 1..n /\ p[s[k]] = k
    BY <1>5
  <2>. HIDE DEF s
  <2>2. \A i \in 1..n : s[p[i]] = i
    BY <1>5, <2>1
  <2>3. \A i, j \in 1..n : s[i] = s[j] => i = j
    BY <2>1
  <2>4. \A k \in 1..n : \E i \in 1..n : s[i] = k
    BY <1>5, <2>2
  <2>5. s \in Orders[n]
    BY <1>1, <2>1, <2>3, <2>4, OrdersAreBijections
  <2>6. ASSUME NEW i \in 1..n, NEW j \in 1..n, i < j PROVE Precedes(s[i], s[j])
    <3>1. array[s[i]] = timeline[i] /\ array[s[j]] = timeline[j]
      BY <1>6, <2>1
    <3>2. timeline[i].at <= timeline[j].at /\ timeline[i].at \in Nat /\ timeline[j].at \in Nat
      BY <1>1, <1>2, <1>3, <2>6
    <3>3. s[i] \in 1..n /\ s[j] \in 1..n /\ s[i] # s[j]
      BY <1>1, <2>1, <2>3, <2>6
    <3>4. ASSUME timeline[i].at = timeline[j].at, s[j] < s[i] PROVE FALSE
      <4>1. p[s[j]] < p[s[i]]
        BY <1>4, <2>1, <3>3, <3>4
      <4>. QED
        BY <1>1, <2>1, <2>6, <4>1
    <3>. QED
      BY <1>1, <3>1, <3>2, <3>3, <3>4
  <2>. QED
    BY <2>5, <2>6
<1>8. ASSUME NEW s \in Orders[n], Sorts(s)
      PROVE  \A k \in 1..n : p[s[k]] = k
  <2>1. s \in [1..n -> 1..n]
    BY <1>1, OrdersAreBijections
  <2>. DEFINE f == [k \in 1..n |-> p[s[k]]]
  <2>2. f \in [1..n -> 1..n] /\ \A k \in 1..n : f[k] = p[s[k]] /\ s[k] \in 1..n /\ f[k] \in 1..n
    BY <1>5, <2>1
  <2>. HIDE DEF f
  <2>3. ASSUME NEW i \in 1..n, NEW j \in 1..n, i < j PROVE f[i] < f[j]
    <3>1. Precedes(s[i], s[j])
      BY <1>8, <2>3
    <3>2. array[s[i]] = timeline[f[i]] /\ array[s[j]] = timeline[f[j]]
      BY <1>6, <2>2, ZenonT(60)
    <3>3. CASE timeline[f[i]].at < timeline[f[j]].at
      <4>1. ~(f[j] <= f[i])
        BY <1>2, <1>3, <2>2, <3>3, SMTT(30)
      <4>. QED
        BY <1>1, <2>2, <4>1
    <3>4. CASE timeline[f[i]].at = timeline[f[j]].at /\ s[i] < s[j]
      <4>1. s[i] \in 1..n /\ s[j] \in 1..n /\ f[i] = p[s[i]] /\ f[j] = p[s[j]]
        BY <2>2
      <4>2. timeline[p[s[i]]].at = timeline[p[s[j]]].at /\ s[i] < s[j]
        BY <3>4, <4>1
      <4>3. p[s[i]] < p[s[j]]
        BY <1>4, <4>1, <4>2
      <4>. QED
        BY <4>1, <4>3
    <3>. QED
      BY <3>1, <3>2, <3>3, <3>4
  <2>4. \A k \in 1..n : f[k] = k
    BY <1>1, <2>2, <2>3, IncreasingIsIdentity
  <2>. QED
    BY <2>2, <2>4
<1>. DEFINE order == CHOOSE s \in Orders[n] : Sorts(s)
<1>9. order \in Orders[n] /\ Sorts(order)
  BY <1>7
<1>10. Chronological(array) = [i \in 1..n |-> array[order[i]]]
  BY <1>6 DEF Chronological
<1>. HIDE DEF order, Sorts
<1>11. order \in [1..n -> 1..n] /\ \A k \in 1..n : p[order[k]] = k
  BY <1>1, <1>8, <1>9, OrdersAreBijections
<1>12. \A i \in 1..n : array[order[i]] = timeline[i]
  BY <1>6, <1>11
<1>13. timeline = [i \in 1..n |-> timeline[i]]
  BY <1>1 DEF TimelineOK
<1>. QED
  BY <1>10, <1>12, <1>13
-----------------------------------------------------------------------------
(* The summary that is kept as the timeline grows.                         *)

GrantAt(T, g) == [id |-> T[g].id, by |-> T[g].who]
FollowedByBot(T, g) == \E j \in 1..Len(T) : j > g /\ T[j].who \in Bots

(* The grants are the active ones of the timeline, in its order: `at' says *)
(* where each was entered.                                                 *)
Lists(T, grants, at) ==
    /\ \A k, l \in 1..Len(grants) : k < l => at[k] < at[l]
    /\ \A k \in 1..Len(grants) : at[k] \in ActiveGrants(T) /\ grants[k] = GrantAt(T, at[k])
    /\ \A g \in ActiveGrants(T) : \E k \in 1..Len(grants) : at[k] = g

Reduced(T, i) ==
    /\ i \in Issue
    /\ \E at \in [1..Len(i.grants) -> 1..Len(T)] : Lists(T, i.grants, at)
    /\ \A g \in ActiveGrants(T) : T[g].id \in i.edited <=> FollowedByBot(T, g)

(* One diff has one active grant.                                          *)
LEMMA OneGrantEach ==
    ASSUME NEW T \in Seq(Entry), NEW g \in ActiveGrants(T), NEW h \in ActiveGrants(T),
           T[g].id = T[h].id
    PROVE  g = h
<1>1. DOMAIN T = 1..Len(T) /\ Len(T) \in Nat
  OBVIOUS
<1>2. /\ g \in 1..Len(T) /\ T[g].event = "labeled"
      /\ \A j \in 1..Len(T) : j > g /\ T[j].id = T[g].id => T[j].event = "other"
      /\ h \in 1..Len(T) /\ T[h].event = "labeled"
      /\ \A j \in 1..Len(T) : j > h /\ T[j].id = T[h].id => T[j].event = "other"
  BY <1>1 DEF ActiveGrants
<1>3. ~(h > g) /\ ~(g > h)
  BY <1>2
<1>. QED
  BY <1>1, <1>2, <1>3

(* What one more entry changes.                                            *)
LEMMA EntryAppended ==
    ASSUME NEW T \in Seq(Entry), NEW e \in Entry
    PROVE  LET U == Append(T, e)
               n == Len(T)
           IN  /\ U \in Seq(Entry) /\ Len(U) = n + 1 /\ n \in Nat
               /\ U[n + 1] = e /\ \A g \in 1..n : U[g] = T[g]
               /\ \A g \in ActiveGrants(T) : g \in 1..n
               /\ \A g \in ActiveGrants(T) :
                     (T[g].id = e.id => e.event = "other") => g \in ActiveGrants(U)
               /\ \A g \in ActiveGrants(U) :
                     \/ g \in ActiveGrants(T) /\ (T[g].id = e.id => e.event = "other")
                     \/ g = n + 1 /\ e.event = "labeled"
               /\ e.event = "labeled" => n + 1 \in ActiveGrants(U)
               /\ \A g \in 1..n : FollowedByBot(U, g) <=> FollowedByBot(T, g) \/ e.who \in Bots
               /\ ~FollowedByBot(U, n + 1)
<1>. DEFINE U == Append(T, e)
            n == Len(T)
<1>1. /\ U \in Seq(Entry) /\ Len(U) = n + 1 /\ n \in Nat
      /\ U[n + 1] = e /\ \A g \in 1..n : U[g] = T[g]
      /\ DOMAIN T = 1..n /\ DOMAIN U = 1..n + 1
  BY AppendProperties, LenProperties
<1>. HIDE DEF U, n
<1>2. \A g \in 1..n + 1 : g \in 1..n \/ g = n + 1
  BY <1>1
<1>3. \A g : g \in ActiveGrants(T) <=>
              /\ g \in 1..n /\ T[g].event = "labeled"
              /\ \A j \in 1..n : j > g /\ T[j].id = T[g].id => T[j].event = "other"
  BY <1>1 DEF ActiveGrants
<1>4. \A g : g \in ActiveGrants(U) <=>
              /\ g \in 1..n + 1 /\ U[g].event = "labeled"
              /\ \A j \in 1..n + 1 : j > g /\ U[j].id = U[g].id => U[j].event = "other"
  BY <1>1 DEF ActiveGrants
<1>5. ASSUME NEW g \in ActiveGrants(T), T[g].id = e.id => e.event = "other"
      PROVE  g \in ActiveGrants(U)
  <2>1. g \in 1..n + 1 /\ U[g] = T[g] /\ T[g].event = "labeled"
    BY <1>1, <1>3
  <2>2. ASSUME NEW j \in 1..n + 1, j > g, U[j].id = U[g].id PROVE U[j].event = "other"
    <3>1. CASE j \in 1..n
      BY <1>1, <1>3, <2>1, <2>2, <3>1
    <3>2. CASE j = n + 1
      BY <1>1, <1>5, <2>1, <2>2, <3>2
    <3>. QED
      BY <1>2, <3>1, <3>2
  <2>. QED
    BY <1>4, <2>1, <2>2
<1>6. ASSUME NEW g \in ActiveGrants(U)
      PROVE  \/ g \in ActiveGrants(T) /\ (T[g].id = e.id => e.event = "other")
             \/ g = n + 1 /\ e.event = "labeled"
  <2>1. CASE g \in 1..n
    <3>1. U[g] = T[g] /\ \A j \in 1..n : U[j] = T[j] /\ j \in 1..n + 1
      BY <1>1, <2>1
    <3>2. g \in ActiveGrants(T)
      BY <1>3, <1>4, <2>1, <3>1
    <3>3. n + 1 \in 1..n + 1 /\ n + 1 > g
      BY <1>1, <2>1
    <3>. QED
      BY <1>1, <1>4, <3>1, <3>2, <3>3
  <2>2. CASE g = n + 1
    BY <1>1, <1>4, <2>2
  <2>. QED
    BY <1>2, <1>4, <2>1, <2>2
<1>7. e.event = "labeled" => n + 1 \in ActiveGrants(U)
  <2>1. n + 1 \in 1..n + 1 /\ \A j \in 1..n + 1 : ~(j > n + 1)
    BY <1>1
  <2>. QED
    BY <1>1, <1>4, <2>1
<1>8. ASSUME NEW g \in 1..n
      PROVE  FollowedByBot(U, g) <=> FollowedByBot(T, g) \/ e.who \in Bots
  <2>1. n + 1 \in 1..n + 1 /\ n + 1 > g
    BY <1>1
  <2>2. \A j \in 1..n : j \in 1..n + 1 /\ U[j] = T[j]
    BY <1>1
  <2>3. FollowedByBot(U, g) <=> \E j \in 1..n + 1 : j > g /\ U[j].who \in Bots
    BY <1>1 DEF FollowedByBot
  <2>4. FollowedByBot(T, g) <=> \E j \in 1..n : j > g /\ T[j].who \in Bots
    BY DEF FollowedByBot, n
  <2>. QED
    BY <1>1, <1>2, <2>1, <2>2, <2>3, <2>4
<1>9. ~FollowedByBot(U, n + 1)
  <2>1. \A j \in 1..n + 1 : ~(j > n + 1)
    BY <1>1
  <2>. QED
    BY <1>1, <2>1 DEF FollowedByBot
<1>10. \A g \in ActiveGrants(T) : g \in 1..n
  BY <1>3
<1>. QED
  BY <1>1, <1>5, <1>6, <1>7, <1>8, <1>9, <1>10 DEF U, n

(* Someone labels the issue with a diff that is not granted now.           *)
LEMMA LabelReduces ==
    ASSUME NEW T \in Seq(Entry), NEW i, Reduced(T, i),
           NEW e \in Entry, e.event = "labeled", e.id \in DiffIds,
           e.id \notin ActiveIds(i.grants)
    PROVE  Reduced(Append(T, e), Labeled(i, e.id, e.who))
<1>. DEFINE U == Append(T, e)
            n == Len(T)
            L == Len(i.grants)
            new == [id |-> e.id, by |-> e.who]
            j == Labeled(i, e.id, e.who)
<1>0. /\ i \in Issue /\ i.grants \in Seq(Grant) /\ L \in Nat /\ n \in Nat
      /\ new \in Grant /\ e.who \in Humans \cup Bots
  BY LenProperties DEF Reduced, Issue, Grant, Entry
<1>1. PICK at \in [1..L -> 1..n] : Lists(T, i.grants, at)
  BY DEF Reduced
<1>2. \A k \in 1..L : i.grants[k] \in Grant /\ i.grants[k].id \in ActiveIds(i.grants)
  BY <1>0, ElementOfSeq DEF ActiveIds
<1>3. \A x \in ActiveIds(i.grants) : x \in DiffIds
  BY <1>2 DEF ActiveIds, Grant
<1>4. Without(i.grants, e.id) = i.grants
  BY <1>2 DEF Without
<1>5. /\ j \in Issue
      /\ j.grants = Append(i.grants, new)
      /\ j.edited = (IF e.who \in Humans THEN i.edited ELSE ActiveIds(i.grants)) \ {e.id}
  <2>1. Append(i.grants, new) \in Seq(Grant)
    BY <1>0, AppendProperties
  <2>2. (IF e.who \in Humans THEN i.edited ELSE ActiveIds(i.grants)) \ {e.id} \in SUBSET DiffIds
    BY <1>0, <1>3 DEF Issue
  <2>. QED
    BY <1>0, <1>4, <2>1, <2>2 DEF Labeled, Issue
<1>6. /\ Len(j.grants) = L + 1 /\ j.grants[L + 1] = new
      /\ \A k \in 1..L : j.grants[k] = i.grants[k]
  BY <1>0, <1>5, AppendProperties
<1>7. ASSUME NEW g \in ActiveGrants(T)
      PROVE  T[g].id \in ActiveIds(i.grants) /\ T[g].id # e.id
  <2>1. PICK k \in 1..L : at[k] = g
    BY <1>1 DEF Lists
  <2>2. i.grants[k] = GrantAt(T, g)
    BY <1>1, <2>1 DEF Lists
  <2>3. i.grants[k].id = T[g].id
    BY <2>2 DEF GrantAt
  <2>. QED
    BY <1>2, <2>3
<1>. HIDE DEF j, new
<1>8. /\ Len(U) = n + 1 /\ U[n + 1] = e /\ \A g \in 1..n : U[g] = T[g]
      /\ \A g \in ActiveGrants(T) : g \in 1..n /\ g \in ActiveGrants(U)
      /\ \A g \in ActiveGrants(U) : g \in ActiveGrants(T) \/ g = n + 1
      /\ n + 1 \in ActiveGrants(U)
      /\ \A g \in 1..n : FollowedByBot(U, g) <=> FollowedByBot(T, g) \/ e.who \in Bots
      /\ ~FollowedByBot(U, n + 1)
  BY <1>7, EntryAppended
<1>. HIDE DEF U, n, L
<1>. DEFINE to == [k \in 1..L + 1 |-> IF k \in 1..L THEN at[k] ELSE n + 1]
<1>9. \A k \in 1..L + 1 : k \in 1..L \/ k = L + 1
  BY <1>0
<1>10. /\ to \in [1..L + 1 -> 1..n + 1]
       /\ \A k \in 1..L : to[k] = at[k] /\ k \in 1..L + 1
       /\ L + 1 \in 1..L + 1 /\ to[L + 1] = n + 1
  BY <1>0, <1>1
<1>. HIDE DEF to
<1>11. Lists(U, j.grants, to)
  <2>1. ASSUME NEW k \in 1..L + 1, NEW l \in 1..L + 1, k < l PROVE to[k] < to[l]
    <3>1. k \in 1..L /\ to[k] = at[k] /\ at[k] \in 1..n
      BY <1>0, <1>1, <1>10, <2>1
    <3>2. CASE l \in 1..L
      BY <1>1, <1>10, <2>1, <3>1, <3>2 DEF Lists, L
    <3>3. CASE l = L + 1
      BY <1>0, <1>10, <3>1, <3>3
    <3>. QED
      BY <1>9, <3>2, <3>3
  <2>2. ASSUME NEW k \in 1..L + 1
        PROVE  to[k] \in ActiveGrants(U) /\ j.grants[k] = GrantAt(U, to[k])
    <3>1. CASE k \in 1..L
      <4>1. at[k] \in ActiveGrants(T) /\ i.grants[k] = GrantAt(T, at[k]) /\ at[k] \in 1..n
        BY <1>1, <3>1 DEF Lists, L
      <4>. QED
        BY <1>6, <1>8, <1>10, <3>1, <4>1 DEF GrantAt
    <3>2. CASE k = L + 1
      BY <1>6, <1>8, <1>10, <3>2 DEF GrantAt, new
    <3>. QED
      BY <1>9, <3>1, <3>2
  <2>3. ASSUME NEW g \in ActiveGrants(U) PROVE \E k \in 1..L + 1 : to[k] = g
    <3>1. CASE g \in ActiveGrants(T)
      <4>1. PICK k \in 1..L : at[k] = g
        BY <1>1, <3>1 DEF Lists, L
      <4>. QED
        BY <1>10, <4>1
    <3>. QED
      BY <1>8, <1>10, <3>1
  <2>. QED
    BY <1>6, <2>1, <2>2, <2>3 DEF Lists
<1>12. ASSUME NEW g \in ActiveGrants(U)
       PROVE  U[g].id \in j.edited <=> FollowedByBot(U, g)
  <2>1. CASE g = n + 1
    <3>1. U[g].id = e.id /\ ~FollowedByBot(U, g)
      BY <1>8, <2>1
    <3>2. e.id \notin j.edited
      BY <1>5
    <3>. QED
      BY <3>1, <3>2
  <2>2. CASE g \in ActiveGrants(T)
    <3>1. T[g].id \in i.edited <=> FollowedByBot(T, g)
      BY <2>2 DEF Reduced
    <3>2. U[g] = T[g] /\ (FollowedByBot(U, g) <=> FollowedByBot(T, g) \/ e.who \in Bots)
      BY <1>8, <2>2
    <3>3. e.who \in Humans <=> e.who \notin Bots
      BY <1>0, IssueAssumption
    <3>. QED
      BY <1>5, <1>7, <2>2, <3>1, <3>2, <3>3
  <2>. QED
    BY <1>8, <2>1, <2>2
<1>13. \E x \in [1..Len(j.grants) -> 1..Len(U)] : Lists(U, j.grants, x)
  BY <1>6, <1>8, <1>10, <1>11
<1>. QED
  BY <1>5, <1>12, <1>13 DEF Reduced, U, j

(* Taking the one grant of a diff out of a list of grants.                 *)
OnlyAt(grants, k, id) == \A l \in 1..Len(grants) : grants[l].id = id <=> l = k

LEMMA WithoutShape ==
    ASSUME NEW grants \in Seq(Grant), NEW k \in 1..Len(grants), NEW id, OnlyAt(grants, k, id)
    PROVE  /\ Without(grants, id) \in Seq(Grant)
           /\ Len(Without(grants, id)) = Len(grants) - 1
           /\ \A m \in 1..Len(grants) - 1 :
                 Without(grants, id)[m] = grants[IF m < k THEN m ELSE m + 1]
<1>. DEFINE L == Len(grants)
            left == SubSeq(grants, 1, k - 1)
            right == SubSeq(grants, k + 1, L)
<1>1. /\ L \in Nat /\ k \in 1..L /\ \A l \in 1..L : grants[l] \in Grant
      /\ \A l \in 1..L : grants[l].id = id <=> l = k
  BY LenProperties, ElementOfSeq DEF OnlyAt
<1>2. Without(grants, id) = left \o right
  <2>1. (CHOOSE l \in 1..L : grants[l].id = id) = k
    BY <1>1
  <2>. QED
    BY <1>1, <2>1 DEF Without
<1>3. left \in Seq(Grant) /\ Len(left) = k - 1 /\ \A m \in 1..k - 1 : left[m] = grants[m]
  <2>1. \A m \in 1..k - 1 : grants[m] \in Grant
    BY <1>1
  <2>. QED
    BY <1>1, <2>1, SubSeqProperties
<1>4. right \in Seq(Grant) /\ Len(right) = L - k /\ \A m \in 1..L - k : right[m] = grants[k + m]
  <2>1. \A m \in k + 1..L : grants[m] \in Grant
    BY <1>1
  <2>. QED
    BY <1>1, <2>1, SubSeqProperties
<1>. HIDE DEF left, right, L
<1>5. /\ left \o right \in Seq(Grant) /\ Len(left \o right) = L - 1
      /\ \A m \in 1..L - 1 : (left \o right)[m] = IF m <= k - 1 THEN left[m] ELSE right[m - (k - 1)]
  <2>1. /\ left \o right \in Seq(Grant) /\ Len(left \o right) = Len(left) + Len(right)
        /\ \A m \in 1..Len(left) + Len(right) :
              (left \o right)[m] = IF m <= Len(left) THEN left[m] ELSE right[m - Len(left)]
    BY <1>3, <1>4, ConcatProperties
  <2>2. Len(left) = k - 1 /\ Len(left) + Len(right) = L - 1
    BY <1>1, <1>3, <1>4
  <2>. QED
    BY <2>1, <2>2
<1>6. ASSUME NEW m \in 1..L - 1
      PROVE  (left \o right)[m] = grants[IF m < k THEN m ELSE m + 1]
  <2>1. CASE m < k
    BY <1>1, <1>3, <1>5, <2>1
  <2>2. CASE ~(m < k)
    <3>1. m - (k - 1) \in 1..L - k /\ k + (m - (k - 1)) = m + 1 /\ ~(m <= k - 1)
      BY <1>1, <2>2
    <3>. QED
      BY <1>4, <1>5, <2>2, <3>1
  <2>. QED
    BY <2>1, <2>2
<1>. QED
  BY <1>2, <1>5, <1>6 DEF L

(* Someone takes the label of a granted diff away.                         *)
LEMMA UnlabelReduces ==
    ASSUME NEW T \in Seq(Entry), NEW i, Reduced(T, i),
           NEW e \in Entry, e.event = "unlabeled", e.id \in ActiveIds(i.grants)
    PROVE  Reduced(Append(T, e), Unlabeled(i, e.id, e.who \in Humans))
<1>. DEFINE U == Append(T, e)
            n == Len(T)
            L == Len(i.grants)
            w == Without(i.grants, e.id)
            j == Unlabeled(i, e.id, e.who \in Humans)
<1>0. /\ i \in Issue /\ i.grants \in Seq(Grant) /\ L \in Nat /\ n \in Nat
      /\ e.who \in Humans \cup Bots
  BY LenProperties DEF Reduced, Issue, Entry
<1>1. PICK at \in [1..L -> 1..n] : Lists(T, i.grants, at)
  BY DEF Reduced
<1>2. \A k \in 1..L : i.grants[k] \in Grant /\ i.grants[k].id \in ActiveIds(i.grants)
  BY <1>0, ElementOfSeq DEF ActiveIds
<1>3. \A x \in ActiveIds(i.grants) : x \in DiffIds
  BY <1>2 DEF ActiveIds, Grant
<1>4. \A k \in 1..L : /\ at[k] \in ActiveGrants(T) /\ i.grants[k] = GrantAt(T, at[k])
                      /\ i.grants[k].id = T[at[k]].id
  BY <1>1 DEF Lists, GrantAt
<1>5. \A g \in ActiveGrants(T) : \E k \in 1..L : at[k] = g
  BY <1>1 DEF Lists
<1>6. \A k, l \in 1..L : i.grants[k].id = i.grants[l].id => k = l
  <2>. SUFFICES ASSUME NEW k \in 1..L, NEW l \in 1..L, i.grants[k].id = i.grants[l].id
                PROVE  k = l
    OBVIOUS
  <2>1. at[k] = at[l]
    BY <1>4, OneGrantEach
  <2>2. at[k] \in 1..n /\ at[l] \in 1..n /\ (k < l => at[k] < at[l]) /\ (l < k => at[l] < at[k])
    BY <1>1 DEF Lists
  <2>. QED
    BY <1>0, <2>1, <2>2
<1>7. PICK k \in 1..L : i.grants[k].id = e.id
  BY DEF ActiveIds
<1>8. /\ w \in Seq(Grant) /\ Len(w) = L - 1
      /\ \A m \in 1..L - 1 : w[m] = i.grants[IF m < k THEN m ELSE m + 1]
  <2>1. OnlyAt(i.grants, k, e.id)
    BY <1>6, <1>7 DEF OnlyAt
  <2>. QED
    BY <1>0, <2>1, WithoutShape
<1>9. /\ j \in Issue
      /\ j.grants = w
      /\ j.edited = (IF e.who \in Humans THEN i.edited ELSE ActiveIds(i.grants)) \ {e.id}
  <2>1. (IF e.who \in Humans THEN i.edited ELSE ActiveIds(i.grants)) \ {e.id} \in SUBSET DiffIds
    BY <1>0, <1>3 DEF Issue
  <2>. HIDE DEF w
  <2>. QED
    BY <1>0, <1>8, <2>1 DEF Unlabeled, Issue, w
<1>. HIDE DEF j, w
<1>10. /\ Len(U) = n + 1 /\ \A g \in 1..n : U[g] = T[g]
       /\ \A g \in ActiveGrants(T) : g \in 1..n /\ (T[g].id # e.id => g \in ActiveGrants(U))
       /\ \A g \in ActiveGrants(U) : g \in ActiveGrants(T) /\ T[g].id # e.id
       /\ \A g \in 1..n : FollowedByBot(U, g) <=> FollowedByBot(T, g) \/ e.who \in Bots
  BY EntryAppended
<1>. HIDE DEF U, n, L
<1>. DEFINE from(m) == IF m < k THEN m ELSE m + 1
            to == [m \in 1..L - 1 |-> at[from(m)]]
<1>11. \A m \in 1..L - 1 : from(m) \in 1..L /\ from(m) # k
  BY <1>0
<1>12. to \in [1..L - 1 -> 1..n + 1] /\ \A m \in 1..L - 1 : to[m] = at[from(m)]
  <2>1. \A m \in 1..L - 1 : at[from(m)] \in 1..n
    BY <1>1, <1>11
  <2>2. \A x \in 1..n : x \in 1..n + 1
    BY <1>0
  <2>. QED
    BY <2>1, <2>2
<1>. HIDE DEF to
<1>13. Lists(U, w, to)
  <2>1. ASSUME NEW m \in 1..L - 1, NEW l \in 1..L - 1, m < l PROVE to[m] < to[l]
    <3>1. from(m) < from(l)
      BY <1>0, <2>1
    <3>. HIDE DEF from
    <3>. QED
      BY <1>1, <1>11, <1>12, <3>1 DEF Lists, L
  <2>2. ASSUME NEW m \in 1..L - 1
        PROVE  to[m] \in ActiveGrants(U) /\ w[m] = GrantAt(U, to[m])
    <3>1. w[m] = i.grants[from(m)] /\ from(m) \in 1..L /\ from(m) # k
      BY <1>8, <1>11
    <3>. HIDE DEF from
    <3>2. at[from(m)] \in ActiveGrants(T) /\ i.grants[from(m)] = GrantAt(T, at[from(m)])
      BY <1>4, <3>1
    <3>3. T[at[from(m)]].id # e.id
      BY <1>4, <1>6, <1>7, <3>1
    <3>4. to[m] \in ActiveGrants(U) /\ U[to[m]] = T[to[m]] /\ to[m] = at[from(m)]
      BY <1>10, <1>12, <3>2, <3>3
    <3>. QED
      BY <3>1, <3>2, <3>4 DEF GrantAt
  <2>3. ASSUME NEW g \in ActiveGrants(U) PROVE \E m \in 1..L - 1 : to[m] = g
    <3>1. PICK l \in 1..L : at[l] = g
      BY <1>5, <1>10
    <3>2. l # k
      BY <1>4, <1>7, <1>10, <3>1
    <3>. DEFINE m == IF l < k THEN l ELSE l - 1
    <3>3. m \in 1..L - 1 /\ from(m) = l
      BY <1>0, <3>2
    <3>. QED
      BY <1>12, <3>1, <3>3
  <2>. QED
    BY <1>8, <2>1, <2>2, <2>3 DEF Lists
<1>14. ASSUME NEW g \in ActiveGrants(U)
       PROVE  U[g].id \in j.edited <=> FollowedByBot(U, g)
  <2>1. g \in ActiveGrants(T) /\ T[g].id # e.id /\ g \in 1..n /\ U[g] = T[g]
    BY <1>10
  <2>2. T[g].id \in i.edited <=> FollowedByBot(T, g)
    BY <2>1 DEF Reduced
  <2>3. FollowedByBot(U, g) <=> FollowedByBot(T, g) \/ e.who \in Bots
    BY <1>10, <2>1
  <2>4. e.who \in Humans <=> e.who \notin Bots
    BY <1>0, IssueAssumption
  <2>5. T[g].id \in ActiveIds(i.grants)
    <3>1. PICK l \in 1..L : at[l] = g
      BY <1>5, <2>1
    <3>. QED
      BY <1>2, <1>4, <3>1
  <2>. QED
    BY <1>9, <2>1, <2>2, <2>3, <2>4, <2>5
<1>15. \E x \in [1..Len(j.grants) -> 1..Len(U)] : Lists(U, j.grants, x)
  BY <1>8, <1>9, <1>10, <1>12, <1>13
<1>. QED
  BY <1>9, <1>14, <1>15 DEF Reduced, U, j

(* Any other entry: it counts if a bot made it.                            *)
LEMMA CommentReduces ==
    ASSUME NEW T \in Seq(Entry), NEW i, Reduced(T, i),
           NEW e \in Entry, e.event = "other"
    PROVE  Reduced(Append(T, e), IF e.who \in Humans THEN i ELSE EditedByNonHuman(i))
<1>. DEFINE U == Append(T, e)
            n == Len(T)
            L == Len(i.grants)
            j == IF e.who \in Humans THEN i ELSE EditedByNonHuman(i)
<1>0. /\ i \in Issue /\ i.grants \in Seq(Grant) /\ L \in Nat /\ n \in Nat
      /\ e.who \in Humans \cup Bots
  BY LenProperties DEF Reduced, Issue, Entry
<1>1. PICK at \in [1..L -> 1..n] : Lists(T, i.grants, at)
  BY DEF Reduced
<1>2. \A k \in 1..L : i.grants[k] \in Grant /\ i.grants[k].id \in ActiveIds(i.grants)
  BY <1>0, ElementOfSeq DEF ActiveIds
<1>3. \A x \in ActiveIds(i.grants) : x \in DiffIds
  BY <1>2 DEF ActiveIds, Grant
<1>4. /\ j \in Issue /\ j.grants = i.grants
      /\ j.edited = IF e.who \in Humans THEN i.edited ELSE ActiveIds(i.grants)
  BY <1>0, <1>3 DEF EditedByNonHuman, Issue
<1>. HIDE DEF j
<1>5. /\ Len(U) = n + 1 /\ \A g \in 1..n : U[g] = T[g]
      /\ \A g \in ActiveGrants(T) : g \in 1..n /\ g \in ActiveGrants(U)
      /\ \A g \in ActiveGrants(U) : g \in ActiveGrants(T)
      /\ \A g \in 1..n : FollowedByBot(U, g) <=> FollowedByBot(T, g) \/ e.who \in Bots
  BY EntryAppended
<1>. HIDE DEF U, n
<1>6. \A x \in 1..n : x \in 1..n + 1
  BY <1>0
<1>7. at \in [1..L -> 1..n + 1]
  BY <1>1, <1>6
<1>8. Lists(U, i.grants, at)
  <2>1. \A k \in 1..L : at[k] \in ActiveGrants(T) /\ i.grants[k] = GrantAt(T, at[k])
    BY <1>1 DEF Lists
  <2>2. \A g \in ActiveGrants(T) : GrantAt(U, g) = GrantAt(T, g)
    BY <1>5 DEF GrantAt
  <2>. QED
    BY <1>1, <1>5, <2>1, <2>2 DEF Lists
<1>9. ASSUME NEW g \in ActiveGrants(U)
      PROVE  U[g].id \in j.edited <=> FollowedByBot(U, g)
  <2>1. g \in ActiveGrants(T) /\ g \in 1..n /\ U[g] = T[g]
    BY <1>5
  <2>2. T[g].id \in i.edited <=> FollowedByBot(T, g)
    BY <2>1 DEF Reduced
  <2>3. FollowedByBot(U, g) <=> FollowedByBot(T, g) \/ e.who \in Bots
    BY <1>5, <2>1
  <2>4. e.who \in Humans <=> e.who \notin Bots
    BY <1>0, IssueAssumption
  <2>5. T[g].id \in ActiveIds(i.grants)
    <3>1. PICK l \in 1..L : at[l] = g
      BY <1>1, <2>1 DEF Lists
    <3>2. i.grants[l] = GrantAt(T, g)
      BY <1>1, <3>1 DEF Lists
    <3>. QED
      BY <1>2, <3>2 DEF GrantAt
  <2>. QED
    BY <1>4, <2>1, <2>2, <2>3, <2>4, <2>5
<1>10. \E x \in [1..Len(j.grants) -> 1..Len(U)] : Lists(U, j.grants, x)
  BY <1>4, <1>5, <1>7, <1>8
<1>. QED
  BY <1>4, <1>9, <1>10 DEF Reduced, U, j

-----------------------------------------------------------------------------
(* The invariant: the timeline is in order, and the summary of the issue   *)
(* is that of its timeline.                                                *)
ReducedInv ==
    /\ TimelineOK
    /\ issue \in [IssueNumbers -> Issue]
    /\ Reduced(timeline, issue[TheIssue])

LEMMA ReducedInit == TimelineInit => ReducedInv
<1>. SUFFICES ASSUME TimelineInit PROVE ReducedInv
  OBVIOUS
<1>1. issue = [n \in IssueNumbers |-> NewIssue] /\ timeline = <<>>
  BY DEF TimelineInit
<1>2. NewIssue \in Issue /\ NewIssue.grants = <<>> /\ NewIssue.edited = {}
  BY DEF NewIssue, Issue
<1>3. timeline \in Seq(Entry) /\ Len(timeline) = 0 /\ DOMAIN timeline = {}
  BY <1>1
<1>4. ActiveGrants(timeline) = {}
  BY <1>3 DEF ActiveGrants
<1>5. \E at \in [1..Len(NewIssue.grants) -> 1..Len(timeline)] :
         Lists(timeline, NewIssue.grants, at)
  <2>. DEFINE at == [k \in 1..0 |-> k]
  <2>1. Len(NewIssue.grants) = 0 /\ 1..0 = {}
    BY <1>2
  <2>2. at \in [1..0 -> 1..0]
    OBVIOUS
  <2>3. Lists(timeline, NewIssue.grants, at)
    BY <1>4, <2>1 DEF Lists
  <2>. QED
    BY <1>3, <2>1, <2>2, <2>3
<1>6. issue[TheIssue] = NewIssue
  BY <1>1, TimelineAssumption
<1>7. TimelineOK
  BY <1>3, TimelineAssumption DEF TimelineOK, InOrder
<1>. QED
  BY <1>1, <1>2, <1>4, <1>5, <1>6, <1>7 DEF ReducedInv, Reduced

(* One more entry, not before the last.                                    *)
LEMMA HappensInOrder ==
    ASSUME TimelineOK, NEW event \in {"labeled", "unlabeled", "other"},
           NEW id \in DiffIds \cup {NoDiff}, NEW who \in Humans \cup Bots,
           Happens(event, id, who)
    PROVE  /\ TimelineOK'
           /\ \E e \in Entry : /\ e.event = event /\ e.id = id /\ e.who = who
                               /\ timeline' = Append(timeline, e)
<1>. DEFINE n == Len(timeline)
            now == IF timeline = <<>> THEN 0 ELSE Last(timeline).at
<1>1. /\ timeline \in Seq(Entry) /\ n \in 0..MaxEntries /\ n < MaxEntries /\ n \in Nat
      /\ MaxEntries \in Nat /\ \A i \in 1..n : timeline[i] \in Entry
  BY TimelineAssumption, LenProperties, ElementOfSeq DEF TimelineOK, Happens
<1>2. \A i \in 1..n : timeline[i].at \in Nat
  BY <1>1 DEF Entry
<1>3. now \in Nat /\ \A i \in 1..n : timeline[i].at <= now
  <2>1. CASE n = 0
    BY <1>1, <2>1
  <2>2. CASE n # 0
    <3>1. n \in 1..n /\ timeline # <<>> /\ now = timeline[n].at
      BY <1>1, <2>2 DEF Last
    <3>2. \A i \in 1..n : i < n => timeline[i].at <= timeline[n].at
      BY <3>1 DEF TimelineOK, InOrder
    <3>. QED
      BY <1>1, <1>2, <3>1, <3>2
  <2>. QED
    BY <2>1, <2>2
<1>4. PICK at \in {now, now + 1} :
         timeline' = Append(timeline, [event |-> event, id |-> id, who |-> who, at |-> at])
  BY DEF Happens
<1>. HIDE DEF now
<1>. DEFINE e == [event |-> event, id |-> id, who |-> who, at |-> at]
<1>5. e \in Entry /\ e.event = event /\ e.id = id /\ e.who = who /\ e.at = at
  BY <1>3 DEF Entry
<1>6. at \in Nat /\ now <= at
  BY <1>3
<1>7. timeline' = Append(timeline, e)
  BY <1>4
<1>. HIDE DEF e
<1>8. /\ timeline' \in Seq(Entry) /\ Len(timeline') = n + 1 /\ timeline'[n + 1] = e
      /\ \A i \in 1..n : timeline'[i] = timeline[i]
  BY <1>1, <1>5, <1>7, AppendProperties
<1>9. ASSUME NEW i \in 1..n + 1, NEW j \in 1..n + 1, i < j
      PROVE  timeline'[i].at <= timeline'[j].at
  <2>1. i \in 1..n
    BY <1>1, <1>9
  <2>2. CASE j \in 1..n
    BY <1>8, <1>9, <2>1, <2>2 DEF TimelineOK, InOrder
  <2>3. CASE j = n + 1
    BY <1>2, <1>3, <1>5, <1>6, <1>8, <2>1, <2>3
  <2>. QED
    BY <1>1, <2>2, <2>3
<1>10. Len(timeline') \in 0..MaxEntries
  BY <1>1, <1>8
<1>. QED
  BY <1>5, <1>7, <1>8, <1>9, <1>10 DEF TimelineOK, InOrder

LEMMA ReducedStep == ReducedInv /\ [TimelineNext]_timelineVars => ReducedInv'
<1>. SUFFICES ASSUME ReducedInv, [TimelineNext]_timelineVars PROVE ReducedInv'
  OBVIOUS
<1>1. TimelineOK /\ issue \in [IssueNumbers -> Issue] /\ Reduced(timeline, issue[TheIssue])
  BY DEF ReducedInv
<1>2. CASE UNCHANGED timelineVars
  BY <1>1, <1>2 DEF timelineVars, ReducedInv, TimelineOK
<1>3. ASSUME NEW i, issue' = [issue EXCEPT ![TheIssue] = i], TimelineOK',
             Reduced(timeline', i)
      PROVE  ReducedInv'
  <2>1. i \in Issue
    BY <1>3 DEF Reduced
  <2>2. issue' \in [IssueNumbers -> Issue] /\ issue'[TheIssue] = i
    BY <1>1, <1>3, <2>1, TimelineAssumption
  <2>. QED
    BY <1>3, <2>2 DEF ReducedInv
<1>. DEFINE old == issue[TheIssue]
<1>4. timeline \in Seq(Entry)
  BY <1>1 DEF TimelineOK
<1>5. ASSUME NEW who \in Humans \cup Bots, NEW id \in DiffIds, Label(who, id)
      PROVE  ReducedInv'
  <2>1. /\ issue' = [issue EXCEPT ![TheIssue] = Labeled(old, id, who)]
        /\ id \notin ActiveIds(old.grants)
    BY <1>5 DEF Label, AddLabel
  <2>2. /\ TimelineOK'
        /\ \E e \in Entry : /\ e.event = "labeled" /\ e.id = id /\ e.who = who
                            /\ timeline' = Append(timeline, e)
    BY <1>1, <1>5, HappensInOrder DEF Label
  <2>3. Reduced(timeline', Labeled(old, id, who))
    BY <1>1, <1>4, <2>1, <2>2, LabelReduces
  <2>. QED
    BY <1>3, <2>1, <2>2, <2>3
<1>6. ASSUME NEW who \in Humans \cup Bots, NEW id \in DiffIds, Unlabel(who, id)
      PROVE  ReducedInv'
  <2>1. /\ issue' = [issue EXCEPT ![TheIssue] = Unlabeled(old, id, who \in Humans)]
        /\ id \in ActiveIds(old.grants)
    BY <1>6 DEF Unlabel
  <2>2. /\ TimelineOK'
        /\ \E e \in Entry : /\ e.event = "unlabeled" /\ e.id = id /\ e.who = who
                            /\ timeline' = Append(timeline, e)
    BY <1>1, <1>6, HappensInOrder DEF Unlabel
  <2>3. Reduced(timeline', Unlabeled(old, id, who \in Humans))
    BY <1>1, <1>4, <2>1, <2>2, UnlabelReduces
  <2>. QED
    BY <1>3, <2>1, <2>2, <2>3
<1>7. ASSUME NEW who \in Humans \cup Bots, Comment(who)
      PROVE  ReducedInv'
  <2>. DEFINE i == IF who \in Humans THEN old ELSE EditedByNonHuman(old)
  <2>1. issue' = [issue EXCEPT ![TheIssue] = i]
    BY <1>1, <1>7, TimelineAssumption DEF Comment
  <2>2. /\ TimelineOK'
        /\ \E e \in Entry : /\ e.event = "other" /\ e.who = who
                            /\ timeline' = Append(timeline, e)
    BY <1>1, <1>7, HappensInOrder DEF Comment
  <2>3. Reduced(timeline', i)
    BY <1>1, <1>4, <2>2, CommentReduces
  <2>. QED
    BY <1>3, <2>1, <2>2, <2>3
<1>. QED
  BY <1>2, <1>5, <1>6, <1>7 DEF TimelineNext

(* Sorted and reduced anew on every read, a timeline yields what the       *)
(* summary kept of it, in whichever order GitHub returns it and however    *)
(* many labels, removals and comments of whomever it holds.                *)
THEOREM SummariesAreTrue == TimelineSpec => []ReductionReflectsHistory
<1>1. ReducedInv => ReductionReflectsHistory
  <2>. SUFFICES ASSUME ReducedInv, NEW array \in Returned
                PROVE  CurrentConsentIn(array) = Summary(issue[TheIssue])
    BY DEF ReductionReflectsHistory
  <2>. DEFINE T == timeline
              i == issue[TheIssue]
              n == Len(T)
              L == Len(i.grants)
              A == ActiveGrants(T)
              g == Max(A)
  <2>1. TimelineOK /\ Reduced(T, i)
    BY DEF ReducedInv
  <2>2. Chronological(array) = T
    BY <2>1, OrderRestored
  <2>3. /\ T \in Seq(Entry) /\ n \in Nat /\ DOMAIN T = 1..n
        /\ i \in Issue /\ i.grants \in Seq(Grant) /\ L \in Nat
    BY <2>1, LenProperties DEF TimelineOK, Reduced, Issue
  <2>4. PICK at \in [1..L -> 1..n] : Lists(T, i.grants, at)
    BY <2>1 DEF Reduced
  <2>5. A \in SUBSET (1..n)
    BY <2>3 DEF ActiveGrants
  <2>6. CASE A = {}
    <3>1. \A k \in 1..L : FALSE
      BY <2>4, <2>6 DEF Lists
    <3>2. L = 0
      BY <2>3, <3>1
    <3>3. i.grants = <<>>
      BY <2>3, <3>2, EmptySeq
    <3>4. CurrentConsentIn(array) = <<>>
      BY <2>2, <2>6 DEF CurrentConsentIn
    <3>5. Summary(i) = <<>>
      BY <3>3 DEF Summary, HasConsent
    <3>. QED
      BY <3>4, <3>5
  <2>7. CASE A # {}
    <3>1. g \in A /\ \A h \in A : h <= g
      BY <2>3, <2>5, <2>7, GreatestNumber
    <3>2. PICK k \in 1..L : at[k] = g
      BY <2>4, <3>1 DEF Lists
    <3>3. L \in 1..L /\ at[L] \in A /\ i.grants[L] = GrantAt(T, at[L])
      <4>1. L \in 1..L
        BY <2>3, <3>2
      <4>2. \A l \in 1..L : at[l] \in A /\ i.grants[l] = GrantAt(T, at[l])
        BY <2>4 DEF Lists
      <4>. HIDE DEF L, A, i, T
      <4>. QED
        BY <4>1, <4>2
    <3>4. at[L] = g
      <4>1. k < L => at[k] < at[L]
        BY <2>4, <3>3 DEF Lists
      <4>2. at[L] <= g /\ at[L] \in 1..n /\ g \in 1..n
        BY <2>5, <3>1, <3>3
      <4>. QED
        BY <2>3, <3>2, <4>1, <4>2
    <3>5. i.grants # <<>>
      BY <3>3
    <3>6. CurrentConsent(i).id = T[g].id /\ CurrentConsent(i).by = T[g].who
      BY <3>3, <3>4 DEF CurrentConsent, GrantAt
    <3>. DEFINE late == \E j \in DOMAIN T : j > g /\ T[j].who \in Bots
    <3>7. late = NonHumanEditAfterGrant(i)
      <4>1. T[g].id \in i.edited <=> FollowedByBot(T, g)
        BY <2>1, <3>1 DEF Reduced
      <4>2. late <=> FollowedByBot(T, g)
        BY <2>3 DEF FollowedByBot
      <4>3. NonHumanEditAfterGrant(i) <=> T[g].id \in i.edited
        BY <3>6 DEF NonHumanEditAfterGrant
      <4>4. late \in BOOLEAN /\ NonHumanEditAfterGrant(i) \in BOOLEAN
        BY DEF NonHumanEditAfterGrant
      <4>. QED
        BY <4>1, <4>2, <4>3, <4>4
    <3>8. CurrentConsentIn(array) = <<[id |-> T[g].id, by |-> T[g].who, edited |-> late]>>
      BY <2>2, <2>7 DEF CurrentConsentIn
    <3>9. Summary(i) = <<[id |-> CurrentConsent(i).id, by |-> CurrentConsent(i).by,
                          edited |-> NonHumanEditAfterGrant(i)]>>
      BY <3>5 DEF Summary, HasConsent
    <3>10. CurrentConsentIn(array) = Summary(i)
      <4>. HIDE DEF late, i, T, g
      <4>. QED
        BY <3>6, <3>7, <3>8, <3>9
    <3>. QED
      BY <3>10
  <2>. QED
    BY <2>6, <2>7
<1>. QED
  BY <1>1, ReducedInit, ReducedStep, PTL DEF TimelineSpec

-----------------------------------------------------------------------------
(* Not being before is a total preorder on what versions are compared by.  *)
LEMMA NotBeforeIsTotal ==
    ASSUME NEW a \in Triple, NEW b \in Triple
    PROVE  /\ ~TripleBefore(a, a)
           /\ ~TripleBefore(a, b) \/ ~TripleBefore(b, a)
<1>1. /\ a[1] \in Nat /\ a[2] \in Nat /\ a[3] \in Nat
      /\ b[1] \in Nat /\ b[2] \in Nat /\ b[3] \in Nat
  BY DEF Triple
<1>. QED
  BY <1>1 DEF TripleBefore

LEMMA NotBeforeIsTransitive ==
    ASSUME NEW a \in Triple, NEW b \in Triple, NEW c \in Triple,
           ~TripleBefore(a, b), ~TripleBefore(b, c)
    PROVE  ~TripleBefore(a, c)
<1>1. /\ a[1] \in Nat /\ a[2] \in Nat /\ a[3] \in Nat
      /\ b[1] \in Nat /\ b[2] \in Nat /\ b[3] \in Nat
      /\ c[1] \in Nat /\ c[2] \in Nat /\ c[3] \in Nat
  BY DEF Triple
<1>. QED
  BY <1>1 DEF TripleBefore

LEMMA LowerBoundType ==
    ASSUME NEW p \in Pin
    PROVE  LowerBound(p) \in Triple
<1>1. p.version \in Triple
  BY DEF Pin
<1>2. p.version[1] \in Nat
  BY <1>1 DEF Triple
<1>. QED
  BY <1>1, <1>2 DEF LowerBound, Triple

(* Of finitely many records one binds the most.                            *)
Binds(p, pins) == \A q \in pins : ~TripleBefore(LowerBound(p), LowerBound(q))

LEMMA HighestExists ==
    ASSUME NEW pins \in SUBSET Pin, pins # {}, IsFiniteSet(pins)
    PROVE  \E p \in pins : Binds(p, pins)
<1>. SUFFICES ASSUME ~ \E p \in pins : Binds(p, pins) PROVE FALSE
  OBVIOUS
<1>. DEFINE Bad(S) == S # {} /\ IsFiniteSet(S) /\ ~ \E p \in S : Binds(p, S)
            Sizes == {Cardinality(S) : S \in {T \in SUBSET Pin : Bad(T)}}
<1>1. \A S \in SUBSET Pin : Bad(S) => Cardinality(S) \in Nat
  BY FS_CardinalityType
<1>2. Sizes \in SUBSET Nat /\ Sizes # {}
  BY <1>1
<1>3. PICK n \in Sizes : \A k \in Sizes : n <= k
  BY <1>2, LeastNumber
<1>4. PICK S \in SUBSET Pin : Bad(S) /\ Cardinality(S) = n
  OBVIOUS
<1>5. PICK x \in S : TRUE
  BY <1>4
<1>. DEFINE R == S \ {x}
<1>6. /\ R \in SUBSET Pin /\ IsFiniteSet(R)
      /\ Cardinality(R) = n - 1 /\ n \in Nat /\ Cardinality(R) \in Nat
  BY <1>2, <1>4, <1>5, FS_RemoveElement, FS_CardinalityType
<1>7. ~Bad(R)
  <2>1. Bad(R) => Cardinality(R) \in Sizes
    BY <1>6
  <2>2. Bad(R) => n <= Cardinality(R)
    BY <1>3, <2>1, Zenon
  <2>3. ~(n <= Cardinality(R))
    BY <1>6
  <2>. QED
    BY <2>2, <2>3, Zenon
<1>8. x \in Pin /\ LowerBound(x) \in Triple
  BY <1>5, LowerBoundType
<1>9. \A q \in S : q = x \/ q \in R
  OBVIOUS
<1>10. CASE R = {}
  <2>1. Binds(x, S)
    BY <1>8, <1>9, <1>10, NotBeforeIsTotal DEF Binds
  <2>. QED
    BY <1>4, <2>1
<1>11. CASE R # {}
  <2>1. PICK p \in R : Binds(p, R)
    BY <1>6, <1>7, <1>11
  <2>2. p \in S /\ LowerBound(p) \in Triple
    BY <1>6, LowerBoundType
  <2>3. CASE ~TripleBefore(LowerBound(p), LowerBound(x))
    <3>1. Binds(p, S)
      BY <1>9, <2>1, <2>3 DEF Binds
    <3>. QED
      BY <1>4, <2>2, <3>1
  <2>4. CASE TripleBefore(LowerBound(p), LowerBound(x))
    <3>1. ~TripleBefore(LowerBound(x), LowerBound(p))
      BY <1>8, <2>2, <2>4, NotBeforeIsTotal
    <3>2. ASSUME NEW q \in R PROVE ~TripleBefore(LowerBound(x), LowerBound(q))
      <4>1. LowerBound(q) \in Triple /\ ~TripleBefore(LowerBound(p), LowerBound(q))
        BY <1>6, <2>1, LowerBoundType DEF Binds
      <4>. QED
        BY <1>8, <2>2, <3>1, <4>1, NotBeforeIsTransitive
    <3>3. Binds(x, S)
      BY <1>8, <1>9, <3>2, NotBeforeIsTotal DEF Binds
    <3>. QED
      BY <1>4, <3>3
  <2>. QED
    BY <2>3, <2>4
<1>. QED
  BY <1>10, <1>11

(* The record that binds the most is judged as all of them are.            *)
LEMMA OneRecordDecides ==
    ASSUME NEW pins \in SUBSET Pin, pins # {}, IsFiniteSet(pins),
           NEW t \in Pin, NEW p \in Pin
    PROVE  (\A r \in pins : IsCompatible(t, p, r))
             <=> IsCompatible(t, p, MostRestrictive(pins))
<1>. DEFINE most == MostRestrictive(pins)
<1>1. CASE \E q \in pins : ~IsKnown(q)
  <2>1. most \in pins /\ ~IsKnown(most)
    BY <1>1 DEF MostRestrictive
  <2>. HIDE DEF most
  <2>2. ~IsCompatible(t, p, most)
    BY <2>1 DEF IsCompatible
  <2>. QED
    BY <2>1, <2>2 DEF most
<1>2. CASE \A q \in pins : IsKnown(q)
  <2>1. most = Highest(pins)
    BY <1>2 DEF MostRestrictive
  <2>2. most \in pins /\ Binds(most, pins)
    BY <2>1, HighestExists DEF Highest, Binds
  <2>. HIDE DEF most
  <2>3. ASSUME IsCompatible(t, p, most), NEW r \in pins
        PROVE  IsCompatible(t, p, r)
    <3>1. /\ IsVersion(t) /\ IsKnown(p) /\ t.version[1] = p.version[1]
          /\ ~TripleBefore(t.version, LowerBound(most))
      BY <2>3 DEF IsCompatible
    <3>2. /\ t.version \in Triple /\ LowerBound(most) \in Triple
          /\ LowerBound(r) \in Triple
      BY <2>2, LowerBoundType DEF Pin
    <3>3. ~TripleBefore(LowerBound(most), LowerBound(r))
      BY <2>2 DEF Binds
    <3>4. ~TripleBefore(t.version, LowerBound(r))
      BY <3>1, <3>2, <3>3, NotBeforeIsTransitive
    <3>. QED
      BY <1>2, <3>1, <3>4 DEF IsCompatible
  <2>. QED
    BY <2>2, <2>3 DEF most
<1>. QED
  BY <1>1, <1>2

(* What is admitted, once asked, is what the recorded versions allow.      *)
AdmissionInv ==
    /\ tool \in Tools /\ pinned \in Pins /\ markers \in SUBSET Pins
    /\ \/ admitted = {"unasked"}
       \/ admitted = {} /\ ~SyncAdmits
       \/ admitted = {"sync", "reconcile"} /\ SyncAdmits

LEMMA AdmissionStep == AdmissionInv /\ [CheckPin]_compatibilityVars => AdmissionInv'
<1>. SUFFICES ASSUME AdmissionInv, [CheckPin]_compatibilityVars PROVE AdmissionInv'
  OBVIOUS
<1>1. CASE UNCHANGED compatibilityVars
  BY <1>1 DEF compatibilityVars, AdmissionInv, SyncAdmits, Recorded
<1>2. CASE CheckPin
  <2>1. /\ tool \in Pin /\ pinned \in Pin
        /\ Recorded \in SUBSET Pin /\ Recorded # {} /\ IsFiniteSet(Recorded)
    <3>1. /\ tool \in Pin /\ pinned \in Pin /\ markers \in SUBSET Pin
          /\ IsFiniteSet(markers)
      BY CompatibilityAssumption, FS_Subset DEF AdmissionInv
    <3>2. IsFiniteSet({pinned})
      BY FS_Singleton
    <3>. QED
      BY <3>1, <3>2 DEF Recorded
  <2>2. SyncAdmits <=> ReconcileAdmits
    BY <2>1, OneRecordDecides DEF SyncAdmits, ReconcileAdmits
  <2>3. admitted' = IF SyncAdmits THEN {"sync", "reconcile"} ELSE {}
    BY <1>2, <2>2 DEF CheckPin
  <2>4. SyncAdmits' = SyncAdmits
    BY <1>2 DEF CheckPin, SyncAdmits, Recorded
  <2>5. (tool \in Tools /\ pinned \in Pins /\ markers \in SUBSET Pins)'
    BY <1>2 DEF CheckPin, AdmissionInv
  <2>. QED
    BY <2>3, <2>4, <2>5 DEF AdmissionInv
<1>. QED
  BY <1>1, <1>2

(* However many versions the managed files of a repository record, the     *)
(* two ways to compare the tool with them agree and admit no older tool.   *)
THEOREM OldToolsAreRefused == CompatibilitySpec => []OlderToolsStayOut
<1>1. CompatibilityInit => AdmissionInv
  BY DEF CompatibilityInit, AdmissionInv
<1>2. AdmissionInv => OlderToolsStayOut
  <2>. SUFFICES ASSUME AdmissionInv PROVE OlderToolsStayOut
    OBVIOUS
  <2>1. CASE admitted = {"unasked"}
    BY <2>1 DEF OlderToolsStayOut
  <2>2. CASE admitted = {}
    BY <2>2 DEF OlderToolsStayOut
  <2>3. CASE admitted = {"sync", "reconcile"} /\ SyncAdmits
    <3>1. /\ tool \in Pin /\ pinned \in Pin /\ markers \in SUBSET Pin
          /\ \A r \in Recorded : IsCompatible(tool, pinned, r)
      BY <2>3, CompatibilityAssumption DEF AdmissionInv, SyncAdmits
    <3>2. \E r \in Recorded : TRUE
      BY DEF Recorded
    <3>3. IsKnown(pinned) /\ tool.version[1] = pinned.version[1]
      BY <3>1, <3>2 DEF IsCompatible
    <3>4. tool.version[1] \in Nat
      BY <3>1 DEF Pin, Triple
    <3>5. ASSUME NEW m \in markers
          PROVE  /\ m.kind # "unknown"
                 /\ IF m.kind = "major" THEN m.version[1] <= tool.version[1]
                    ELSE ~TripleBefore(tool.version, m.version)
      <4>1. IsKnown(m) /\ ~TripleBefore(tool.version, LowerBound(m))
        BY <3>1 DEF Recorded, IsCompatible
      <4>2. m \in Pin /\ m.version[1] \in Nat
        BY <3>1 DEF Pin, Triple
      <4>3. m.kind # "unknown"
        BY <4>1 DEF IsKnown
      <4>4. CASE m.kind = "major"
        <5>1. LowerBound(m) = <<m.version[1], 0, 0>>
          BY <4>4 DEF LowerBound, IsVersion
        <5>2. ~(tool.version[1] < m.version[1])
          BY <4>1, <5>1 DEF TripleBefore
        <5>. QED
          BY <3>4, <4>2, <4>3, <4>4, <5>2
      <4>5. CASE m.kind # "major"
        <5>1. LowerBound(m) = m.version
          BY <4>2, <4>3, <4>5 DEF LowerBound, IsVersion, Pin
        <5>. QED
          BY <4>1, <4>3, <4>5, <5>1
      <4>. QED
        BY <4>4, <4>5
    <3>6. pinned.kind # "unknown"
      BY <3>3 DEF IsKnown
    <3>. QED
      BY <2>3, <3>3, <3>5, <3>6 DEF OlderToolsStayOut
  <2>. QED
    BY <2>1, <2>2, <2>3 DEF AdmissionInv
<1>. QED
  BY <1>1, <1>2, AdmissionStep, PTL DEF CompatibilitySpec

-----------------------------------------------------------------------------
(* Variables.                                                              *)

(* What comes out of a coercion is not coerced any further.                *)
LEMMA CoercedOnce ==
    ASSUME NEW s \in Specs, NEW raw \in Raw, NEW value \in Coerce(s, raw)
    PROVE  Coerce(s, value) = {value} /\ value \in Raw
<1>. USE VariablesAssumption
<1>1. CASE s.type = "boolean"
  <2>1. value \in {"true", "false"}
    BY <1>1 DEF Coerce
  <2>. QED
    BY <1>1, <2>1 DEF Coerce, Raw
<1>2. CASE s.type = "enum"
  <2>1. value \in Domain /\ AsText(value) = value
    BY <1>2 DEF Coerce, AsText
  <2>. QED
    BY <1>2, <2>1 DEF Coerce, Raw
<1>3. CASE s.type = "string"
  <2>1. value = AsText(raw) /\ value \in Texts \cup {"null"}
    BY <1>3 DEF Coerce, AsText, Raw
  <2>2. AsText(value) = value
    BY <2>1 DEF AsText
  <2>. QED
    BY <1>3, <2>1, <2>2 DEF Coerce, Raw
<1>. QED
  BY <1>1, <1>2, <1>3 DEF Specs

(* Nothing comes of what is there.                                         *)
LEMMA CoercedToNothing ==
    ASSUME NEW s \in Specs, NEW raw \in Raw, "null" \in Coerce(s, raw)
    PROVE  raw = "null"
BY VariablesAssumption DEF Coerce, AsText, Raw, Specs

(* What a named source, and what the default alone, resolve to.            *)
Default(s) ==
    IF s.default # "null" THEN Coerce(s, s.default)
    ELSE IF s.required THEN {} ELSE {"null"}

LEMMA ResolvedFrom ==
    ASSUME NEW s \in Specs, NEW sources \in [Sources -> Raw \cup {Unset}],
           NEW value \in ResolveVariable(s, sources)
    PROVE  \/ \E src \in Sources : sources[src] # Unset /\ value \in Coerce(s, sources[src])
           \/ (\A src \in Sources : sources[src] = Unset) /\ value \in Default(s)
<1>. DEFINE naming == {i \in DOMAIN Precedence : sources[Precedence[i]] # Unset}
            first == CHOOSE i \in naming : \A j \in naming : i <= j
<1>1. /\ DOMAIN Precedence = 1..4
      /\ Sources = {Precedence[i] : i \in 1..4}
  BY DEF Precedence, Sources
<1>2. CASE naming # {}
  <2>1. naming \in SUBSET Nat
    BY <1>1
  <2>2. \E i \in naming : \A j \in naming : i <= j
    BY <1>2, <2>1, LeastNumber
  <2>3. first \in naming
    BY <2>2, Zenon
  <2>. HIDE DEF first
  <2>4. value \in Coerce(s, sources[Precedence[first]])
    BY <1>2 DEF ResolveVariable, first
  <2>. QED
    BY <1>1, <2>3, <2>4
<1>3. CASE naming = {}
  <2>1. value \in Default(s)
    BY <1>3 DEF ResolveVariable, Default
  <2>. QED
    BY <1>1, <1>3, <2>1
<1>. QED
  BY <1>2, <1>3

(* The declaration resolved alone.                                         *)
LEMMA ResolvedAlone ==
    ASSUME NEW s \in Specs, NEW declared \in Raw \cup {Unset}
    PROVE  ResolveDeclared(s, declared) =
              LET value == IF declared = Unset THEN Default(s) ELSE Coerce(s, declared)
              IN  IF ~s.secret THEN value
                  ELSE IF declared \in {Unset, "null"} THEN value \cap {"null"} ELSE {}
<1>. DEFINE sources == [src \in Sources |-> IF src = "declaration" THEN declared ELSE Unset]
            naming == {i \in DOMAIN Precedence : sources[Precedence[i]] # Unset}
            first == CHOOSE i \in naming : \A j \in naming : i <= j
<1>1. naming = IF declared = Unset THEN {} ELSE {2}
  BY DEF Precedence, Sources
<1>2. declared # Unset => first = 2 /\ sources[Precedence[first]] = declared
  <2>1. declared # Unset => first \in {2}
    BY <1>1
  <2>. HIDE DEF first
  <2>. QED
    BY <2>1 DEF Precedence, Sources
<1>3. ResolveVariable(s, sources) = IF declared = Unset THEN Default(s) ELSE Coerce(s, declared)
  <2>1. ResolveVariable(s, sources) =
           IF naming # {} THEN Coerce(s, sources[Precedence[first]]) ELSE Default(s)
    BY DEF ResolveVariable, Default
  <2>. HIDE DEF naming, first, sources
  <2>. QED
    BY <1>1, <1>2, <2>1
<1>. QED
  BY <1>3 DEF ResolveDeclared

(* What onboarding has recorded, it has computed from what was given.      *)
RoundTripInv ==
    /\ spec \in Specs
    /\ given \in [Sources -> Raw \cup {Unset}]
    /\ \A src \in Sources \ {"declaration"} : given[src] \in Texts \cup {Unset}
    /\ onboarded.results \subseteq Onboarded(spec, given)

(* A value that came from any source, a default included, is found again:  *)
(* if it is one, because coercing it once more changes nothing; if it is   *)
(* none, because then no source and no default had one.                    *)
LEMMA FoundAgain ==
    ASSUME RoundTripInv, NEW r \in Onboarded(spec, given)
    PROVE  \/ ResolveDeclared(spec, r.declared) = {r.value}
           \/ given["declaration"] = "null" /\ r.value = "null"
<1>. USE VariablesAssumption DEF RoundTripInv
<1>1. PICK value \in ResolveVariable(spec, given) :
          /\ r.value \in ResolveDeclared(spec, value)
          /\ r.declared \in Writeback(spec, value)
  BY DEF Onboarded
<1>2. value \in Raw /\ (value # "null" => Coerce(spec, value) = {value})
  <2>1. ASSUME NEW raw \in Raw, value \in Coerce(spec, raw)
        PROVE  value \in Raw /\ Coerce(spec, value) = {value}
    BY <2>1, CoercedOnce
  <2>2. spec.default \in Raw
    BY DEF Specs
  <2>3. value \in Default(spec) => value = "null" \/ value \in Coerce(spec, spec.default)
    BY DEF Default
  <2>. QED
    BY <1>1, <2>1, <2>2, <2>3, ResolvedFrom DEF Raw
<1>3. CASE value # "null"
  <2>1. ~spec.secret /\ r.declared = value
    BY <1>1, <1>3 DEF Writeback
  <2>2. ResolveDeclared(spec, value) = {value}
    BY <1>2, <1>3, <2>1, ResolvedAlone
  <2>. QED
    BY <1>1, <2>1, <2>2
<1>4. CASE value = "null"
  <2>1. r.declared = Unset
    BY <1>1, <1>4 DEF Writeback
  <2>2. r.value = "null"
    <3>1. r.value \in Coerce(spec, "null")
      BY <1>1, <1>4, ResolvedAlone DEF Raw
    <3>2. Coerce(spec, "null") \subseteq {"null"}
      BY DEF Coerce, AsText, Specs
    <3>. QED
      BY <3>1, <3>2
  <2>3. CASE \E src \in Sources : given[src] # Unset /\ "null" \in Coerce(spec, given[src])
    <3>1. PICK src \in Sources : given[src] # Unset /\ "null" \in Coerce(spec, given[src])
      BY <2>3
    <3>2. given[src] = "null"
      BY <3>1, CoercedToNothing
    <3>. QED
      BY <2>2, <3>1, <3>2 DEF Raw
  <2>4. CASE "null" \in Default(spec)
    <3>1. Default(spec) = {"null"}
      <4>1. spec.default \in Raw
        BY DEF Specs
      <4>2. spec.default = "null"
        BY <2>4, <4>1, CoercedToNothing DEF Default
      <4>. QED
        BY <2>4, <4>2 DEF Default
    <3>2. ResolveDeclared(spec, Unset) = {"null"}
      BY <3>1, ResolvedAlone
    <3>. QED
      BY <2>1, <2>2, <3>2
  <2>. QED
    BY <1>1, <1>4, <2>3, <2>4, ResolvedFrom
<1>. QED
  BY <1>3, <1>4

(* Whatever the texts, the type, the domain, the default and the sources,  *)
(* later commands read from the declaration the very value that the files  *)
(* were rendered with when the repository was onboarded.                   *)
THEOREM ValuesAreFoundAgain == VariablesSpec => []ValuesRoundTrip
<1>1. VariablesInit => RoundTripInv
  BY DEF VariablesInit, RoundTripInv
<1>2. RoundTripInv /\ [Onboard]_variablesVars => RoundTripInv'
  BY DEF RoundTripInv, Onboard, variablesVars
<1>3. RoundTripInv => ValuesRoundTrip
  BY FoundAgain DEF RoundTripInv, ValuesRoundTrip
<1>. QED
  BY <1>1, <1>2, <1>3, PTL DEF VariablesSpec

=============================================================================
