---------------------------- MODULE ReleaseProofs ----------------------------
(***************************************************************************)
(* What holds of the release workflow for every first version, kind of     *)
(* change, number of commits and number of failed runs.                    *)
(*                                                                         *)
(* The heart of it: a version is derived once and may be tagged long       *)
(* after, when other runs have tagged theirs.  The derived version stays   *)
(* the one that would be derived anew until some run has tagged it.  The   *)
(* same holds of the versions that pull requests and commits name, which   *)
(* is why a late run cannot make the newest commit's work be forgotten.    *)
(***************************************************************************)
EXTENDS Release, TLAPS, WellFoundedInduction, SequenceTheorems

USE ReleaseAssumption

-----------------------------------------------------------------------------
(* Versions and bumps.                                                     *)

Bump == NoBump..Major

LEMMA BumpValues == Bump = {NoBump, Patch, Minor, Major} /\ NoBump = 0 /\ Patch = 1
                    /\ Minor = 2 /\ Major = 3
BY DEF Bump, NoBump, Patch, Minor, Major

(* A set of bumps has a highest one.                                       *)
LEMMA ClassifyIsHighest ==
    ASSUME NEW B \in SUBSET Bump
    PROVE  /\ Classify(B) \in B \cup {NoBump} /\ Classify(B) \in Bump
           /\ \A c \in B : c <= Classify(B)
<1>1. \E b \in B \cup {NoBump} : \A c \in B : c <= b
  <2>1. CASE Major \in B
    BY <2>1, BumpValues
  <2>2. CASE Major \notin B /\ Minor \in B
    BY <2>2, BumpValues
  <2>3. CASE Major \notin B /\ Minor \notin B /\ Patch \in B
    BY <2>3, BumpValues
  <2>4. CASE Major \notin B /\ Minor \notin B /\ Patch \notin B
    BY <2>4, BumpValues
  <2>. QED
    BY <2>1, <2>2, <2>3, <2>4
<1>2. Classify(B) \in B \cup {NoBump} /\ \A c \in B : c <= Classify(B)
  BY <1>1 DEF Classify
<1>. QED
  BY <1>2, BumpValues

(* The highest of two sets is the highest of one of them.                  *)
LEMMA ClassifyUnion ==
    ASSUME NEW B \in SUBSET Bump, NEW C \in SUBSET Bump
    PROVE  /\ Classify(C) <= Classify(B) => Classify(B \cup C) = Classify(B)
           /\ Classify(B) < Classify(C) => Classify(B \cup C) = Classify(C)
<1>. DEFINE b == Classify(B)  c == Classify(C)  d == Classify(B \cup C)
<1>1. b \in B \cup {NoBump} /\ b \in Bump /\ \A x \in B : x <= b
  BY ClassifyIsHighest
<1>2. c \in C \cup {NoBump} /\ c \in Bump /\ \A x \in C : x <= c
  BY ClassifyIsHighest
<1>3. d \in B \cup C \cup {NoBump} /\ d \in Bump /\ \A x \in B \cup C : x <= d
  <2>1. B \cup C \in SUBSET Bump
    OBVIOUS
  <2>. QED
    BY <2>1, ClassifyIsHighest
<1>. HIDE DEF b, c, d
<1>4. Bump \subseteq Nat /\ NoBump = 0
  BY BumpValues
<1>5. b <= d /\ c <= d /\ (d <= b \/ d <= c)
  BY <1>1, <1>2, <1>3, <1>4
<1>6. (c <= b => d = b) /\ (b < c => d = c)
  BY <1>1, <1>2, <1>3, <1>4, <1>5
<1>. QED
  BY <1>6 DEF b, c, d

(* A higher bump makes up for a lower one before it.                       *)
LEMMA HigherBumpWins ==
    ASSUME NEW v \in Triple, NEW b \in Bump, NEW c \in Bump, b < c
    PROVE  NextVersion(NextVersion(v, b), c) = NextVersion(v, c)
<1>1. PICK x \in Nat, y \in Nat, z \in Nat : v = <<x, y, z>>
  BY DEF Triple
<1>2. \/ b = NoBump
      \/ b = Patch /\ c \in {Minor, Major}
      \/ b = Minor /\ c = Major
  BY BumpValues
<1>3. CASE b = NoBump
  BY <1>3, BumpValues DEF NextVersion
<1>4. CASE b = Patch /\ c \in {Minor, Major}
  BY <1>1, <1>4, BumpValues DEF NextVersion
<1>5. CASE b = Minor /\ c = Major
  BY <1>1, <1>5, BumpValues DEF NextVersion
<1>. QED
  BY <1>2, <1>3, <1>4, <1>5

(* Every bump but none leads to a later version.                           *)
LEMMA NextIsLater ==
    ASSUME NEW v \in Triple, NEW b \in Bump
    PROVE  /\ NextVersion(v, b) \in Triple
           /\ b = NoBump => NextVersion(v, b) = v
           /\ b # NoBump => TripleBefore(v, NextVersion(v, b))
<1>1. PICK x \in Nat, y \in Nat, z \in Nat : v = <<x, y, z>>
  BY DEF Triple
<1>2. CASE b = NoBump
  BY <1>2, BumpValues DEF NextVersion
<1>3. CASE b = Patch
  <2>1. NextVersion(v, b) = <<x, y, z + 1>>
    BY <1>1, <1>3, BumpValues DEF NextVersion
  <2>. QED
    BY <1>1, <1>3, <2>1, BumpValues DEF Triple, TripleBefore
<1>4. CASE b = Minor
  <2>1. NextVersion(v, b) = <<x, y + 1, 0>>
    BY <1>1, <1>4, BumpValues DEF NextVersion
  <2>. QED
    BY <1>1, <1>4, <2>1, BumpValues DEF Triple, TripleBefore
<1>5. CASE b = Major
  <2>1. NextVersion(v, b) = <<x + 1, 0, 0>>
    BY <1>1, <1>5, BumpValues DEF NextVersion
  <2>. QED
    BY <1>1, <1>5, <2>1, BumpValues DEF Triple, TripleBefore
<1>. QED
  BY <1>2, <1>3, <1>4, <1>5, BumpValues

(* The order of versions is strict.                                        *)
LEMMA TripleOrder ==
    ASSUME NEW u \in Triple, NEW v \in Triple, NEW w \in Triple
    PROVE  /\ ~TripleBefore(u, u)
           /\ TripleBefore(u, v) => ~TripleBefore(v, u) /\ u # v
           /\ TripleBefore(u, v) /\ TripleBefore(v, w) => TripleBefore(u, w)
<1>1. /\ u[1] \in Nat /\ u[2] \in Nat /\ u[3] \in Nat
      /\ v[1] \in Nat /\ v[2] \in Nat /\ v[3] \in Nat
      /\ w[1] \in Nat /\ w[2] \in Nat /\ w[3] \in Nat
  BY DEF Triple
<1>2. ~TripleBefore(u, u)
  BY <1>1 DEF TripleBefore
<1>3. TripleBefore(u, v) => ~TripleBefore(v, u)
  BY <1>1 DEF TripleBefore
<1>4. TripleBefore(u, v) /\ TripleBefore(v, w) => TripleBefore(u, w)
  BY <1>1 DEF TripleBefore
<1>. QED
  BY <1>2, <1>3, <1>4

(* Final releases are ordered as their triples are.                        *)
LEMMA FinalOrder ==
    ASSUME NEW u \in Triple, NEW v \in Triple
    PROVE  /\ Core(Final(u)) = u /\ IsFinal(Final(u)) /\ Final(u) \in Key
           /\ Final(u) = Final(v) => u = v
           /\ Before(Final(u), Final(v)) <=> TripleBefore(u, v)
<1>1. Core(Final(u)) = u /\ Core(Final(v)) = v
  BY DEF Core, Final, Triple
<1>2. Final(u)[4] = 2 /\ Final(u)[5] = 0 /\ Final(v)[4] = 2 /\ Final(v)[5] = 0
  BY DEF Final
<1>3. Final(u) \in Key
  BY DEF Final, Key, Triple
<1>. QED
  BY <1>1, <1>2, <1>3 DEF Before, IsFinal

-----------------------------------------------------------------------------
(* The chain of releases.                                                  *)

Commits == [bump : NoBump..Major, release : Triple, manifest : Triple]

(* The bumps of the commits after the i-th up to the j-th.                 *)
Bumps(H, i, j) == {H[k].bump : k \in (i + 1)..j}

(* t is the last final tag up to commit x; cf. LastTag.                    *)
Nearest(T, t, x) ==
    /\ t \in T /\ IsFinal(t.version) /\ t.at <= x
    /\ \A u \in T : IsFinal(u.version) /\ u.at <= x => u.at <= t.at

(* Version w at commit x is what one derives from v at commit i.           *)
Follows(H, v, i, w, x) ==
    LET b == Classify(Bumps(H, i, x))
    IN  b # NoBump /\ w = NextVersion(v, b)

(* w at commit x follows from the last final tag up to commit y.           *)
FollowsLast(T, H, y, w, x) ==
    \A t \in T : Nearest(T, t, y) => Follows(H, Core(t.version), t.at, w, x)

LEMMA BumpsSplit ==
    ASSUME NEW H \in Seq(Commits), NEW i \in Nat, NEW j \in Nat, NEW k \in Nat,
           i <= j, j <= k, k <= Len(H)
    PROVE  /\ Bumps(H, i, j) \in SUBSET Bump /\ Bumps(H, j, k) \in SUBSET Bump
           /\ Bumps(H, i, k) = Bumps(H, i, j) \cup Bumps(H, j, k)
<1>1. (i + 1)..k = ((i + 1)..j) \cup ((j + 1)..k)
  OBVIOUS
<1>2. Bumps(H, i, k) = Bumps(H, i, j) \cup Bumps(H, j, k)
  BY <1>1 DEF Bumps
<1>3. Len(H) \in Nat /\ \A n \in 1..Len(H) : H[n] \in Commits
  BY LenProperties, ElementOfSeq
<1>4. \A n \in (i + 1)..k : H[n].bump \in Bump
  BY <1>3 DEF Commits, Bump
<1>5. Bumps(H, i, j) \in SUBSET Bump /\ Bumps(H, j, k) \in SUBSET Bump
  BY <1>1, <1>4 DEF Bumps
<1>. QED
  BY <1>2, <1>5

(* A later push changes nothing up to the commits there were.              *)
LEMMA BumpsOfAppended ==
    ASSUME NEW H \in Seq(Commits), NEW c \in Commits, NEW i \in Nat, NEW j \in Nat, j <= Len(H)
    PROVE  Bumps(Append(H, c), i, j) = Bumps(H, i, j)
<1>1. Len(H) \in Nat /\ \A n \in 1..Len(H) : Append(H, c)[n] = H[n]
  BY AppendProperties, LenProperties
<1>2. \A n \in (i + 1)..j : Append(H, c)[n] = H[n]
  BY <1>1
<1>. QED
  BY <1>2 DEF Bumps

(* There is a last final tag wherever there is a final tag.                *)
LEMMA NearestExists ==
    ASSUME NEW T, NEW x \in Nat, \A t \in T : t.at \in Nat,
           NEW s \in T, IsFinal(s.version), s.at <= x
    PROVE  \E t \in T : Nearest(T, t, x)
<1>. DEFINE F == {t \in T : IsFinal(t.version) /\ t.at <= x}
            D == {x - t.at : t \in F}
            Less == OpToRel(<, Nat)
<1>1. D \in SUBSET Nat /\ D # {}
  <2>1. s \in F
    OBVIOUS
  <2>2. \A t \in F : x - t.at \in Nat
    OBVIOUS
  <2>. QED
    BY <2>1, <2>2
<1>2. IsWellFoundedOn(Less, Nat)
  BY NatLessThanWellFounded
<1>3. \A m, n \in Nat : m < n => <<m, n>> \in Less
  BY DEF OpToRel
<1>. HIDE DEF Less
<1>4. PICK d \in D : \A m \in D : ~(<<m, d>> \in Less)
  BY <1>1, <1>2, WFMin
<1>5. PICK t \in F : d = x - t.at
  BY <1>4
<1>6. ASSUME NEW u \in F PROVE u.at <= t.at
  <2>1. x - u.at \in Nat /\ x - t.at \in Nat /\ ~(x - u.at < x - t.at)
    BY <1>1, <1>3, <1>4, <1>5
  <2>. QED
    BY <2>1
<1>. QED
  BY <1>5, <1>6 DEF Nearest

(* What follows from a commit through a tag of another version in between  *)
(* follows from that tag.                                                  *)
LEMMA FollowsInBetween ==
    ASSUME NEW H \in Seq(Commits), NEW i \in Nat, NEW j \in Nat, NEW k \in Nat,
           i <= j, j <= k, k <= Len(H),
           NEW u \in Triple, NEW v, NEW w, v # w,
           Follows(H, u, i, v, j), Follows(H, u, i, w, k)
    PROVE  Follows(H, v, j, w, k)
<1>. DEFINE b == Classify(Bumps(H, i, j))  c == Classify(Bumps(H, j, k))
            d == Classify(Bumps(H, i, k))
<1>1. /\ Bumps(H, i, j) \in SUBSET Bump /\ Bumps(H, j, k) \in SUBSET Bump
      /\ Bumps(H, i, k) = Bumps(H, i, j) \cup Bumps(H, j, k)
  BY BumpsSplit
<1>2. b \in Bump /\ c \in Bump
  BY <1>1, ClassifyIsHighest
<1>3. (c <= b => d = b) /\ (b < c => d = c)
  BY <1>1, ClassifyUnion
<1>4. v = NextVersion(u, b) /\ w = NextVersion(u, d)
  BY DEF Follows
<1>. HIDE DEF b, c, d
<1>5. b < c
  BY <1>2, <1>3, <1>4, BumpValues
<1>6. w = NextVersion(v, c)
  BY <1>2, <1>3, <1>4, <1>5, HigherBumpWins
<1>7. c # NoBump
  BY <1>2, <1>5, BumpValues
<1>. QED
  BY <1>6, <1>7 DEF Follows, c

(* A new tag p leaves in order what follows from the last tag, whether the *)
(* new one is now the last or not.                                         *)
LEMMA FollowsAfterTag ==
    ASSUME NEW H \in Seq(Commits), NEW T,
           \A t \in T : t.at \in 1..Len(H) /\ Core(t.version) \in Triple,
           NEW s \in T, IsFinal(s.version), s.at = 1,
           NEW p, p.at \in 1..Len(H), IsFinal(p.version),
           FollowsLast(T, H, p.at, Core(p.version), p.at),
           NEW x \in 1..Len(H), NEW y \in 1..x, NEW w, w # Core(p.version),
           FollowsLast(T, H, y, w, x)
    PROVE  FollowsLast(T \cup {p}, H, y, w, x)
<1>. SUFFICES ASSUME NEW t \in T \cup {p}, Nearest(T \cup {p}, t, y)
              PROVE  Follows(H, Core(t.version), t.at, w, x)
  BY DEF FollowsLast
<1>1. CASE t \in T
  <2>1. Nearest(T, t, y)
    BY <1>1 DEF Nearest
  <2>. QED
    BY <1>1, <2>1 DEF FollowsLast
<1>2. CASE t = p
  <2>1. /\ Len(H) \in Nat /\ p.at \in Nat /\ s.at <= p.at
        /\ \A u \in T : u.at \in Nat
    BY LenProperties
  <2>2. PICK c \in T : Nearest(T, c, p.at)
    BY <2>1, NearestExists
  <2>3. p.at <= y
    BY <1>2 DEF Nearest
  <2>4. \A u \in T : IsFinal(u.version) /\ u.at <= y => u.at <= p.at
    BY <1>2 DEF Nearest
  <2>5. c.at <= p.at /\ Nearest(T, c, y)
    BY <2>1, <2>2, <2>3, <2>4 DEF Nearest
  <2>6. /\ Follows(H, Core(c.version), c.at, Core(p.version), p.at)
        /\ Follows(H, Core(c.version), c.at, w, x)
    BY <2>2, <2>5 DEF FollowsLast
  <2>. QED
    BY <1>2, <2>1, <2>3, <2>5, <2>6, FollowsInBetween
<1>. QED
  BY <1>1, <1>2

(* A push leaves it in order, too.                                         *)
LEMMA FollowsAfterPush ==
    ASSUME NEW H \in Seq(Commits), NEW c \in Commits, NEW T, \A t \in T : t.at \in Nat,
           NEW x \in 1..Len(H), NEW y, NEW w, FollowsLast(T, H, y, w, x)
    PROVE  FollowsLast(T, Append(H, c), y, w, x)
<1>1. ASSUME NEW t \in T PROVE Bumps(Append(H, c), t.at, x) = Bumps(H, t.at, x)
  BY BumpsOfAppended, LenProperties
<1>. QED
  BY <1>1 DEF FollowsLast, Follows

-----------------------------------------------------------------------------
(* The invariant.                                                          *)

(* Each run that still lives, and those that know their version.           *)
Live == run \cup pending \cup failed
Derived == {r \in Live : r.pc # "derive"}
Tagged(v) == \E t \in tags : t.version = Final(v)

HistoryOK ==
    /\ history \in Seq(Commits) /\ Len(history) \in 1..MaxCommits
    /\ tags \subseteq [version : Key, at : 1..Len(history)]
    /\ Live \subseteq [at : 2..Len(history),
                       pc : {"derive", "propose", "prove", "tag", "float", "publish"},
                       last : Triple, next : Triple]
    /\ \A r \in pending \cup failed : r.pc \in {"derive", "propose", "prove"}
    /\ pulls \subseteq [version : Triple, from : Triple]

(* No two runs of one commit.                                              *)
OneRunEach ==
    /\ \A r, s \in run : r = s
    /\ \A r, s \in pending : r = s
    /\ \A r, s \in failed : r.at = s.at => r = s
    /\ \A r \in run, s \in pending \cup failed : r.at # s.at
    /\ \A r \in pending, s \in failed : r.at # s.at

(* The first tag is there, final tags are of different versions, and only  *)
(* the run of its commit can have made a tag.                              *)
TagsOK ==
    /\ [version |-> Final(Start), at |-> 1] \in tags
    /\ \A t \in FinalReleases : t.version = Final(Core(t.version))
    /\ \A t, u \in FinalReleases : t.version = u.version \/ t.at = u.at => t = u
    /\ \A t \in FinalReleases, r \in Live :
          t.at = r.at => r.pc # "derive" /\ t.version = Final(r.next)

(* Every final tag follows from the one before it, and so does the version *)
(* of a run that has not been tagged yet, however long ago it was derived. *)
Chained ==
    /\ \A u \in FinalReleases :
          u.at > 1 => FollowsLast(tags, history, u.at - 1, Core(u.version), u.at)
    /\ \A r \in Derived : ~Tagged(r.next) => FollowsLast(tags, history, r.at, r.next, r.at)

Orderly == HistoryOK /\ OneRunEach /\ TagsOK /\ Chained

RunsUpTo(n) == [at : 2..n, pc : {"derive", "propose", "prove", "tag", "float", "publish"},
                last : Triple, next : Triple]

(* A push appends a commit and leaves its new run waiting.                 *)
LEMMA PushShape ==
    ASSUME HistoryOK, LandChange \/ MergeRelease
    PROVE  /\ \E c \in Commits : history' = Append(history, c)
           /\ Len(history') = Len(history) + 1 /\ Len(history') \in 1..MaxCommits
           /\ \A i \in 1..Len(history) : history'[i] = history[i]
           /\ pending' = {NewRun(Len(history) + 1)}
           /\ failed' = failed \cup {r \in pending : r.pc # "derive"}
           /\ UNCHANGED <<tags, floating, published, run>>
           /\ pulls' \subseteq pulls
<1>1. Len(history) \in Nat /\ history[Len(history)] \in Commits
  BY LenProperties, ElementOfSeq DEF HistoryOK
<1>2. ASSUME NEW c \in Commits, Push(c)
      PROVE  /\ history' = Append(history, c)
             /\ Len(history') = Len(history) + 1 /\ Len(history') \in 1..MaxCommits
             /\ \A i \in 1..Len(history) : history'[i] = history[i]
             /\ pending' = {NewRun(Len(history) + 1)}
             /\ failed' = failed \cup {r \in pending : r.pc # "derive"}
  BY <1>1, <1>2, AppendProperties DEF Push, HistoryOK
<1>3. CASE LandChange
  <2>1. PICK c \in Changes, manifest \in {history[Len(history)].manifest} \cup
                                         (IF "revert" \in World THEN {Start} ELSE {}) :
           Push(Commit(CommitBump(c), Start, manifest))
    BY <1>3 DEF LandChange
  <2>2. manifest \in Triple
    BY <1>1 DEF Commits
  <2>3. Commit(CommitBump(c), Start, manifest) \in Commits
    BY <2>2 DEF Commit, Commits
  <2>. QED
    BY <1>2, <1>3, <2>1, <2>3 DEF LandChange
<1>4. CASE MergeRelease
  <2>. DEFINE manifest == history[Len(history)].manifest
  <2>1. PICK p \in pulls :
           /\ \E subject \in {p.version} \cup (IF "update" \in World THEN {Start} ELSE {}) :
                 Push(Commit(NoBump, subject, IF p.from = p.version THEN manifest ELSE p.version))
           /\ pulls' = pulls \ {p}
           /\ UNCHANGED <<tags, floating, published, run>>
    BY <1>4 DEF MergeRelease
  <2>2. p.version \in Triple /\ manifest \in Triple
    BY <1>1 DEF HistoryOK, Commits
  <2>. PICK subject \in {p.version} \cup (IF "update" \in World THEN {Start} ELSE {}) :
          Push(Commit(NoBump, subject, IF p.from = p.version THEN manifest ELSE p.version))
    BY <2>1
  <2>. HIDE DEF manifest
  <2>3. Commit(NoBump, subject, IF p.from = p.version THEN manifest ELSE p.version) \in Commits
    BY <2>2, BumpValues DEF Commit, Commits, Bump
  <2>. QED
    BY <1>2, <2>1, <2>3
<1>. QED
  BY <1>3, <1>4

LEMMA LastTagExists ==
    ASSUME HistoryOK, TagsOK, NEW x \in 1..Len(history)
    PROVE  LastTag(x) \in FinalReleases /\ Nearest(tags, LastTag(x), x)
<1>1. Len(history) \in Nat /\ \A t \in tags : t.at \in Nat
  BY LenProperties DEF HistoryOK
<1>2. PICK t \in tags : Nearest(tags, t, x)
  <2>. DEFINE s == [version |-> Final(Start), at |-> 1]
  <2>1. s \in tags /\ IsFinal(s.version) /\ s.at <= x
    BY <1>1, FinalOrder DEF TagsOK
  <2>. HIDE DEF s
  <2>. QED
    BY <1>1, <2>1, NearestExists
<1>3. t \in FinalTags(x) /\ \A u \in FinalTags(x) : u.at <= t.at
  BY <1>2 DEF Nearest, FinalTags
<1>4. LastTag(x) \in FinalTags(x) /\ \A u \in FinalTags(x) : u.at <= LastTag(x).at
  BY <1>3 DEF LastTag
<1>. QED
  BY <1>4 DEF Nearest, FinalTags, FinalReleases

(* The version derived at a commit, when it differs from the last one,     *)
(* follows from the last tag.                                              *)
LEMMA NextFollows ==
    ASSUME HistoryOK, TagsOK, NEW x \in 1..Len(history)
    PROVE  /\ NextOf(x) \in Triple /\ Core(LastTag(x).version) \in Triple
           /\ NextOf(x) # Core(LastTag(x).version) => FollowsLast(tags, history, x, NextOf(x), x)
<1>. DEFINE t == LastTag(x)
            B == Bumps(history, t.at, x)
<1>1. t \in FinalReleases /\ Nearest(tags, t, x)
  BY LastTagExists
<1>2. t \in tags /\ t.at \in 1..Len(history) /\ t.version \in Key /\ Len(history) \in Nat /\ t.at <= x
  BY <1>1, LenProperties DEF FinalReleases, HistoryOK, Nearest
<1>3. Core(t.version) \in Triple
  BY <1>2 DEF Core, Key, Triple
<1>4. B \in SUBSET Bump
  BY <1>2, BumpsSplit DEF HistoryOK
<1>5. NextOf(x) = NextVersion(Core(t.version), Classify(B))
  BY DEF NextOf, Bumps
<1>. HIDE DEF B
<1>6. Classify(B) \in Bump
  BY <1>4, ClassifyIsHighest
<1>7. NextOf(x) \in Triple /\ (NextOf(x) # Core(t.version) => Classify(B) # NoBump)
  BY <1>3, <1>5, <1>6, NextIsLater
<1>8. \A u \in tags : Nearest(tags, u, x) => u = t
  <2>. SUFFICES ASSUME NEW u \in tags, Nearest(tags, u, x) PROVE u = t
    OBVIOUS
  <2>1. u \in FinalReleases /\ u.at <= t.at /\ t.at <= u.at
    BY <1>1 DEF Nearest, FinalReleases
  <2>2. u.at \in Nat /\ t.at \in Nat
    BY <1>2 DEF HistoryOK
  <2>3. u.at = t.at
    BY <2>1, <2>2
  <2>. HIDE DEF t
  <2>. QED
    BY <1>1, <2>1, <2>3 DEF TagsOK
<1>. QED
  BY <1>3, <1>5, <1>7, <1>8 DEF FollowsLast, Follows, B

LEMMA OrderlyInit == Init => Orderly
<1>. SUFFICES ASSUME Init PROVE Orderly
  OBVIOUS
<1>. DEFINE c == Commit(NoBump, Start, Start)  t == [version |-> Final(Start), at |-> 1]
<1>1. c \in Commits
  BY BumpValues DEF Commit, Commits, Bump
<1>2. history = <<c>> /\ tags = {t} /\ Live = {} /\ pulls = {}
  BY DEF Init, Live
<1>3. history \in Seq(Commits) /\ Len(history) = 1
  BY <1>1, <1>2
<1>4. t \in [version : Key, at : 1..1] /\ t.at = 1 /\ t.version = Final(Core(t.version))
  BY FinalOrder
<1>. HIDE DEF c, t
<1>5. HistoryOK
  BY <1>2, <1>3, <1>4 DEF HistoryOK, Live
<1>6. OneRunEach
  BY DEF Init, OneRunEach
<1>7. TagsOK
  BY <1>2, <1>4 DEF TagsOK, FinalReleases, t
<1>8. Chained
  BY <1>2, <1>4 DEF Chained, FinalReleases, Derived
<1>. QED
  BY <1>5, <1>6, <1>7, <1>8 DEF Orderly

(* A step other than a push: runs keep their commits and versions, but for *)
(* the one that derives.                                                   *)
LEMMA RunsKeep ==
    ASSUME HistoryOK, OneRunEach, TagsOK,
           Begin \/ RunAgain \/ Fail \/ Derive \/ Propose \/ Prove \/ PushTag \/ MoveFloating
             \/ Publish \/ TagPrerelease
    PROVE  /\ UNCHANGED history
           /\ \A s \in Live' : \E r \in Live :
                 /\ s.at = r.at /\ s \in RunsUpTo(Len(history))
                 /\ \/ s.next = r.next /\ (s.pc = "derive" <=> r.pc = "derive")
                    \/ /\ r.pc = "derive" /\ s.pc # "derive"
                       /\ s.next = NextOf(s.at) /\ NextOf(s.at) # Core(LastTag(s.at).version)
           /\ \A r \in pending' \cup failed' : r.pc \in {"derive", "propose", "prove"}
<1>. DEFINE Kept(s, r) == s.at = r.at /\ s.next = r.next /\ (s.pc = "derive" <=> r.pc = "derive")
            R == RunsUpTo(Len(history))
<1>1. Live \subseteq R /\ Live = run \cup pending \cup failed
      /\ \A r \in pending \cup failed : r.pc \in {"derive", "propose", "prove"}
  BY DEF HistoryOK, RunsUpTo, Live
<1>2. CASE UNCHANGED <<history, run, pending, failed>>
  BY <1>1, <1>2 DEF Live
<1>3. CASE Begin
  BY <1>1, <1>3 DEF Begin, Live
<1>4. CASE RunAgain
  BY <1>1, <1>4 DEF RunAgain, Live
<1>5. CASE Fail
  <2>1. PICK r \in run : failed' = failed \cup {[r EXCEPT !.pc = JobOf(@)]}
    BY <1>5 DEF Fail
  <2>2. r \in R
    BY <1>1
  <2>3. JobOf(r.pc) \in {"derive", "propose", "prove"} /\ (JobOf(r.pc) = "derive" <=> r.pc = "derive")
    BY DEF JobOf
  <2>. DEFINE s == [r EXCEPT !.pc = JobOf(@)]
  <2>4. s \in R /\ Kept(s, r) /\ s.pc \in {"derive", "propose", "prove"}
    BY <2>2, <2>3 DEF RunsUpTo
  <2>. HIDE DEF s
  <2>. QED
    BY <1>1, <1>5, <2>1, <2>4 DEF Fail, Live, s
<1>6. ASSUME NEW r \in run, NEW pc \in {"tag", "float", "publish"}, r.pc # "derive",
             run' = {[r EXCEPT !.pc = pc]}, UNCHANGED <<history, pending, failed>>
      PROVE  /\ UNCHANGED history
             /\ \A s \in Live' : s \in R /\ \E q \in Live : Kept(s, q)
             /\ \A q \in pending' \cup failed' : q.pc \in {"derive", "propose", "prove"}
  <2>1. r \in R
    BY <1>1
  <2>2. [r EXCEPT !.pc = pc] \in R /\ Kept([r EXCEPT !.pc = pc], r)
    BY <1>6, <2>1 DEF RunsUpTo
  <2>. QED
    BY <1>1, <1>6, <2>2 DEF Live
<1>7. CASE run' = {} /\ UNCHANGED <<history, pending, failed>>
  BY <1>1, <1>7 DEF Live
<1>8. CASE Propose \/ Publish
  BY <1>7, <1>8 DEF Propose, Publish
<1>9. CASE Prove
  BY <1>6, <1>7, <1>9 DEF Prove
<1>10. CASE PushTag
  BY <1>6, <1>10 DEF PushTag
<1>11. CASE MoveFloating
  BY <1>6, <1>11 DEF MoveFloating
<1>12. CASE TagPrerelease
  BY <1>2, <1>12 DEF TagPrerelease
<1>13. CASE Derive
  <2>1. PICK r \in run :
           /\ r.pc = "derive"
           /\ run' = IF NextOf(r.at) = Core(LastTag(r.at).version) THEN {}
                     ELSE {[r EXCEPT !.last = Core(LastTag(r.at).version), !.next = NextOf(r.at),
                               !.pc = IF history[r.at].release = NextOf(r.at)
                                      THEN "prove" ELSE "propose"]}
           /\ UNCHANGED <<history, pending, failed>>
    BY <1>13 DEF Derive
  <2>2. CASE run' = {}
    BY <1>7, <2>1, <2>2
  <2>3. CASE run' # {}
    <3>. DEFINE s == [r EXCEPT !.last = Core(LastTag(r.at).version), !.next = NextOf(r.at),
                               !.pc = IF history[r.at].release = NextOf(r.at)
                                      THEN "prove" ELSE "propose"]
    <3>1. run' = {s} /\ NextOf(r.at) # Core(LastTag(r.at).version)
      BY <2>1, <2>3
    <3>2. r \in R /\ r.at \in 1..Len(history)
      BY <1>1 DEF RunsUpTo
    <3>3. NextOf(r.at) \in Triple /\ Core(LastTag(r.at).version) \in Triple
      BY <3>2, NextFollows
    <3>4. s \in R /\ s.at = r.at /\ s.next = NextOf(r.at) /\ s.pc # "derive"
      BY <3>2, <3>3 DEF RunsUpTo
    <3>. HIDE DEF s
    <3>. QED
      BY <1>1, <2>1, <3>1, <3>4 DEF Live
  <2>. QED
    BY <2>2, <2>3
<1>. QED
  BY <1>3, <1>4, <1>5, <1>8, <1>9, <1>10, <1>11, <1>12, <1>13

OtherSteps ==
    Begin \/ RunAgain \/ Fail \/ Derive \/ Propose \/ Prove \/ PushTag \/ MoveFloating
      \/ Publish \/ TagPrerelease

LEMMA NextCases ==
    [Next]_vars <=> LandChange \/ MergeRelease \/ OtherSteps \/ UNCHANGED vars
BY DEF Next, OtherSteps

(* A push adds its own run to those that live, at a commit of its own.     *)
LEMMA RunsAfterPush ==
    ASSUME HistoryOK, LandChange \/ MergeRelease
    PROVE  /\ NewRun(Len(history) + 1) \in RunsUpTo(Len(history'))
           /\ Live' \subseteq Live \cup {NewRun(Len(history) + 1)}
           /\ Derived' \subseteq Derived
           /\ \A r \in Live : r.at \in 2..Len(history)
<1>1. Len(history) \in Nat \ {0} /\ Len(history') = Len(history) + 1
  BY PushShape, LenProperties DEF HistoryOK
<1>2. NewRun(Len(history) + 1) \in RunsUpTo(Len(history'))
  BY <1>1 DEF NewRun, RunsUpTo
<1>3. Live' \subseteq Live \cup {NewRun(Len(history) + 1)}
  BY PushShape DEF Live
<1>4. NewRun(Len(history) + 1).pc = "derive"
  BY DEF NewRun
<1>. QED
  BY <1>1, <1>2, <1>3, <1>4 DEF Derived, HistoryOK, Live

LEMMA HistoryStep == Orderly /\ [Next]_vars => HistoryOK'
<1>. SUFFICES ASSUME Orderly, [Next]_vars PROVE HistoryOK'
  OBVIOUS
<1>. USE DEF Orderly
<1>1. CASE LandChange \/ MergeRelease
  <2>1. /\ history' \in Seq(Commits) /\ Len(history') \in 1..MaxCommits
        /\ Len(history') = Len(history) + 1 /\ Len(history) \in Nat
    BY <1>1, PushShape, AppendProperties, LenProperties DEF HistoryOK
  <2>2. tags' \subseteq [version : Key, at : 1..Len(history')]
    BY <1>1, <2>1, PushShape DEF HistoryOK
  <2>3. Live \subseteq RunsUpTo(Len(history'))
    BY <2>1 DEF HistoryOK, RunsUpTo
  <2>4. Live' \subseteq RunsUpTo(Len(history'))
    BY <1>1, <2>3, RunsAfterPush
  <2>5. \A r \in pending' \cup failed' : r.pc \in {"derive", "propose", "prove"}
    BY <1>1, PushShape DEF HistoryOK, NewRun
  <2>6. pulls' \subseteq [version : Triple, from : Triple]
    BY <1>1, PushShape DEF HistoryOK
  <2>. QED
    BY <2>1, <2>2, <2>4, <2>5, <2>6 DEF HistoryOK, RunsUpTo
<1>2. CASE OtherSteps
  <2>1. /\ UNCHANGED history /\ Live' \subseteq RunsUpTo(Len(history))
        /\ \A r \in pending' \cup failed' : r.pc \in {"derive", "propose", "prove"}
    BY <1>2, RunsKeep DEF OtherSteps
  <2>2. tags' \subseteq [version : Key, at : 1..Len(history)]
    <3>1. CASE PushTag
      <4>1. PICK r \in run : tags' \subseteq tags \cup {[version |-> Final(r.next), at |-> r.at]}
        BY <3>1 DEF PushTag
      <4>2. r.next \in Triple /\ r.at \in 1..Len(history)
        BY DEF HistoryOK, Live
      <4>3. [version |-> Final(r.next), at |-> r.at] \in [version : Key, at : 1..Len(history)]
        BY <4>2, FinalOrder
      <4>. QED
        BY <4>1, <4>3 DEF HistoryOK
    <3>2. CASE TagPrerelease
      BY <3>2 DEF TagPrerelease, HistoryOK
    <3>3. CASE UNCHANGED tags
      BY <3>3 DEF HistoryOK
    <3>. QED
      BY <1>2, <3>1, <3>2, <3>3
         DEF OtherSteps, Begin, RunAgain, Fail, Derive, Propose, Prove, MoveFloating, Publish
  <2>3. pulls' \subseteq [version : Triple, from : Triple]
    <3>1. CASE Propose
      <4>1. PICK r \in run : pulls' \subseteq pulls \cup
                                {[version |-> r.next, from |-> history[r.at].manifest]}
        BY <3>1 DEF Propose
      <4>2. r.next \in Triple /\ r.at \in 1..Len(history)
        BY DEF HistoryOK, Live
      <4>3. history[r.at] \in Commits
        BY <4>2, ElementOfSeq DEF HistoryOK
      <4>4. [version |-> r.next, from |-> history[r.at].manifest] \in [version : Triple, from : Triple]
        BY <4>2, <4>3 DEF Commits
      <4>. QED
        BY <4>1, <4>4 DEF HistoryOK
    <3>2. CASE UNCHANGED pulls
      BY <3>2 DEF HistoryOK
    <3>. QED
      BY <1>2, <3>1, <3>2 DEF OtherSteps, Begin, RunAgain, Fail, Derive, Prove, PushTag,
                              MoveFloating, Publish, TagPrerelease
  <2>. QED
    BY <2>1, <2>2, <2>3 DEF HistoryOK, RunsUpTo
<1>3. CASE UNCHANGED vars
  BY <1>3 DEF vars, HistoryOK, Live
<1>. QED
  BY <1>1, <1>2, <1>3, NextCases

LEMMA OneRunStep == Orderly /\ [Next]_vars => OneRunEach'
<1>. SUFFICES ASSUME Orderly, [Next]_vars PROVE OneRunEach'
  OBVIOUS
<1>1. OneRunEach /\ HistoryOK
  BY DEF Orderly
<1>2. CASE LandChange \/ MergeRelease
  <2>. DEFINE new == NewRun(Len(history) + 1)
  <2>1. /\ pending' = {new} /\ run' = run
        /\ failed' = failed \cup {r \in pending : r.pc # "derive"}
    BY <1>1, <1>2, PushShape
  <2>2. new.at = Len(history) + 1
    BY DEF NewRun
  <2>3. \A r \in run \cup pending \cup failed : r.at # new.at
    BY <1>1, <1>2, <2>2, RunsAfterPush, LenProperties DEF Live, HistoryOK
  <2>. HIDE DEF new
  <2>. QED
    BY <1>1, <2>1, <2>3 DEF OneRunEach
<1>3. CASE Begin
  BY <1>1, <1>3 DEF Begin, OneRunEach
<1>4. CASE RunAgain
  BY <1>1, <1>4 DEF RunAgain, OneRunEach
<1>5. CASE Fail
  <2>1. PICK r \in run : run' = {} /\ failed' = failed \cup {[r EXCEPT !.pc = JobOf(@)]}
                         /\ pending' = pending
    BY <1>5 DEF Fail
  <2>2. [r EXCEPT !.pc = JobOf(@)].at = r.at
    BY <1>1 DEF HistoryOK, Live
  <2>. QED
    BY <1>1, <2>1, <2>2, ZenonT(60) DEF OneRunEach
<1>7. CASE run' = {} /\ UNCHANGED <<pending, failed>>
  BY <1>1, <1>7 DEF OneRunEach
<1>8. ASSUME NEW r \in run, NEW s, s.at = r.at, run' = {s}, UNCHANGED <<pending, failed>>
      PROVE  OneRunEach'
  BY <1>1, <1>8 DEF OneRunEach
<1>9. ASSUME NEW r \in run, NEW pc, run' = {[r EXCEPT !.pc = pc]}, UNCHANGED <<pending, failed>>
      PROVE  OneRunEach'
  <2>. DEFINE s == [r EXCEPT !.pc = pc]
  <2>1. s.at = r.at
    BY <1>1 DEF HistoryOK, Live
  <2>. HIDE DEF s
  <2>. QED
    BY <1>8, <1>9, <2>1 DEF s
<1>10. CASE Prove \/ PushTag \/ MoveFloating
  <2>1. CASE Prove
    BY <1>7, <1>9, <2>1 DEF Prove
  <2>2. CASE PushTag
    BY <1>9, <2>2 DEF PushTag
  <2>3. CASE MoveFloating
    BY <1>9, <2>3 DEF MoveFloating
  <2>. QED
    BY <1>10, <2>1, <2>2, <2>3
<1>11. CASE Derive
  <2>1. PICK r \in run :
           /\ \/ run' = {}
              \/ run' = {[r EXCEPT !.last = Core(LastTag(r.at).version), !.next = NextOf(r.at),
                               !.pc = IF history[r.at].release = NextOf(r.at)
                                      THEN "prove" ELSE "propose"]}
           /\ UNCHANGED <<pending, failed>>
    BY <1>11 DEF Derive
  <2>. DEFINE s == [r EXCEPT !.last = Core(LastTag(r.at).version), !.next = NextOf(r.at),
                             !.pc = IF history[r.at].release = NextOf(r.at)
                                    THEN "prove" ELSE "propose"]
  <2>2. s.at = r.at
    BY <1>1 DEF HistoryOK, Live
  <2>. HIDE DEF s
  <2>. QED
    BY <1>7, <1>8, <2>1, <2>2 DEF s
<1>12. CASE Propose \/ Publish
  BY <1>7, <1>12 DEF Propose, Publish
<1>13. CASE TagPrerelease \/ UNCHANGED vars
  BY <1>1, <1>13 DEF TagPrerelease, vars, OneRunEach
<1>. QED
  BY <1>2, <1>3, <1>4, <1>5, <1>10, <1>11, <1>12, <1>13, NextCases DEF OtherSteps

(* Only the run of a release commit tags a final version, its own.         *)
LEMMA TagsKeep ==
    ASSUME [Next]_vars, ~PushTag
    PROVE  tags \subseteq tags' /\ FinalReleases' = FinalReleases
<1>1. CASE UNCHANGED tags
  BY <1>1 DEF FinalReleases
<1>2. CASE TagPrerelease
  <2>1. PICK v \in Prereleases : tags' = tags \cup {[version |-> v, at |-> Len(history)]}
    BY <1>2 DEF TagPrerelease
  <2>2. ~IsFinal(v)
    OBVIOUS
  <2>3. [version |-> v, at |-> Len(history)].version = v
    OBVIOUS
  <2>. QED
    BY <2>1, <2>2, <2>3 DEF FinalReleases
<1>. QED
  BY <1>1, <1>2 DEF Next, LandChange, MergeRelease, Begin, RunAgain, Fail, Derive, Propose,
                    Prove, MoveFloating, Publish, vars

LEMMA TagShape ==
    ASSUME HistoryOK, PushTag
    PROVE  \E r \in run :
             LET p == [version |-> Final(r.next), at |-> r.at]
             IN  /\ r.pc = "tag" /\ r \in RunsUpTo(Len(history)) /\ IsFinal(p.version)
                 /\ p.version = Final(r.next) /\ Core(p.version) = r.next /\ p.at = r.at
                 /\ \/ Tagged(r.next) /\ UNCHANGED tags
                    \/ ~Tagged(r.next) /\ tags' = tags \cup {p}
                 /\ UNCHANGED <<history, pending, failed, floating>>
                 /\ run' = {[r EXCEPT !.pc = "float"]}
<1>1. PICK r \in run :
        /\ r.pc = "tag"
        /\ tags' = IF \E t \in tags : t.version = Final(r.next) THEN tags
                   ELSE tags \cup {[version |-> Final(r.next), at |-> r.at]}
        /\ run' = {[r EXCEPT !.pc = "float"]}
        /\ UNCHANGED <<history, pending, failed, floating>>
  BY DEF PushTag
<1>2. r \in RunsUpTo(Len(history)) /\ r.next \in Triple
  BY DEF HistoryOK, Live, RunsUpTo
<1>3. Core(Final(r.next)) = r.next /\ IsFinal(Final(r.next))
  BY <1>2, FinalOrder
<1>. QED
  BY <1>1, <1>2, <1>3 DEF Tagged

LEMMA TagsStep == Orderly /\ [Next]_vars => TagsOK'
<1>. SUFFICES ASSUME Orderly, [Next]_vars PROVE TagsOK'
  OBVIOUS
<1>1. HistoryOK /\ OneRunEach /\ TagsOK
  BY DEF Orderly
<1>2. CASE FinalReleases' = FinalReleases /\ tags \subseteq tags'
           /\ \A t \in FinalReleases, s \in Live' :
                 t.at = s.at => s.pc # "derive" /\ t.version = Final(s.next)
  BY <1>1, <1>2 DEF TagsOK
<1>3. CASE LandChange \/ MergeRelease
  <2>1. FinalReleases' = FinalReleases /\ tags \subseteq tags'
    BY <1>1, <1>3, PushShape DEF FinalReleases
  <2>2. NewRun(Len(history) + 1).at = Len(history) + 1 /\ Len(history) \in Nat
    BY <1>1, LenProperties DEF NewRun, HistoryOK
  <2>3. \A t \in FinalReleases : t.at # NewRun(Len(history) + 1).at
    BY <1>1, <2>2 DEF FinalReleases, HistoryOK
  <2>. QED
    BY <1>1, <1>2, <1>3, <2>1, <2>3, RunsAfterPush DEF TagsOK
<1>4. CASE OtherSteps /\ ~PushTag
  <2>1. FinalReleases' = FinalReleases /\ tags \subseteq tags'
    BY <1>4, TagsKeep
  <2>2. \A s \in Live' : \E r \in Live :
           s.at = r.at /\ (r.pc = "derive" \/ (s.next = r.next /\ s.pc # "derive"))
    BY <1>1, <1>4, RunsKeep DEF OtherSteps
  <2>. QED
    BY <1>1, <1>2, <2>1, <2>2 DEF TagsOK
<1>5. CASE PushTag
  <2>1. PICK r \in run :
           LET p == [version |-> Final(r.next), at |-> r.at]
           IN  /\ r.pc = "tag" /\ r \in RunsUpTo(Len(history)) /\ IsFinal(p.version)
               /\ p.version = Final(r.next) /\ Core(p.version) = r.next /\ p.at = r.at
               /\ \/ Tagged(r.next) /\ UNCHANGED tags
                  \/ ~Tagged(r.next) /\ tags' = tags \cup {p}
               /\ UNCHANGED <<history, pending, failed, floating>>
               /\ run' = {[r EXCEPT !.pc = "float"]}
    BY <1>1, <1>5, TagShape
  <2>. DEFINE p == [version |-> Final(r.next), at |-> r.at]
              s == [r EXCEPT !.pc = "float"]
  <2>2. s.at = r.at /\ s.next = r.next /\ s.pc = "float" /\ r \in Live
    BY <2>1 DEF RunsUpTo, Live
  <2>3. IsFinal(p.version) /\ p.version = Final(Core(p.version)) /\ p.at = r.at
        /\ p.version = Final(r.next)
    BY <2>1
  <2>4. \A t \in FinalReleases : t.at = r.at => t.version = Final(r.next)
    BY <1>1, <2>2 DEF TagsOK
  <2>5. Live' = {s} \cup pending \cup failed
    BY <2>1 DEF Live
  <2>6. \A q \in pending \cup failed : q.at # r.at /\ q \in Live
    BY <1>1 DEF OneRunEach, Live
  <2>. HIDE DEF p, s
  <2>7. \A t \in FinalReleases, q \in Live' :
           t.at = q.at => q.pc # "derive" /\ t.version = Final(q.next)
    BY <1>1, <2>2, <2>4, <2>5, <2>6 DEF TagsOK
  <2>8. CASE UNCHANGED tags
    BY <1>2, <2>7, <2>8 DEF FinalReleases
  <2>9. CASE ~Tagged(r.next) /\ tags' = tags \cup {p}
    <3>1. FinalReleases' = FinalReleases \cup {p}
      BY <2>3, <2>9 DEF FinalReleases
    <3>2. \A t \in FinalReleases : t.version # p.version /\ t.at # p.at
      BY <2>3, <2>4, <2>9 DEF Tagged, FinalReleases
    <3>3. \A q \in Live' : q.at = p.at => q.pc # "derive" /\ p.version = Final(q.next)
      BY <2>2, <2>3, <2>5, <2>6
    <3>. QED
      BY <1>1, <2>3, <2>7, <2>9, <3>1, <3>2, <3>3 DEF TagsOK
  <2>. QED
    BY <2>1, <2>8, <2>9 DEF p
<1>6. CASE UNCHANGED vars
  BY <1>1, <1>2, <1>6 DEF vars, FinalReleases, Live, TagsOK
<1>. QED
  BY <1>3, <1>4, <1>5, <1>6, NextCases

LEMMA ChainedStep == Orderly /\ [Next]_vars => Chained'
<1>. SUFFICES ASSUME Orderly, [Next]_vars PROVE Chained'
  OBVIOUS
<1>1. HistoryOK /\ OneRunEach /\ TagsOK /\ Chained /\ history \in Seq(Commits)
      /\ Len(history) \in Nat \ {0}
  BY LenProperties DEF Orderly, HistoryOK
<1>2. \A t \in tags : t.at \in 1..Len(history) /\ Core(t.version) \in Triple
  BY <1>1 DEF HistoryOK, Core, Key, Triple
<1>3. \A r \in Live : r.at \in 2..Len(history)
  BY <1>1 DEF HistoryOK
<1>4. CASE LandChange \/ MergeRelease
  <2>1. PICK c \in Commits : history' = Append(history, c)
    BY <1>1, <1>4, PushShape
  <2>2. tags' = tags /\ FinalReleases' = FinalReleases /\ Derived' \subseteq Derived
    BY <1>1, <1>4, PushShape, RunsAfterPush DEF FinalReleases
  <2>3. ASSUME NEW x \in 1..Len(history), NEW y, NEW w, FollowsLast(tags, history, y, w, x)
        PROVE  FollowsLast(tags', history', y, w, x)
    BY <1>1, <1>2, <2>1, <2>2, <2>3, FollowsAfterPush
  <2>4. \A u \in FinalReleases : u.at \in 1..Len(history)
    BY <1>2 DEF FinalReleases
  <2>5. \A r \in Derived : r.at \in 1..Len(history)
    BY <1>3 DEF Derived
  <2>. QED
    BY <1>1, <2>2, <2>3, <2>4, <2>5 DEF Chained, Tagged
<1>5. CASE OtherSteps /\ ~PushTag
  <2>1. FinalReleases' = FinalReleases /\ history' = history
    BY <1>1, <1>5, TagsKeep, RunsKeep DEF OtherSteps
  <2>2. ASSUME NEW y, NEW w, NEW x, FollowsLast(tags, history, y, w, x)
        PROVE  FollowsLast(tags', history', y, w, x)
    <3>1. ASSUME NEW t \in tags', Nearest(tags', t, y) PROVE t \in tags /\ Nearest(tags, t, y)
      BY <2>1, <3>1 DEF Nearest, FinalReleases
    <3>. QED
      BY <2>1, <2>2, <3>1 DEF FollowsLast
  <2>3. ASSUME NEW s \in Derived', ~Tagged(s.next)'
        PROVE  FollowsLast(tags, history, s.at, s.next, s.at)
    <3>1. s \in Live' /\ s.pc # "derive"
      BY DEF Derived
    <3>2. PICK r \in Live :
             /\ s.at = r.at
             /\ \/ s.next = r.next /\ (s.pc = "derive" <=> r.pc = "derive")
                \/ s.next = NextOf(s.at) /\ NextOf(s.at) # Core(LastTag(s.at).version)
      BY <1>1, <1>5, <3>1, RunsKeep DEF OtherSteps
    <3>3. ~Tagged(s.next)
      BY <1>5, <2>3, TagsKeep DEF Tagged
    <3>4. CASE s.next = r.next /\ r.pc # "derive"
      BY <1>1, <3>2, <3>3, <3>4 DEF Chained, Derived
    <3>5. CASE s.next = NextOf(s.at) /\ NextOf(s.at) # Core(LastTag(s.at).version)
      <4>1. s.at \in 1..Len(history)
        BY <1>3, <3>2
      <4>. QED
        BY <1>1, <3>5, <4>1, NextFollows
    <3>. QED
      BY <3>1, <3>2, <3>4, <3>5
  <2>. QED
    BY <1>1, <2>1, <2>2, <2>3 DEF Chained
<1>6. CASE PushTag
  <2>1. PICK r \in run :
           LET p == [version |-> Final(r.next), at |-> r.at]
           IN  /\ r.pc = "tag" /\ r \in RunsUpTo(Len(history)) /\ IsFinal(p.version)
               /\ p.version = Final(r.next) /\ Core(p.version) = r.next /\ p.at = r.at
               /\ \/ Tagged(r.next) /\ UNCHANGED tags
                  \/ ~Tagged(r.next) /\ tags' = tags \cup {p}
               /\ UNCHANGED <<history, pending, failed, floating>>
               /\ run' = {[r EXCEPT !.pc = "float"]}
    BY <1>1, <1>6, TagShape
  <2>. DEFINE p == [version |-> Final(r.next), at |-> r.at]
  <2>2. r \in Derived /\ r.at \in 2..Len(history)
    BY <1>3, <2>1 DEF Derived, Live
  <2>3. ASSUME NEW s \in Derived'
        PROVE  \E q \in Derived : s.at = q.at /\ s.next = q.next
    <3>1. [r EXCEPT !.pc = "float"].at = r.at /\ [r EXCEPT !.pc = "float"].next = r.next
      BY <2>1 DEF RunsUpTo
    <3>. QED
      BY <2>1, <2>2, <3>1 DEF Derived, Live
  <2>4. CASE UNCHANGED tags
    <3>1. FinalReleases' = FinalReleases /\ \A v : Tagged(v)' <=> Tagged(v)
      BY <2>4 DEF FinalReleases, Tagged
    <3>. QED
      BY <1>1, <2>1, <2>3, <2>4, <3>1 DEF Chained
  <2>5. CASE ~Tagged(r.next) /\ tags' = tags \cup {p}
    <3>1. FollowsLast(tags, history, p.at, Core(p.version), p.at)
      BY <1>1, <2>1, <2>2, <2>5 DEF Chained
    <3>2. PICK t \in tags : IsFinal(t.version) /\ t.at = 1
      BY <1>1, FinalOrder DEF TagsOK
    <3>3. p.at \in 1..Len(history) /\ IsFinal(p.version) /\ Core(p.version) = r.next /\ p.at = r.at
          /\ p.version = Final(r.next)
      BY <2>1, <2>2
    <3>. HIDE DEF p
    <3>4. ASSUME NEW x \in 1..Len(history), NEW y \in 1..x, NEW w, w # r.next,
                 FollowsLast(tags, history, y, w, x)
          PROVE  FollowsLast(tags', history', y, w, x)
      <4>1. FollowsLast(tags \cup {p}, history, y, w, x)
        BY <1>1, <1>2, <3>1, <3>2, <3>3, <3>4, FollowsAfterTag
      <4>. QED
        BY <2>1, <2>5, <4>1
    <3>5. ASSUME NEW u \in FinalReleases', u.at > 1
          PROVE  FollowsLast(tags', history', u.at - 1, Core(u.version), u.at)
      <4>1. CASE u \in FinalReleases
        <5>1. u.at \in 1..Len(history) /\ u.at - 1 \in 1..u.at
          BY <1>2, <3>5, <4>1 DEF FinalReleases
        <5>2. Core(u.version) # r.next
          BY <1>1, <2>5, <4>1 DEF TagsOK, Tagged, FinalReleases
        <5>. QED
          BY <1>1, <3>4, <3>5, <4>1, <5>1, <5>2 DEF Chained
      <4>2. CASE u = p
        <5>1. \A c \in FinalReleases : c.at # p.at
          BY <1>1, <2>2, <2>5, <3>3 DEF TagsOK, Tagged, FinalReleases, Derived
        <5>2. ASSUME NEW c \in tags', Nearest(tags', c, p.at - 1)
              PROVE  Nearest(tags, c, p.at)
          <6>1. c.at <= p.at - 1 /\ c # p /\ c \in tags /\ p.at \in Nat
            BY <3>3, <5>2, <2>5 DEF Nearest
          <6>2. c.at \in Nat
            BY <1>2, <6>1
          <6>3. \A v \in tags : IsFinal(v.version) /\ v.at <= p.at => v.at <= p.at - 1
            BY <1>2, <5>1, <6>1 DEF FinalReleases
          <6>. QED
            BY <2>5, <5>2, <6>1, <6>2, <6>3 DEF Nearest
        <5>. QED
          BY <2>1, <3>1, <4>2, <5>2 DEF FollowsLast, Nearest
      <4>. QED
        BY <2>5, <4>1, <4>2 DEF FinalReleases
    <3>6. ASSUME NEW s \in Derived', ~Tagged(s.next)'
          PROVE  FollowsLast(tags', history', s.at, s.next, s.at)
      <4>1. PICK q \in Derived : s.at = q.at /\ s.next = q.next
        BY <2>3
      <4>2. s.next # r.next /\ ~Tagged(s.next)
        BY <2>5, <3>3, <3>6 DEF Tagged
      <4>3. s.at \in 1..Len(history) /\ s.at \in 1..s.at
        BY <1>3, <4>1 DEF Derived
      <4>. QED
        BY <1>1, <3>4, <4>1, <4>2, <4>3 DEF Chained
    <3>. QED
      BY <3>5, <3>6 DEF Chained
  <2>. QED
    BY <2>1, <2>4, <2>5
<1>7. CASE UNCHANGED vars
  BY <1>1, <1>7 DEF vars, Chained, FinalReleases, Derived, Live, Tagged
<1>. QED
  BY <1>4, <1>5, <1>6, <1>7, NextCases

LEMMA OrderlyStep == Orderly /\ [Next]_vars => Orderly'
BY HistoryStep, OneRunStep, TagsStep, ChainedStep DEF Orderly

-----------------------------------------------------------------------------
(* The order of releases.                                                  *)

(* What the last step before a tag amounts to.                             *)
LEMMA StepToTag ==
    ASSUME Orderly, NEW u \in FinalReleases, NEW c \in tags, u.at > 1, Nearest(tags, c, u.at - 1)
    PROVE  LET b == Classify(Bumps(history, c.at, u.at))
           IN  /\ b \in Bump \ {NoBump} /\ Bumps(history, c.at, u.at) \in SUBSET Bump
               /\ Core(c.version) \in Triple /\ Core(u.version) = NextVersion(Core(c.version), b)
               /\ TripleBefore(Core(c.version), Core(u.version))
<1>. DEFINE B == Bumps(history, c.at, u.at)
<1>1. /\ u \in tags /\ u.at \in 1..Len(history) /\ c.at \in 1..Len(history)
      /\ Len(history) \in Nat /\ c.at <= u.at - 1 /\ Core(c.version) \in Triple
  BY LenProperties DEF Orderly, HistoryOK, FinalReleases, Nearest, Core, Key, Triple
<1>2. B \in SUBSET Bump
  BY <1>1, BumpsSplit DEF Orderly, HistoryOK
<1>3. Classify(B) # NoBump /\ Core(u.version) = NextVersion(Core(c.version), Classify(B))
  BY DEF Orderly, Chained, FollowsLast, Follows
<1>. HIDE DEF B
<1>4. Classify(B) \in Bump
  BY <1>2, ClassifyIsHighest
<1>5. TripleBefore(Core(c.version), Core(u.version))
  BY <1>1, <1>3, <1>4, NextIsLater
<1>. QED
  BY <1>1, <1>2, <1>3, <1>4, <1>5 DEF B

LEMMA OlderIsLower ==
    ASSUME Orderly
    PROVE  \A t, u \in FinalReleases :
              t.at < u.at => TripleBefore(Core(t.version), Core(u.version))
<1>. DEFINE Bad == {u.at : u \in {u \in FinalReleases : \E t \in FinalReleases :
                                     t.at < u.at /\ ~TripleBefore(Core(t.version), Core(u.version))}}
            Less == OpToRel(<, Nat)
<1>1. \A t \in FinalReleases : t \in tags /\ IsFinal(t.version) /\ t.at \in Nat /\ t.at >= 1
                               /\ Core(t.version) \in Triple
  BY LenProperties DEF Orderly, HistoryOK, FinalReleases, Core, Key, Triple
<1>2. Bad \in SUBSET Nat
  BY <1>1
<1>3. IsWellFoundedOn(Less, Nat)
  BY NatLessThanWellFounded
<1>4. \A m, n \in Nat : m < n => <<m, n>> \in Less
  BY DEF OpToRel
<1>. HIDE DEF Less
<1>5. SUFFICES ASSUME Bad # {} PROVE FALSE
  OBVIOUS
<1>6. PICK d \in Bad : \A m \in Bad : ~(<<m, d>> \in Less)
  BY <1>2, <1>3, <1>5, WFMin
<1>7. PICK u \in FinalReleases : /\ u.at = d
                                 /\ \E t \in FinalReleases : t.at < u.at
                                       /\ ~TripleBefore(Core(t.version), Core(u.version))
  BY <1>6
<1>8. PICK t \in FinalReleases : t.at < u.at /\ ~TripleBefore(Core(t.version), Core(u.version))
  BY <1>7
<1>9. \A m \in Nat : m < u.at => m \notin Bad
  BY <1>1, <1>2, <1>4, <1>6, <1>7
<1>10. /\ u.at \in Nat /\ t.at \in Nat /\ t.at >= 1 /\ u.at - 1 \in Nat /\ u.at > 1
       /\ t.at <= u.at - 1 /\ t \in tags /\ IsFinal(t.version)
  BY <1>1, <1>8
<1>11. PICK c \in tags : Nearest(tags, c, u.at - 1)
  <2>1. \A s \in tags : s.at \in Nat
    BY LenProperties DEF Orderly, HistoryOK
  <2>. QED
    BY <1>10, <2>1, NearestExists
<1>12. /\ c \in FinalReleases /\ t.at <= c.at /\ c.at <= u.at - 1 /\ c.at \in Nat
  BY <1>1, <1>10, <1>11 DEF Nearest, FinalReleases
<1>13. TripleBefore(Core(c.version), Core(u.version))
  BY <1>10, <1>11, StepToTag
<1>14. CASE t.at = c.at
  BY <1>8, <1>12, <1>13, <1>14 DEF Orderly, TagsOK
<1>15. CASE t.at < c.at
  <2>1. c.at \notin Bad
    BY <1>9, <1>10, <1>12
  <2>2. TripleBefore(Core(t.version), Core(c.version))
    BY <1>12, <1>15, <2>1
  <2>. HIDE DEF Bad
  <2>. QED
    BY <1>1, <1>8, <1>12, <1>13, <2>2, TripleOrder
<1>. QED
  BY <1>10, <1>12, <1>14, <1>15

(* However runs fail, are superseded and are repeated, releases along the  *)
(* default branch have increasing versions, one to a commit.               *)
THEOREM VersionsGrow == Spec => []VersionsGrowAlongHistory
<1>1. Orderly => VersionsGrowAlongHistory
  <2>. SUFFICES ASSUME Orderly, NEW t \in FinalReleases, NEW u \in FinalReleases, t # u
                PROVE  t.at < u.at <=> Before(t.version, u.version)
    BY DEF VersionsGrowAlongHistory
  <2>1. /\ t.at \in Nat /\ u.at \in Nat /\ Core(t.version) \in Triple /\ Core(u.version) \in Triple
    BY LenProperties, SMTT(30) DEF Orderly, HistoryOK, FinalReleases, Core, Key, Triple
  <2>2. /\ t.version = Final(Core(t.version)) /\ u.version = Final(Core(u.version)) /\ t.at # u.at
    BY DEF Orderly, TagsOK
  <2>3. Before(t.version, u.version) <=> TripleBefore(Core(t.version), Core(u.version))
    <3>1. Before(Final(Core(t.version)), Final(Core(u.version)))
             <=> TripleBefore(Core(t.version), Core(u.version))
      BY <2>1, FinalOrder
    <3>. QED
      BY <2>2, <3>1
  <2>4. CASE t.at < u.at
    BY <2>3, <2>4, OlderIsLower
  <2>5. CASE u.at < t.at
    <3>1. TripleBefore(Core(u.version), Core(t.version))
      BY <2>5, OlderIsLower
    <3>2. ~TripleBefore(Core(t.version), Core(u.version))
      BY <2>1, <3>1, TripleOrder
    <3>. QED
      BY <2>1, <2>3, <2>5, <3>2
  <2>. QED
    BY <2>1, <2>2, <2>4, <2>5
<1>. QED
  BY <1>1, OrderlyInit, OrderlyStep, PTL DEF Spec

(* A release contains what its number says, and something releasable, even *)
(* when it was tagged between two others that already were.                *)
THEOREM NumbersTellChanges == Spec => []ReleasesCarryChanges
<1>1. Orderly => ReleasesCarryChanges
  <2>. SUFFICES ASSUME Orderly, NEW t \in FinalReleases, NEW u \in FinalReleases, t.at < u.at,
                       \A v \in FinalReleases : ~(t.at < v.at /\ v.at < u.at)
                PROVE  /\ Major \in Bumps(history, t.at, u.at) <=> u.version[1] > t.version[1]
                       /\ Major \notin Bumps(history, t.at, u.at) =>
                             (Minor \in Bumps(history, t.at, u.at) <=> u.version[2] > t.version[2])
                       /\ \E b \in Bumps(history, t.at, u.at) : b # NoBump
    BY DEF ReleasesCarryChanges, Bumps
  <2>. DEFINE B == Bumps(history, t.at, u.at)  b == Classify(B)
              v == Core(t.version)  w == Core(u.version)
  <2>1. \A s \in FinalReleases : s \in tags /\ IsFinal(s.version) /\ s.at \in Nat /\ s.at >= 1
    BY LenProperties DEF Orderly, HistoryOK, FinalReleases
  <2>2. u.at > 1 /\ t.at <= u.at - 1 /\ \A s \in FinalReleases : s.at <= u.at - 1 => s.at <= t.at
    BY <2>1
  <2>3. Nearest(tags, t, u.at - 1)
    BY <2>1, <2>2 DEF Nearest, FinalReleases
  <2>4. /\ b \in Bump \ {NoBump} /\ B \in SUBSET Bump /\ v \in Triple /\ w = NextVersion(v, b)
    BY <2>1, <2>2, <2>3, StepToTag
  <2>5. b \in B \cup {NoBump} /\ \A c \in B : c <= b
    BY <2>4, ClassifyIsHighest
  <2>6. v[1] = t.version[1] /\ v[2] = t.version[2] /\ w[1] = u.version[1] /\ w[2] = u.version[2]
    BY DEF Core
  <2>. HIDE DEF B, b, v, w
  <2>7. /\ Major \in B <=> b = Major
        /\ Major \notin B => (Minor \in B <=> b = Minor)
        /\ \E c \in B : c # NoBump
    BY <2>4, <2>5, BumpValues
  <2>8. v[1] \in Nat /\ v[2] \in Nat /\ v[3] \in Nat
    BY <2>4 DEF Triple
  <2>9. (b = Major <=> w[1] > v[1]) /\ (b # Major => (b = Minor <=> w[2] > v[2]))
    <3>1. CASE b = Major
      BY <2>4, <2>8, <3>1, BumpValues DEF NextVersion
    <3>2. CASE b = Minor
      BY <2>4, <2>8, <3>2, BumpValues DEF NextVersion
    <3>3. CASE b = Patch
      BY <2>4, <2>8, <3>3, BumpValues DEF NextVersion
    <3>. QED
      BY <2>4, <3>1, <3>2, <3>3, BumpValues
  <2>. QED
    BY <2>6, <2>7, <2>9 DEF B
<1>. QED
  BY <1>1, OrderlyInit, OrderlyStep, PTL DEF Spec

-----------------------------------------------------------------------------
(* What tags and floating majors point to.                                 *)

(* The manifest is compared with the version before the version is tagged. *)
Proven ==
    /\ TaggedManifestAgrees
    /\ \A r \in run : r.pc = "tag" => history[r.at].manifest = r.next

Pointed ==
    /\ \A m \in DOMAIN floating :
          /\ floating[m] \in [version : Triple, at : 1..MaxCommits]
          /\ floating[m].version[1] = m /\ Tagged(floating[m].version)
    /\ \A r \in run : r.pc \in {"float", "publish"} => Tagged(r.next)

LEMMA ProvenStep == Orderly /\ Proven /\ [Next]_vars => Proven'
<1>. SUFFICES ASSUME Orderly, Proven, [Next]_vars PROVE Proven'
  OBVIOUS
<1>1. /\ HistoryOK /\ Len(history) \in Nat
      /\ \A t \in tags : t.at \in 1..Len(history)
      /\ \A r \in run : r.at \in 1..Len(history) /\ r \in RunsUpTo(Len(history))
      /\ \A r \in pending : r.pc # "tag"
  BY LenProperties DEF Orderly, HistoryOK, Live, RunsUpTo
<1>2. CASE LandChange \/ MergeRelease
  BY <1>1, <1>2, PushShape DEF Proven, TaggedManifestAgrees
<1>3. ASSUME UNCHANGED history, FinalReleases' = FinalReleases,
             \A s \in run' : s.pc = "tag" => history[s.at].manifest = s.next
      PROVE  Proven'
  BY <1>3 DEF Proven, TaggedManifestAgrees, FinalReleases
<1>4. CASE OtherSteps /\ ~PushTag
  <2>1. UNCHANGED history /\ FinalReleases' = FinalReleases
    BY <1>1, <1>4, RunsKeep, TagsKeep DEF Orderly, OtherSteps
  <2>2. ASSUME NEW s \in run', s.pc = "tag" PROVE history[s.at].manifest = s.next
    <3>1. CASE Prove
      <4>1. PICK r \in run : run' = {} \/ (history[r.at].manifest = r.next
                                           /\ run' = {[r EXCEPT !.pc = "tag"]})
        BY <3>1 DEF Prove, NeedsBump
      <4>2. [r EXCEPT !.pc = "tag"].at = r.at /\ [r EXCEPT !.pc = "tag"].next = r.next
        BY <1>1 DEF RunsUpTo
      <4>. QED
        BY <4>1, <4>2
    <3>2. CASE MoveFloating
      <4>1. PICK r \in run : run' = {[r EXCEPT !.pc = "publish"]}
        BY <3>2 DEF MoveFloating
      <4>2. [r EXCEPT !.pc = "publish"].pc = "publish"
        BY <1>1 DEF RunsUpTo
      <4>. QED
        BY <2>2, <4>1, <4>2
    <3>3. CASE Derive
      <4>1. PICK r \in run, pc \in {"prove", "propose"} :
               \E last, next : run' \subseteq {[r EXCEPT !.last = last, !.next = next, !.pc = pc]}
        BY <3>3 DEF Derive
      <4>2. \A last, next : [r EXCEPT !.last = last, !.next = next, !.pc = pc].pc = pc
        BY <1>1 DEF RunsUpTo
      <4>. QED
        BY <2>2, <4>1, <4>2, ZenonT(60)
    <3>4. CASE Begin
      BY <1>1, <2>2, <3>4 DEF Begin
    <3>5. CASE run' \subseteq run
      BY <2>2, <3>5 DEF Proven
    <3>. QED
      BY <1>4, <3>1, <3>2, <3>3, <3>4, <3>5
         DEF OtherSteps, RunAgain, Fail, Propose, Publish, TagPrerelease
  <2>. QED
    BY <1>3, <2>1, <2>2
<1>5. CASE PushTag
  <2>1. PICK r \in run :
           LET p == [version |-> Final(r.next), at |-> r.at]
           IN  /\ r.pc = "tag" /\ r \in RunsUpTo(Len(history)) /\ IsFinal(p.version)
               /\ p.version = Final(r.next) /\ Core(p.version) = r.next /\ p.at = r.at
               /\ \/ Tagged(r.next) /\ UNCHANGED tags
                  \/ ~Tagged(r.next) /\ tags' = tags \cup {p}
               /\ UNCHANGED <<history, pending, failed, floating>>
               /\ run' = {[r EXCEPT !.pc = "float"]}
    BY <1>1, <1>5, TagShape
  <2>2. [r EXCEPT !.pc = "float"].pc = "float"
    BY <1>1 DEF RunsUpTo
  <2>3. history[r.at].manifest = r.next
    BY <2>1 DEF Proven
  <2>. QED
    BY <2>1, <2>2, <2>3 DEF Proven, TaggedManifestAgrees
<1>6. CASE UNCHANGED vars
  BY <1>6 DEF vars, Proven, TaggedManifestAgrees
<1>. QED
  BY <1>2, <1>4, <1>5, <1>6, NextCases

(* The tree at a release tag records the version of the tag, whatever has  *)
(* been merged or set back by hand since the version was derived.          *)
THEOREM TagsTellTheTruth == Spec => []TaggedManifestAgrees
<1>1. Init => Proven
  <2>1. Core(Final(Start)) = Start
    BY FinalOrder
  <2>. QED
    BY <2>1 DEF Init, Proven, TaggedManifestAgrees, Commit
<1>2. Proven => TaggedManifestAgrees
  BY DEF Proven
<1>. QED
  BY <1>1, <1>2, OrderlyInit, OrderlyStep, ProvenStep, PTL DEF Spec

LEMMA PointedStep == Orderly /\ Pointed /\ [Next]_vars => Pointed'
<1>. SUFFICES ASSUME Orderly, Pointed, [Next]_vars PROVE Pointed'
  OBVIOUS
<1>1. /\ HistoryOK /\ Len(history) \in Nat /\ Len(history) <= MaxCommits
      /\ \A r \in run : r.at \in 1..Len(history) /\ r \in RunsUpTo(Len(history))
      /\ \A r \in pending : r.pc \in {"derive", "propose", "prove"}
  BY LenProperties DEF Orderly, HistoryOK, Live, RunsUpTo
<1>2. \A v : Tagged(v) => Tagged(v)'
  <2>1. tags \subseteq tags'
    <3>1. CASE PushTag
      BY <3>1 DEF PushTag
    <3>. QED
      BY <3>1, TagsKeep
  <2>. QED
    BY <2>1 DEF Tagged
<1>3. ASSUME UNCHANGED floating,
             \A s \in run' : s.pc \in {"float", "publish"} => s \in run \/ Tagged(s.next)'
      PROVE  Pointed'
  BY <1>2, <1>3 DEF Pointed
<1>4. CASE UNCHANGED floating /\ run' \subseteq run
  BY <1>3, <1>4
<1>5. CASE LandChange \/ MergeRelease
  BY <1>1, <1>4, <1>5, PushShape
<1>6. CASE Begin
  BY <1>1, <1>3, <1>6 DEF Begin
<1>7. CASE RunAgain \/ Fail \/ Propose \/ Publish \/ TagPrerelease
  BY <1>4, <1>7 DEF RunAgain, Fail, Propose, Publish, TagPrerelease
<1>8. CASE Derive
  <2>1. PICK r \in run, pc \in {"prove", "propose"} :
           \E last, next : run' \subseteq {[r EXCEPT !.last = last, !.next = next, !.pc = pc]}
    BY <1>8 DEF Derive
  <2>2. \A last, next : [r EXCEPT !.last = last, !.next = next, !.pc = pc].pc = pc
    BY <1>1 DEF RunsUpTo
  <2>3. \A s \in run' : s.pc \in {"prove", "propose"}
    BY <2>1, <2>2
  <2>4. UNCHANGED floating
    BY <1>8 DEF Derive
  <2>. QED
    BY <1>3, <2>3, <2>4
<1>9. CASE Prove
  <2>1. PICK r \in run : run' \subseteq {[r EXCEPT !.pc = "tag"]}
    BY <1>9 DEF Prove
  <2>2. [r EXCEPT !.pc = "tag"].pc = "tag"
    BY <1>1 DEF RunsUpTo
  <2>. QED
    BY <1>3, <1>9, <2>1, <2>2 DEF Prove
<1>10. CASE PushTag
  <2>1. PICK r \in run :
           LET p == [version |-> Final(r.next), at |-> r.at]
           IN  /\ r.pc = "tag" /\ r \in RunsUpTo(Len(history)) /\ IsFinal(p.version)
               /\ p.version = Final(r.next) /\ Core(p.version) = r.next /\ p.at = r.at
               /\ \/ Tagged(r.next) /\ UNCHANGED tags
                  \/ ~Tagged(r.next) /\ tags' = tags \cup {p}
               /\ UNCHANGED <<history, pending, failed, floating>>
               /\ run' = {[r EXCEPT !.pc = "float"]}
    BY <1>1, <1>10, TagShape
  <2>2. [r EXCEPT !.pc = "float"].next = r.next
    BY <1>1 DEF RunsUpTo
  <2>3. Tagged(r.next)'
    BY <1>2, <2>1 DEF Tagged
  <2>. QED
    BY <1>3, <2>1, <2>2, <2>3
<1>11. CASE MoveFloating
  <2>1. PICK r \in run :
           /\ r.pc = "float"
           /\ \/ UNCHANGED floating
              \/ floating' = [m \in DOMAIN floating \cup {r.next[1]} |->
                                IF m = r.next[1] THEN [version |-> r.next, at |-> r.at]
                                ELSE floating[m]]
           /\ run' = {[r EXCEPT !.pc = "publish"]} /\ UNCHANGED tags
    BY <1>11 DEF MoveFloating
  <2>2. Tagged(r.next) /\ r.next \in Triple /\ r.at \in 1..MaxCommits
    BY <1>1, <2>1 DEF Pointed, RunsUpTo
  <2>3. [r EXCEPT !.pc = "publish"].next = r.next
    BY <1>1 DEF RunsUpTo
  <2>4. \A s \in run' : Tagged(s.next)'
    BY <1>2, <2>1, <2>2, <2>3
  <2>5. CASE UNCHANGED floating
    BY <1>3, <2>4, <2>5
  <2>6. CASE floating' = [m \in DOMAIN floating \cup {r.next[1]} |->
                            IF m = r.next[1] THEN [version |-> r.next, at |-> r.at]
                            ELSE floating[m]]
    <3>1. ASSUME NEW m \in DOMAIN floating'
          PROVE  /\ floating'[m] \in [version : Triple, at : 1..MaxCommits]
                 /\ floating'[m].version[1] = m /\ Tagged(floating'[m].version)
      <4>1. CASE m = r.next[1]
        BY <2>2, <2>6, <4>1
      <4>2. CASE m # r.next[1]
        BY <2>6, <4>2 DEF Pointed
      <4>. QED
        BY <4>1, <4>2
    <3>. QED
      BY <1>2, <2>4, <3>1 DEF Pointed
  <2>. QED
    BY <2>1, <2>5, <2>6
<1>12. CASE UNCHANGED vars
  BY <1>4, <1>12 DEF vars
<1>. QED
  BY <1>5, <1>6, <1>7, <1>8, <1>9, <1>10, <1>11, <1>12, NextCases DEF OtherSteps

LEMMA PointedInit == Init => Pointed
<1>. SUFFICES ASSUME Init PROVE Pointed
  OBVIOUS
<1>1. Tagged(Start) /\ run = {}
  BY DEF Init, Tagged
<1>2. ASSUME NEW m \in DOMAIN floating
      PROVE  m = Start[1] /\ floating[m] = [version |-> Start, at |-> 1]
  BY DEF Init
<1>. QED
  BY <1>1, <1>2 DEF Pointed

(* A run that finishes late leaves the floating major where it is unless   *)
(* its version is the highest that has been tagged.                        *)
THEOREM FloatingKeepsUp == Spec => FloatingNeverRegresses
<1>. DEFINE Keeps == \A m \in DOMAIN floating :
                        ~TripleBefore(floating'[m].version, floating[m].version)
<1>1. Orderly /\ Pointed /\ [Next]_vars => [Keeps]_vars
  <2>. SUFFICES ASSUME Orderly, Pointed, Next, NEW m \in DOMAIN floating
                PROVE  ~TripleBefore(floating'[m].version, floating[m].version)
    OBVIOUS
  <2>1. floating[m].version \in Triple /\ floating[m].version[1] = m /\ Tagged(floating[m].version)
    BY DEF Pointed
  <2>2. CASE UNCHANGED floating
    BY <2>1, <2>2, TripleOrder
  <2>3. CASE MoveFloating
    <3>1. PICK r \in run :
             LET line == {t.version : t \in {u \in tags : u.version[1] = r.next[1]}}
             IN  \/ UNCHANGED floating
                 \/ /\ IsHighest(Final(r.next), line)
                    /\ floating' = [n \in DOMAIN floating \cup {r.next[1]} |->
                                      IF n = r.next[1] THEN [version |-> r.next, at |-> r.at]
                                      ELSE floating[n]]
      BY <2>3 DEF MoveFloating
    <3>2. CASE /\ IsHighest(Final(r.next),
                            {t.version : t \in {u \in tags : u.version[1] = r.next[1]}})
               /\ floating' = [n \in DOMAIN floating \cup {r.next[1]} |->
                                 IF n = r.next[1] THEN [version |-> r.next, at |-> r.at]
                                 ELSE floating[n]]
      <4>1. CASE m # r.next[1]
        BY <2>1, <3>2, <4>1, TripleOrder
      <4>2. CASE m = r.next[1]
        <5>1. floating'[m].version = r.next /\ r.next \in Triple
          BY <3>2, <4>2 DEF Orderly, HistoryOK, Live
        <5>2. PICK t \in tags : t.version = Final(floating[m].version)
          BY <2>1 DEF Tagged
        <5>3. t.version[1] = r.next[1]
          BY <2>1, <4>2, <5>2 DEF Final
        <5>4. ~Before(Final(r.next), Final(floating[m].version))
          BY <3>2, <5>2, <5>3 DEF IsHighest
        <5>. QED
          BY <2>1, <5>1, <5>4, FinalOrder
      <4>. QED
        BY <4>1, <4>2
    <3>. QED
      BY <2>2, <3>1, <3>2
  <2>4. MoveFloating \/ UNCHANGED floating
    BY DEF Next, LandChange, MergeRelease, Begin, RunAgain, Fail, Derive, Propose, Prove,
           PushTag, Publish, TagPrerelease
  <2>. QED
    BY <2>2, <2>3, <2>4
<1>. QED
  BY <1>1, OrderlyInit, OrderlyStep, PointedInit, PointedStep, PTL DEF Spec, FloatingNeverRegresses

(* The types of the branch, tags, pull requests and runs, and turns.       *)
THEOREM TypeCorrect == Spec => []TypeOK
<1>. DEFINE Typed == published \subseteq Triple /\ refused \in BOOLEAN
<1>1. Init => Typed
  BY DEF Init
<1>2. Orderly /\ Typed /\ [Next]_vars => Typed'
  <2>. SUFFICES ASSUME Orderly, Typed, [Next]_vars PROVE Typed'
    OBVIOUS
  <2>1. CASE LandChange \/ MergeRelease
    BY <2>1, PushShape DEF Orderly, LandChange, MergeRelease, Push
  <2>2. \A r \in run : r.next \in Triple
    BY DEF Orderly, HistoryOK, Live
  <2>3. CASE OtherSteps
    BY <2>2, <2>3 DEF OtherSteps, Begin, RunAgain, Fail, Derive, Propose, Prove, PushTag,
                      MoveFloating, Publish, TagPrerelease
  <2>. QED
    BY <2>1, <2>3, NextCases DEF vars
<1>3. Orderly /\ Pointed /\ Typed => TypeOK
  <2>. SUFFICES ASSUME Orderly, Pointed, Typed PROVE TypeOK
    OBVIOUS
  <2>1. Len(history) \in 1..MaxCommits /\ Len(history) \in Nat /\ history \in Seq(Commits)
    BY LenProperties DEF Orderly, HistoryOK
  <2>2. \A i \in DOMAIN history : history[i] \in Commits
    BY <2>1, ElementOfSeq, LenProperties
  <2>3. tags \subseteq [version : Key, at : 1..MaxCommits]
    BY <2>1 DEF Orderly, HistoryOK
  <2>4. Live \subseteq Runs
    BY <2>1 DEF Orderly, HistoryOK, Runs
  <2>5. run \subseteq Runs /\ pending \subseteq Runs /\ failed \subseteq Runs
    BY <2>4 DEF Live
  <2>. QED
    BY <2>1, <2>2, <2>3, <2>5 DEF Orderly, HistoryOK, OneRunEach, Pointed, TypeOK, Commits
<1>. HIDE DEF Typed
<1>. QED
  BY <1>1, <1>2, <1>3, OrderlyInit, OrderlyStep, PointedInit, PointedStep, PTL DEF Spec

-----------------------------------------------------------------------------
(* Nothing is forgotten.                                                   *)

LEMMA NextGrows ==
    ASSUME NEW v \in Triple, NEW b \in Bump, NEW c \in Bump, b <= c
    PROVE  ~TripleBefore(NextVersion(v, c), NextVersion(v, b))
<1>1. PICK x \in Nat, y \in Nat, z \in Nat : v = <<x, y, z>>
  BY DEF Triple
<1>2. b < c \/ b = c
  BY BumpValues
<1>3. CASE b = c
  BY <1>3, NextIsLater, TripleOrder
<1>4. CASE b < c
  <2>1. \/ b = NoBump
        \/ b = Patch /\ c \in {Minor, Major}
        \/ b = Minor /\ c = Major
    BY <1>4, BumpValues
  <2>2. CASE b = NoBump
    <3>1. NextVersion(v, b) = v /\ TripleBefore(v, NextVersion(v, c)) /\ NextVersion(v, c) \in Triple
      BY <1>4, <2>2, BumpValues, NextIsLater
    <3>. QED
      BY <3>1, TripleOrder
  <2>3. CASE b = Patch /\ c \in {Minor, Major}
    BY <1>1, <2>3, BumpValues DEF NextVersion, TripleBefore
  <2>4. CASE b = Minor /\ c = Major
    BY <1>1, <2>4, BumpValues DEF NextVersion, TripleBefore
  <2>. QED
    BY <2>1, <2>2, <2>3, <2>4
<1>. QED
  BY <1>2, <1>3, <1>4

(* Of two versions that follow from one, that of the later commit is not   *)
(* the lower one.                                                          *)
LEMMA SameBase ==
    ASSUME NEW H \in Seq(Commits), NEW i \in Nat, NEW j \in Nat, NEW k \in Nat,
           i <= j, j <= k, k <= Len(H), NEW u \in Triple, NEW v, NEW w,
           Follows(H, u, i, w, j), Follows(H, u, i, v, k)
    PROVE  w \in Triple /\ v \in Triple /\ ~TripleBefore(v, w) /\ TripleBefore(u, v)
<1>. DEFINE b == Classify(Bumps(H, i, j))  c == Classify(Bumps(H, j, k))
            d == Classify(Bumps(H, i, k))
<1>1. /\ Bumps(H, i, j) \in SUBSET Bump /\ Bumps(H, j, k) \in SUBSET Bump
      /\ Bumps(H, i, k) = Bumps(H, i, j) \cup Bumps(H, j, k)
  BY BumpsSplit
<1>2. b \in Bump /\ c \in Bump
  BY <1>1, ClassifyIsHighest
<1>3. (c <= b => d = b) /\ (b < c => d = c)
  BY <1>1, ClassifyUnion
<1>4. w = NextVersion(u, b) /\ v = NextVersion(u, d) /\ d # NoBump
  BY DEF Follows
<1>. HIDE DEF b, c, d
<1>5. d \in Bump /\ b <= d
  BY <1>2, <1>3, BumpValues
<1>. QED
  BY <1>2, <1>4, <1>5, NextGrows, NextIsLater

LEMMA FollowsIsLater ==
    ASSUME NEW H \in Seq(Commits), NEW i \in Nat, NEW j \in Nat, i <= j, j <= Len(H),
           NEW u \in Triple, NEW v, Follows(H, u, i, v, j)
    PROVE  v \in Triple /\ TripleBefore(u, v)
<1>1. j <= j
  OBVIOUS
<1>. QED
  BY <1>1, SameBase

(* There is a first final tag after a commit with a later final tag.       *)
LEMMA FirstAfter ==
    ASSUME NEW T, NEW x \in Nat, \A t \in T : t.at \in Nat,
           NEW s \in T, IsFinal(s.version), x < s.at
    PROVE  \E t \in T : /\ IsFinal(t.version) /\ x < t.at /\ t.at <= s.at
                        /\ \A u \in T : IsFinal(u.version) /\ x < u.at => t.at <= u.at
<1>. DEFINE F == {t \in T : IsFinal(t.version) /\ x < t.at}
            D == {t.at : t \in F}
            Less == OpToRel(<, Nat)
<1>1. D \in SUBSET Nat /\ D # {} /\ s \in F
  OBVIOUS
<1>2. IsWellFoundedOn(Less, Nat)
  BY NatLessThanWellFounded
<1>3. \A m, n \in Nat : m < n => <<m, n>> \in Less
  BY DEF OpToRel
<1>. HIDE DEF Less
<1>4. PICK d \in D : \A m \in D : ~(<<m, d>> \in Less)
  BY <1>1, <1>2, WFMin
<1>5. PICK t \in F : d = t.at
  BY <1>4
<1>6. ASSUME NEW u \in F PROVE t.at <= u.at
  <2>1. u.at \in Nat /\ t.at \in Nat /\ ~(u.at < t.at)
    BY <1>1, <1>3, <1>4, <1>5
  <2>. QED
    BY <2>1
<1>. QED
  BY <1>1, <1>5, <1>6

LEMMA TagTypes ==
    ASSUME HistoryOK
    PROVE  /\ history \in Seq(Commits) /\ Len(history) \in Nat /\ Len(history) \in 1..Len(history)
           /\ \A t \in tags : /\ t.at \in 1..Len(history) /\ t.at \in Nat /\ t.at >= 1
                              /\ t.version \in Key /\ Core(t.version) \in Triple
<1>1. history \in Seq(Commits) /\ Len(history) \in Nat /\ Len(history) \in 1..Len(history)
  BY LenProperties DEF HistoryOK
<1>2. \A t \in tags : t.at \in 1..Len(history) /\ t.version \in Key
  BY DEF HistoryOK
<1>3. \A t \in tags : Core(t.version) \in Triple
  BY <1>2 DEF Core, Key, Triple
<1>. QED
  BY <1>1, <1>2, <1>3

(* What follows at a commit is not above the final tags after it.          *)
LEMMA Overtaken ==
    ASSUME Orderly, NEW j \in 1..Len(history), NEW w, FollowsLast(tags, history, j, w, j),
           NEW t \in FinalReleases, j < t.at
    PROVE  w \in Triple /\ ~TripleBefore(Core(t.version), w)
<1>1. /\ history \in Seq(Commits) /\ Len(history) \in Nat /\ t \in tags /\ IsFinal(t.version)
      /\ \A u \in tags : u.at \in 1..Len(history) /\ u.at \in Nat /\ Core(u.version) \in Triple
  BY TagTypes DEF Orderly, FinalReleases
<1>2. PICK c \in tags : /\ IsFinal(c.version) /\ j < c.at /\ c.at <= t.at
                        /\ \A u \in tags : IsFinal(u.version) /\ j < u.at => c.at <= u.at
  BY <1>1, FirstAfter
<1>3. PICK a \in tags : Nearest(tags, a, j)
  BY LastTagExists DEF Orderly, FinalReleases
<1>4. c \in FinalReleases /\ c.at > 1 /\ a.at <= j
  BY <1>1, <1>2, <1>3 DEF FinalReleases, Nearest
<1>5. Nearest(tags, a, c.at - 1)
  <2>1. ASSUME NEW u \in tags, IsFinal(u.version), u.at <= c.at - 1 PROVE u.at <= a.at
    <3>1. ~(j < u.at)
      BY <1>1, <1>2, <2>1
    <3>. QED
      BY <1>1, <1>3, <2>1, <3>1 DEF Nearest
  <2>2. a.at <= c.at - 1
    BY <1>1, <1>2, <1>4
  <2>. QED
    BY <1>3, <2>1, <2>2 DEF Nearest
<1>6. Follows(history, Core(a.version), a.at, w, j)
  BY <1>3 DEF FollowsLast
<1>7. Follows(history, Core(a.version), a.at, Core(c.version), c.at)
  BY <1>4, <1>5 DEF Orderly, Chained, FollowsLast
<1>8. w \in Triple /\ Core(c.version) \in Triple /\ ~TripleBefore(Core(c.version), w)
  <2>1. a.at \in Nat /\ c.at \in Nat /\ j \in Nat /\ a.at <= j /\ j <= c.at /\ c.at <= Len(history)
        /\ Core(a.version) \in Triple
    BY <1>1, <1>2, <1>4
  <2>. QED
    BY <1>1, <1>6, <1>7, <2>1, SameBase, ZenonT(60)
<1>9. c = t \/ TripleBefore(Core(c.version), Core(t.version))
  <2>1. CASE c.at = t.at
    BY <1>4, <2>1 DEF Orderly, TagsOK
  <2>2. CASE c.at # t.at
    BY <1>1, <1>2, <1>4, <2>2, OlderIsLower
  <2>. QED
    BY <2>1, <2>2
<1>. QED
  BY <1>1, <1>8, <1>9, TripleOrder

(* Later commits follow with versions that are not lower.                  *)
LEMMA OffersGrow ==
    ASSUME Orderly, NEW j \in 1..Len(history), NEW k \in 1..Len(history), j <= k, NEW w, NEW v,
           FollowsLast(tags, history, j, w, j), FollowsLast(tags, history, k, v, k)
    PROVE  ~TripleBefore(v, w)
<1>1. /\ history \in Seq(Commits) /\ Len(history) \in Nat /\ j \in Nat /\ k \in Nat
      /\ \A u \in tags : u.at \in Nat /\ Core(u.version) \in Triple
  BY TagTypes DEF Orderly
<1>2. PICK b \in FinalReleases : Nearest(tags, b, k)
  BY LastTagExists DEF Orderly
<1>3. b \in tags /\ b.at <= k /\ Follows(history, Core(b.version), b.at, v, k)
  BY <1>2 DEF FollowsLast, Nearest
<1>4. v \in Triple /\ TripleBefore(Core(b.version), v)
  <2>1. b.at \in Nat /\ Core(b.version) \in Triple /\ k <= Len(history)
    BY <1>1, <1>3
  <2>. QED
    BY <1>1, <1>3, <2>1, FollowsIsLater
<1>5. CASE j < b.at
  <2>1. w \in Triple /\ ~TripleBefore(Core(b.version), w)
    BY <1>2, <1>5, Overtaken
  <2>. QED
    BY <1>1, <1>3, <1>4, <2>1, TripleOrder
<1>6. CASE b.at <= j
  <2>1. Nearest(tags, b, j)
    BY <1>1, <1>2, <1>6 DEF Nearest
  <2>2. Follows(history, Core(b.version), b.at, w, j)
    BY <1>3, <2>1 DEF FollowsLast
  <2>. QED
    BY <1>1, <1>3, <1>6, <2>2, SameBase
<1>. QED
  BY <1>1, <1>3, <1>5, <1>6

(* What follows at the newest commit is no version there is a tag of.      *)
LEMMA FollowsIsNew ==
    ASSUME Orderly, NEW v, FollowsLast(tags, history, Len(history), v, Len(history))
    PROVE  v \in Triple /\ ~Tagged(v)
<1>1. /\ history \in Seq(Commits) /\ Len(history) \in Nat /\ Len(history) \in 1..Len(history)
      /\ \A u \in tags : u.at \in 1..Len(history) /\ u.at \in Nat /\ Core(u.version) \in Triple
  BY TagTypes DEF Orderly
<1>2. PICK b \in FinalReleases : Nearest(tags, b, Len(history))
  BY <1>1, LastTagExists DEF Orderly
<1>3. b \in tags /\ b.at <= Len(history) /\ Follows(history, Core(b.version), b.at, v, Len(history))
  BY <1>2 DEF FollowsLast, Nearest
<1>4. v \in Triple /\ TripleBefore(Core(b.version), v)
  <2>1. b.at \in Nat /\ Core(b.version) \in Triple /\ Len(history) <= Len(history)
    BY <1>1, <1>3
  <2>. QED
    BY <1>1, <1>3, <2>1, FollowsIsLater
<1>5. ASSUME NEW t \in tags, t.version = Final(v) PROVE FALSE
  <2>1. t \in FinalReleases /\ Core(t.version) = v
    BY <1>4, <1>5, FinalOrder DEF FinalReleases
  <2>2. t.at <= b.at
    BY <1>1, <1>2, <2>1 DEF Nearest, FinalReleases
  <2>3. CASE t.at = b.at
    <3>1. t = b
      BY <1>2, <2>1, <2>3 DEF Orderly, TagsOK
    <3>. QED
      BY <1>4, <2>1, <3>1, TripleOrder
  <2>4. CASE t.at < b.at
    <3>1. TripleBefore(v, Core(b.version))
      BY <2>1, <2>4, OlderIsLower
    <3>. QED
      BY <1>1, <1>3, <1>4, <3>1, TripleOrder
  <2>. QED
    BY <1>1, <1>3, <2>2, <2>3, <2>4
<1>. QED
  BY <1>4, <1>5 DEF Tagged

-----------------------------------------------------------------------------
(* Where the versions come from that pull requests and commits name.       *)

Offered(T, H, w, n) == \E j \in 1..n : FollowsLast(T, H, j, w, j)

Releasing == {r \in Live : r.pc \in {"prove", "tag", "float", "publish"}}

(* A version that is named and not tagged followed at an earlier commit,   *)
(* and still does.                                                         *)
Named ==
    /\ \A p \in pulls : Tagged(p.version) \/ Offered(tags, history, p.version, Len(history))
    /\ \A i \in 1..Len(history) :
          Tagged(history[i].release) \/ Offered(tags, history, history[i].release, i - 1)
    /\ \A r \in Releasing : history[r.at].release = r.next
    /\ \A r \in Derived : r.next # Start

(* What follows and stays untagged still follows after a step.             *)
LEMMA OffersKeep ==
    ASSUME Orderly, [Next]_vars, NEW x \in 1..Len(history), NEW w, ~Tagged(w)',
           FollowsLast(tags, history, x, w, x)
    PROVE  FollowsLast(tags', history', x, w, x)
<1>1. HistoryOK /\ TagsOK /\ Chained /\ history \in Seq(Commits) /\ Len(history) \in Nat \ {0}
  BY LenProperties DEF Orderly, HistoryOK
<1>2. \A t \in tags : t.at \in 1..Len(history) /\ t.at \in Nat /\ Core(t.version) \in Triple
  BY <1>1, TagTypes
<1>3. CASE LandChange \/ MergeRelease
  BY <1>1, <1>2, <1>3, PushShape, FollowsAfterPush, ZenonT(60)
<1>4. CASE UNCHANGED history /\ FinalReleases' = FinalReleases
  <2>1. ASSUME NEW t \in tags', Nearest(tags', t, x) PROVE t \in tags /\ Nearest(tags, t, x)
    BY <1>4, <2>1 DEF Nearest, FinalReleases
  <2>. QED
    BY <1>4, <2>1 DEF FollowsLast
<1>5. CASE OtherSteps /\ ~PushTag
  BY <1>1, <1>4, <1>5, TagsKeep, RunsKeep DEF OtherSteps, Orderly
<1>6. CASE PushTag
  <2>1. PICK r \in run :
           LET p == [version |-> Final(r.next), at |-> r.at]
           IN  /\ r.pc = "tag" /\ r \in RunsUpTo(Len(history)) /\ IsFinal(p.version)
               /\ p.version = Final(r.next) /\ Core(p.version) = r.next /\ p.at = r.at
               /\ \/ Tagged(r.next) /\ UNCHANGED tags
                  \/ ~Tagged(r.next) /\ tags' = tags \cup {p}
               /\ UNCHANGED <<history, pending, failed, floating>>
               /\ run' = {[r EXCEPT !.pc = "float"]}
    BY <1>1, <1>6, TagShape
  <2>. DEFINE p == [version |-> Final(r.next), at |-> r.at]
  <2>2. CASE UNCHANGED tags
    BY <1>4, <2>1, <2>2 DEF FinalReleases
  <2>3. CASE ~Tagged(r.next) /\ tags' = tags \cup {p}
    <3>1. r \in Derived /\ r.at \in 1..Len(history)
      BY <2>1 DEF Derived, Live, RunsUpTo
    <3>2. FollowsLast(tags, history, p.at, Core(p.version), p.at)
      BY <1>1, <2>1, <2>3, <3>1 DEF Chained
    <3>3. w # Core(p.version)
      BY <2>1, <2>3 DEF Tagged
    <3>4. PICK t \in tags : IsFinal(t.version) /\ t.at = 1
      BY <1>1, FinalOrder DEF TagsOK
    <3>5. p.at \in 1..Len(history) /\ IsFinal(p.version) /\ x \in 1..x
      BY <2>1, <3>1
    <3>. HIDE DEF p
    <3>6. FollowsLast(tags \cup {p}, history, x, w, x)
      BY <1>1, <1>2, <3>2, <3>3, <3>4, <3>5, FollowsAfterTag
    <3>. QED
      BY <2>1, <2>3, <3>6
  <2>. QED
    BY <2>1, <2>2, <2>3
<1>7. CASE UNCHANGED vars
  BY <1>4, <1>7 DEF vars, FinalReleases
<1>. QED
  BY <1>3, <1>5, <1>6, <1>7, NextCases

LEMMA TaggedKeeps ==
    ASSUME [Next]_vars
    PROVE  tags \subseteq tags' /\ \A v : Tagged(v) => Tagged(v)'
<1>1. tags \subseteq tags'
  <2>1. CASE PushTag
    BY <2>1 DEF PushTag
  <2>. QED
    BY <2>1, TagsKeep
<1>. QED
  BY <1>1 DEF Tagged

LEMMA OfferedKeeps ==
    ASSUME Orderly, [Next]_vars, NEW n \in Nat, NEW m \in Nat, n <= Len(history), n <= m, NEW w,
           Tagged(w) \/ Offered(tags, history, w, n)
    PROVE  Tagged(w)' \/ Offered(tags', history', w, m)
<1>1. CASE Tagged(w)
  BY <1>1, TaggedKeeps
<1>2. CASE ~Tagged(w)' /\ Offered(tags, history, w, n)
  <2>1. PICK j \in 1..n : FollowsLast(tags, history, j, w, j)
    BY <1>2 DEF Offered
  <2>2. j \in 1..Len(history) /\ j \in 1..m
    BY LenProperties DEF Orderly, HistoryOK
  <2>3. FollowsLast(tags', history', j, w, j)
    BY <1>2, <2>1, <2>2, OffersKeep
  <2>. QED
    BY <2>2, <2>3 DEF Offered
<1>. QED
  BY <1>1, <1>2

(* How the runs that release came to be, and what becomes of them.         *)
LEMMA RunFields ==
    ASSUME HistoryOK, NEW r \in Live, NEW pc
    PROVE  LET s == [r EXCEPT !.pc = pc] IN s.at = r.at /\ s.next = r.next /\ s.pc = pc
BY DEF HistoryOK

LEMMA ReleasingKeeps ==
    ASSUME Orderly, OtherSteps
    PROVE  \A s \in Releasing' : \/ history[s.at].release = s.next
                                 \/ \E r \in Releasing : s.at = r.at /\ s.next = r.next
<1>1. HistoryOK /\ run \subseteq Live /\ pending \subseteq Live /\ failed \subseteq Live
  BY DEF Orderly, Live
<1>2. CASE Live' \subseteq Live
  BY <1>2 DEF Releasing
<1>3. CASE Begin \/ RunAgain \/ Propose \/ Publish \/ TagPrerelease
  <2>1. Live' \subseteq Live
    BY <1>3 DEF Begin, RunAgain, Propose, Publish, TagPrerelease, Live
  <2>. QED
    BY <1>2, <2>1
<1>4. ASSUME NEW r \in run, NEW pc,
             Live' \subseteq Live \cup {[r EXCEPT !.pc = pc]},
             pc \in {"derive", "propose"} \/ r \in Releasing \/ history[r.at].release = r.next
      PROVE  \A s \in Releasing' : \/ history[s.at].release = s.next
                                   \/ \E q \in Releasing : s.at = q.at /\ s.next = q.next
  <2>. DEFINE new == [r EXCEPT !.pc = pc]
  <2>1. new.at = r.at /\ new.next = r.next /\ new.pc = pc
    BY <1>1, RunFields
  <2>. HIDE DEF new
  <2>2. Live' \subseteq Live \cup {new}
    BY <1>4 DEF new
  <2>. QED
    BY <1>4, <2>1, <2>2 DEF Releasing
<1>5. CASE Fail
  <2>1. PICK r \in run : run' = {} /\ failed' = failed \cup {[r EXCEPT !.pc = JobOf(@)]}
                         /\ pending' = pending
    BY <1>5 DEF Fail
  <2>2. /\ Live' \subseteq Live \cup {[r EXCEPT !.pc = JobOf(r.pc)]}
        /\ r.pc \in {"derive", "propose", "prove", "tag", "float", "publish"} /\ r \in Live
    BY <1>1, <2>1 DEF Live, HistoryOK
  <2>3. JobOf(r.pc) \in {"derive", "propose"} \/ r \in Releasing
    BY <2>2 DEF JobOf, Releasing
  <2>. QED
    BY <1>4, <2>2, <2>3
<1>6. CASE Prove \/ PushTag \/ MoveFloating
  <2>1. PICK r \in run, pc \in {"tag", "float", "publish"} :
           /\ r.pc \in {"prove", "tag", "float"} /\ UNCHANGED <<pending, failed>>
           /\ run' = {} \/ run' = {[r EXCEPT !.pc = pc]}
    BY <1>6 DEF Prove, PushTag, MoveFloating
  <2>2. Live' \subseteq Live \cup {[r EXCEPT !.pc = pc]} /\ r \in Releasing
    BY <1>1, <2>1 DEF Live, Releasing
  <2>. QED
    BY <1>4, <2>2
<1>7. CASE Derive
  <2>1. PICK r \in run :
           /\ run' = IF NextOf(r.at) = Core(LastTag(r.at).version) THEN {}
                     ELSE {[r EXCEPT !.last = Core(LastTag(r.at).version), !.next = NextOf(r.at),
                               !.pc = IF history[r.at].release = NextOf(r.at)
                                      THEN "prove" ELSE "propose"]}
           /\ UNCHANGED <<pending, failed>>
    BY <1>7 DEF Derive
  <2>. DEFINE new == [r EXCEPT !.last = Core(LastTag(r.at).version), !.next = NextOf(r.at),
                               !.pc = IF history[r.at].release = NextOf(r.at)
                                      THEN "prove" ELSE "propose"]
  <2>2. /\ new.at = r.at /\ new.next = NextOf(r.at)
        /\ new.pc = IF history[r.at].release = NextOf(r.at) THEN "prove" ELSE "propose"
    BY <1>1 DEF HistoryOK
  <2>3. Live' \subseteq Live \cup {new}
    BY <2>1 DEF Live
  <2>. HIDE DEF new
  <2>. QED
    BY <2>2, <2>3 DEF Releasing
<1>. QED
  BY <1>3, <1>5, <1>6, <1>7 DEF OtherSteps

(* The first version never follows again.                                  *)
LEMMA FollowsNotStart ==
    ASSUME Orderly, NEW x \in 1..Len(history), NEW v, FollowsLast(tags, history, x, v, x)
    PROVE  v # Start
<1>1. /\ history \in Seq(Commits) /\ Len(history) \in Nat
      /\ \A u \in tags : u.at \in Nat /\ u.at >= 1 /\ Core(u.version) \in Triple
  BY TagTypes DEF Orderly
<1>2. PICK b \in FinalReleases : Nearest(tags, b, x)
  BY LastTagExists DEF Orderly
<1>3. /\ b \in tags /\ b.at \in Nat /\ b.at <= x /\ x \in Nat /\ x <= Len(history)
      /\ Core(b.version) \in Triple /\ Follows(history, Core(b.version), b.at, v, x)
  BY <1>1, <1>2 DEF FollowsLast, Nearest
<1>4. v \in Triple /\ TripleBefore(Core(b.version), v)
  BY <1>1, <1>3, FollowsIsLater
<1>. DEFINE first == [version |-> Final(Start), at |-> 1]
<1>5. first \in FinalReleases /\ first.at = 1 /\ Core(first.version) = Start
  BY FinalOrder DEF Orderly, TagsOK, FinalReleases
<1>. HIDE DEF first
<1>6. Start = Core(b.version) \/ TripleBefore(Start, Core(b.version))
  <2>1. CASE b.at = 1
    <3>1. b = first
      BY <1>2, <1>5, <2>1 DEF Orderly, TagsOK
    <3>. QED
      BY <1>5, <3>1
  <2>2. CASE b.at > 1
    BY <1>2, <1>5, <2>2, OlderIsLower
  <2>. QED
    BY <1>1, <1>3, <2>1, <2>2
<1>. QED
  BY <1>3, <1>4, <1>6, TripleOrder

(* A push names a version of an open pull request, or none.                *)
LEMMA PushNames ==
    ASSUME HistoryOK, LandChange \/ MergeRelease
    PROVE  LET release == history'[Len(history) + 1].release
           IN  release = Start \/ \E p \in pulls : release = p.version
<1>1. ASSUME NEW bump, NEW release, NEW manifest, Push(Commit(bump, release, manifest))
      PROVE  history'[Len(history) + 1].release = release
  <2>1. history' = Append(history, Commit(bump, release, manifest)) /\ history \in Seq(Commits)
    BY <1>1 DEF Push, HistoryOK
  <2>2. history'[Len(history) + 1] = Commit(bump, release, manifest)
    BY <2>1
  <2>. QED
    BY <2>2 DEF Commit
<1>2. CASE LandChange
  <2>1. PICK c \in Changes, manifest \in {history[Len(history)].manifest} \cup
                                         (IF "revert" \in World THEN {Start} ELSE {}) :
           Push(Commit(CommitBump(c), Start, manifest))
    BY <1>2 DEF LandChange
  <2>. QED
    BY <1>1, <2>1
<1>3. CASE MergeRelease
  <2>. DEFINE manifest == history[Len(history)].manifest
  <2>1. PICK p \in pulls :
           \E subject \in {p.version} \cup (IF "update" \in World THEN {Start} ELSE {}) :
              Push(Commit(NoBump, subject, IF p.from = p.version THEN manifest ELSE p.version))
    BY <1>3 DEF MergeRelease
  <2>2. PICK subject \in {p.version} \cup (IF "update" \in World THEN {Start} ELSE {}) :
           Push(Commit(NoBump, subject, IF p.from = p.version THEN manifest ELSE p.version))
    BY <2>1
  <2>. HIDE DEF manifest
  <2>3. history'[Len(history) + 1].release = subject
    BY <1>1, <2>2
  <2>. QED
    BY <2>2, <2>3
<1>. QED
  BY <1>2, <1>3

LEMMA NamedInit == Init => Named
<1>. SUFFICES ASSUME Init PROVE Named
  OBVIOUS
<1>1. Tagged(Start) /\ Live = {} /\ pulls = {}
  BY DEF Init, Tagged, Live
<1>2. Len(history) = 1 /\ history[1].release = Start
  BY DEF Init, Commit
<1>. QED
  BY <1>1, <1>2 DEF Named, Releasing, Derived

LEMMA NamedStep == Orderly /\ Named /\ [Next]_vars => Named'
<1>. SUFFICES ASSUME Orderly, Named, [Next]_vars PROVE Named'
  OBVIOUS
<1>. DEFINE n == Len(history)
<1>1. HistoryOK /\ TagsOK /\ n \in Nat /\ n \in 1..n
  BY LenProperties DEF Orderly, HistoryOK
<1>2. CASE LandChange \/ MergeRelease
  <2>1. Len(history') = n + 1 /\ pulls' \subseteq pulls /\ \A i \in 1..n : history'[i] = history[i]
    BY <1>1, <1>2, PushShape
  <2>2. \A p \in pulls' : Tagged(p.version)' \/ Offered(tags', history', p.version, Len(history'))
    BY <1>1, <2>1, OfferedKeeps DEF Named
  <2>3. ASSUME NEW i \in 1..Len(history'), NEW w, w = history'[i].release
        PROVE  Tagged(w)' \/ Offered(tags', history', w, i - 1)
    <3>1. CASE i \in 1..n
      <4>1. i - 1 \in Nat /\ i - 1 <= n
        BY <1>1, <3>1
      <4>2. Tagged(w) \/ Offered(tags, history, w, i - 1)
        BY <2>1, <2>3, <3>1 DEF Named
      <4>. QED
        BY <4>1, <4>2, OfferedKeeps
    <3>2. CASE i = n + 1
      <4>1. w = Start \/ \E p \in pulls : w = p.version
        BY <1>1, <1>2, <2>3, <3>2, PushNames
      <4>2. Tagged(Start)
        BY <1>1 DEF TagsOK, Tagged
      <4>3. Tagged(w) \/ Offered(tags, history, w, n)
        BY <4>1, <4>2 DEF Named
      <4>4. i - 1 = n
        BY <1>1, <3>2
      <4>. QED
        BY <1>1, <4>3, <4>4, OfferedKeeps
    <3>. QED
      BY <1>1, <2>1, <3>1, <3>2
  <2>4. Releasing' \subseteq Releasing /\ Derived' \subseteq Derived
    <3>1. NewRun(n + 1).pc = "derive"
      BY DEF NewRun
    <3>. QED
      BY <1>1, <1>2, <3>1, RunsAfterPush DEF Releasing, Derived
  <2>5. \A r \in Releasing : r.at \in 1..n
    BY <1>1, <1>2, RunsAfterPush DEF Releasing
  <2>. QED
    BY <2>1, <2>2, <2>3, <2>4, <2>5 DEF Named, Tagged
<1>3. CASE OtherSteps
  <2>1. UNCHANGED history
    BY <1>1, <1>3, RunsKeep DEF OtherSteps, Orderly
  <2>2. \A p \in pulls : Tagged(p.version)' \/ Offered(tags', history', p.version, n)
    BY <1>1, OfferedKeeps DEF Named
  <2>3. \A p \in pulls' : Tagged(p.version)' \/ Offered(tags', history', p.version, n)
    <3>1. CASE Propose
      <4>1. PICK r \in run :
               r.pc = "propose" /\ pulls' \subseteq pulls \cup
                                     {[version |-> r.next, from |-> history[r.at].manifest]}
        BY <3>1 DEF Propose
      <4>2. r \in Derived /\ r.at \in 1..n
        BY <1>1, <4>1 DEF HistoryOK, Live, Derived
      <4>3. Tagged(r.next) \/ Offered(tags, history, r.next, n)
        BY <4>2 DEF Orderly, Chained, Offered
      <4>4. Tagged(r.next)' \/ Offered(tags', history', r.next, n)
        BY <1>1, <4>3, OfferedKeeps
      <4>. QED
        BY <2>2, <4>1, <4>4
    <3>2. CASE UNCHANGED pulls
      BY <2>2, <3>2
    <3>. QED
      BY <1>3, <3>1, <3>2 DEF OtherSteps, Begin, RunAgain, Fail, Derive, Prove, PushTag,
                              MoveFloating, Publish, TagPrerelease
  <2>4. ASSUME NEW i \in 1..n, NEW w, w = history[i].release
        PROVE  Tagged(w)' \/ Offered(tags', history', w, i - 1)
    <3>1. i - 1 \in Nat /\ i - 1 <= n
      BY <1>1
    <3>2. Tagged(w) \/ Offered(tags, history, w, i - 1)
      BY <2>4 DEF Named
    <3>. QED
      BY <3>1, <3>2, OfferedKeeps
  <2>5. \A s \in Releasing' : history[s.at].release = s.next
    BY <1>3, ReleasingKeeps DEF Named
  <2>6. ASSUME NEW s \in Derived' PROVE s.next # Start
    <3>1. s \in Live' /\ s.pc # "derive"
      BY DEF Derived
    <3>2. PICK r \in Live :
             /\ s.at = r.at
             /\ \/ s.next = r.next /\ (s.pc = "derive" <=> r.pc = "derive")
                \/ s.next = NextOf(s.at) /\ NextOf(s.at) # Core(LastTag(s.at).version)
      BY <1>1, <1>3, <3>1, RunsKeep DEF OtherSteps, Orderly
    <3>3. CASE s.next = r.next /\ r.pc # "derive"
      BY <3>3 DEF Named, Derived
    <3>4. CASE s.next = NextOf(s.at) /\ NextOf(s.at) # Core(LastTag(s.at).version)
      <4>1. s.at \in 1..n
        BY <1>1, <3>2 DEF HistoryOK
      <4>2. FollowsLast(tags, history, s.at, s.next, s.at)
        BY <1>1, <3>4, <4>1, NextFollows
      <4>. QED
        BY <4>1, <4>2, FollowsNotStart
    <3>. QED
      BY <3>1, <3>2, <3>3, <3>4
  <2>. QED
    BY <2>1, <2>3, <2>4, <2>5, <2>6 DEF Named, Tagged
<1>4. CASE UNCHANGED vars
  BY <1>4 DEF vars, Named, Tagged, Releasing, Derived, Live
<1>. QED
  BY <1>2, <1>3, <1>4, NextCases

-----------------------------------------------------------------------------
(* What is tagged is published, or about to be.                            *)

(* A run that will publish v: the manifest will not stop it.               *)
Underway(v) == \E r \in Releasing : r.next = v /\ history[r.at].manifest = v

Delivered ==
    /\ \A r \in run : r.pc \in {"tag", "float", "publish"} => history[r.at].manifest = r.next
    /\ \A t \in FinalReleases : Core(t.version) \in published \/ Underway(Core(t.version))

LEMMA UnderwayKeeps ==
    ASSUME Orderly, Delivered, [Next]_vars, NEW v, v \in published \/ Underway(v)
    PROVE  v \in published' \/ Underway(v)'
<1>1. /\ HistoryOK /\ OneRunEach /\ published \subseteq published'
      /\ run \subseteq Live /\ pending \subseteq Live /\ failed \subseteq Live
  BY DEF Orderly, Live, Next, vars, LandChange, MergeRelease, Begin, RunAgain, Fail, Derive,
         Propose, Prove, PushTag, MoveFloating, Publish, TagPrerelease
<1>2. SUFFICES ASSUME NEW r \in Releasing, r.next = v, history[r.at].manifest = v
               PROVE  v \in published' \/ Underway(v)'
  BY <1>1 DEF Underway
<1>3. /\ r \in Live /\ r.pc \in {"prove", "tag", "float", "publish"}
      /\ r.at \in 1..Len(history) /\ Live = run \cup pending \cup failed
  BY <1>1 DEF Releasing, Live, HistoryOK
<1>4. CASE LandChange \/ MergeRelease
  <2>1. r \in Live'
    BY <1>1, <1>3, <1>4, PushShape DEF Live
  <2>2. history'[r.at] = history[r.at]
    BY <1>1, <1>3, <1>4, PushShape
  <2>. QED
    BY <1>2, <1>3, <2>1, <2>2 DEF Underway, Releasing
<1>5. CASE OtherSteps
  <2>1. UNCHANGED history
    BY <1>1, <1>5, RunsKeep DEF OtherSteps, Orderly
  <2>2. ASSUME NEW s \in Live', s.at = r.at, s.next = r.next,
               s.pc \in {"prove", "tag", "float", "publish"}
        PROVE  Underway(v)'
    BY <1>2, <2>1, <2>2 DEF Underway, Releasing
  <2>3. CASE r \in Live'
    BY <1>3, <2>2, <2>3
  <2>4. ASSUME NEW pc \in {"prove", "tag", "float", "publish"}, [r EXCEPT !.pc = pc] \in Live'
        PROVE  Underway(v)'
    BY <1>1, <1>3, <2>2, <2>4, RunFields, ZenonT(60)
  <2>5. CASE Begin \/ RunAgain \/ TagPrerelease
    BY <1>3, <2>3, <2>5 DEF Begin, RunAgain, TagPrerelease, Live
  <2>6. CASE r \notin run /\ (Derive \/ Propose \/ Prove \/ PushTag \/ MoveFloating \/ Publish \/ Fail)
    BY <1>3, <2>3, <2>6 DEF Derive, Propose, Prove, PushTag, MoveFloating, Publish, Fail, Live
  <2>7. CASE r \in run /\ Fail
    <3>1. failed' = failed \cup {[r EXCEPT !.pc = JobOf(@)]}
      BY <1>1, <2>7 DEF Fail, OneRunEach
    <3>2. JobOf(r.pc) = "prove"
      BY <1>3 DEF JobOf
    <3>3. [r EXCEPT !.pc = JobOf(r.pc)] \in Live'
      BY <3>1 DEF Live
    <3>. QED
      BY <2>4, <3>2, <3>3
  <2>8. CASE r \in run /\ (Derive \/ Propose)
    BY <1>1, <1>3, <2>8 DEF Derive, Propose, OneRunEach
  <2>9. CASE r \in run /\ Prove
    <3>1. /\ r.pc = "prove"
          /\ IF NeedsBump(r) THEN run' = {} ELSE run' = {[r EXCEPT !.pc = "tag"]}
      BY <1>1, <2>9 DEF Prove, OneRunEach
    <3>2. run' = {[r EXCEPT !.pc = "tag"]}
      BY <1>2, <3>1 DEF NeedsBump
    <3>. QED
      BY <2>4, <3>2 DEF Live
  <2>10. CASE r \in run /\ (PushTag \/ MoveFloating)
    <3>1. \E pc \in {"float", "publish"} : run' = {[r EXCEPT !.pc = pc]}
      BY <1>1, <2>10 DEF PushTag, MoveFloating, OneRunEach
    <3>. QED
      BY <2>4, <3>1 DEF Live
  <2>11. CASE r \in run /\ Publish
    <3>1. published' = published \cup {r.next}
      BY <1>1, <2>11 DEF Publish, OneRunEach
    <3>. QED
      BY <1>2, <3>1
  <2>. QED
    BY <1>5, <2>5, <2>6, <2>7, <2>8, <2>9, <2>10, <2>11 DEF OtherSteps
<1>6. CASE UNCHANGED vars
  BY <1>2, <1>6 DEF vars, Underway, Releasing, Live
<1>. QED
  BY <1>4, <1>5, <1>6, NextCases

LEMMA DeliveredStep == Orderly /\ Delivered /\ [Next]_vars => Delivered'
<1>. SUFFICES ASSUME Orderly, Delivered, [Next]_vars PROVE Delivered'
  OBVIOUS
<1>1. /\ HistoryOK /\ OneRunEach
      /\ \A r \in run : r \in Live /\ r.at \in 1..Len(history)
      /\ \A r \in pending : r.pc \in {"derive", "propose", "prove"}
  BY DEF Orderly, HistoryOK, Live
<1>2. \A s \in run' : s.pc \in {"tag", "float", "publish"} => history'[s.at].manifest = s.next
  <2>1. CASE LandChange \/ MergeRelease
    BY <1>1, <2>1, PushShape DEF Delivered
  <2>2. CASE OtherSteps
    <3>1. UNCHANGED history
      BY <1>1, <2>2, RunsKeep DEF OtherSteps, Orderly
    <3>2. CASE run' \subseteq run \cup pending
      BY <1>1, <3>1, <3>2 DEF Delivered
    <3>3. ASSUME NEW r \in run, NEW pc, run' = {[r EXCEPT !.pc = pc]},
                 history[r.at].manifest = r.next
          PROVE  \A s \in run' : history'[s.at].manifest = s.next
      <4>. DEFINE new == [r EXCEPT !.pc = pc]
      <4>1. new.at = r.at /\ new.next = r.next
        BY <1>1, RunFields
      <4>. HIDE DEF new
      <4>2. run' = {new}
        BY <3>3 DEF new
      <4>. QED
        BY <3>1, <3>3, <4>1, <4>2
    <3>4. CASE Prove
      <4>1. PICK r \in run : run' = {} \/ (history[r.at].manifest = r.next
                                           /\ run' = {[r EXCEPT !.pc = "tag"]})
        BY <3>4 DEF Prove, NeedsBump
      <4>. QED
        BY <3>2, <3>3, <4>1
    <3>5. CASE PushTag \/ MoveFloating
      <4>1. PICK r \in run, pc \in {"float", "publish"} :
               r.pc \in {"tag", "float"} /\ run' = {[r EXCEPT !.pc = pc]}
        BY <3>5 DEF PushTag, MoveFloating
      <4>. QED
        BY <3>3, <4>1 DEF Delivered
    <3>6. CASE Derive
      <4>1. PICK r \in run, pc \in {"prove", "propose"} :
               \E last, next : run' \subseteq {[r EXCEPT !.last = last, !.next = next, !.pc = pc]}
        BY <3>6 DEF Derive
      <4>2. \A last, next : [r EXCEPT !.last = last, !.next = next, !.pc = pc].pc = pc
        BY <1>1 DEF HistoryOK
      <4>. QED
        BY <4>1, <4>2
    <3>. QED
      BY <2>2, <3>2, <3>4, <3>5, <3>6
         DEF OtherSteps, Begin, RunAgain, Fail, Propose, Publish, TagPrerelease
  <2>3. CASE UNCHANGED vars
    BY <2>3 DEF vars, Delivered
  <2>. QED
    BY <2>1, <2>2, <2>3, NextCases
<1>3. ASSUME NEW t \in FinalReleases', NEW v, v = Core(t.version)
      PROVE  v \in published' \/ Underway(v)'
  <2>1. CASE t \in FinalReleases
    BY <1>3, <2>1, UnderwayKeeps DEF Delivered
  <2>2. CASE t \notin FinalReleases
    <3>1. PushTag
      BY <2>2, TagsKeep
    <3>2. PICK r \in run :
             LET p == [version |-> Final(r.next), at |-> r.at]
             IN  /\ r.pc = "tag" /\ r \in RunsUpTo(Len(history)) /\ IsFinal(p.version)
                 /\ p.version = Final(r.next) /\ Core(p.version) = r.next /\ p.at = r.at
                 /\ \/ Tagged(r.next) /\ UNCHANGED tags
                    \/ ~Tagged(r.next) /\ tags' = tags \cup {p}
                 /\ UNCHANGED <<history, pending, failed, floating>>
                 /\ run' = {[r EXCEPT !.pc = "float"]}
      BY <1>1, <3>1, TagShape
    <3>3. v = r.next
      BY <1>3, <2>2, <3>2 DEF FinalReleases
    <3>4. r \in Releasing /\ history[r.at].manifest = r.next
      BY <1>1, <3>2 DEF Releasing, Delivered
    <3>. QED
      BY <3>3, <3>4, UnderwayKeeps DEF Underway
  <2>. QED
    BY <2>1, <2>2
<1>. QED
  BY <1>2, <1>3 DEF Delivered, Underway

LEMMA DeliveredInit == Init => Delivered
<1>. SUFFICES ASSUME Init PROVE Delivered
  OBVIOUS
<1>1. Core(Final(Start)) = Start
  BY FinalOrder
<1>. QED
  BY <1>1 DEF Init, Delivered, FinalReleases

-----------------------------------------------------------------------------
(* What becomes of the newest commit.                                      *)

(* No version above v waits in a commit to be tagged.                      *)
NoneAbove(v) ==
    \A i \in 1..Len(history) :
       Tagged(history[i].release) \/ ~TripleBefore(v, history[i].release)

(* The run of the newest commit finds its version tagged only where that   *)
(* tag is the last, and stays it.                                          *)
HeadKnown ==
    \A r \in Derived :
       r.at = Len(history) /\ Tagged(r.next) =>
          /\ NoneAbove(r.next)
          /\ \E t \in tags : Nearest(tags, t, Len(history)) /\ Core(t.version) = r.next

NothingNew ==
    \A t \in tags : Nearest(tags, t, Len(history)) =>
                       Classify(Bumps(history, t.at, Len(history))) = NoBump

Proposed ==
    \E p \in pulls : FollowsLast(tags, history, Len(history), p.version, Len(history))

(* The exception, and that it lasts until the next push.                   *)
LateFor(t) ==
    /\ Nearest(tags, t, Len(history)) /\ Core(t.version) # Start /\ NoneAbove(Core(t.version))
    /\ \/ \E p \in pulls : p.version = Core(t.version)
       \/ \E i \in (t.at + 1)..Len(history) : history[i].release = Core(t.version)

Late == \E t \in tags : LateFor(t)

Attended ==
    /\ HeadKnown
    /\ \/ refused
       \/ \E r \in Live : r.at = Len(history)
       \/ NothingNew \/ Proposed \/ Late

LEMMA AttendedInit == Init => Attended
<1>. SUFFICES ASSUME Init PROVE Attended
  OBVIOUS
<1>1. Live = {} /\ Len(history) = 1 /\ \A t \in tags : t.at = 1
  BY DEF Init, Live
<1>2. Classify({}) = NoBump
  BY ClassifyIsHighest
<1>3. \A t \in tags : Bumps(history, t.at, Len(history)) = {}
  BY <1>1 DEF Bumps
<1>. QED
  BY <1>1, <1>2, <1>3 DEF Attended, HeadKnown, NothingNew, Derived

(* No version above one that follows at the newest commit waits.           *)
LEMMA NoneAboveNext ==
    ASSUME Orderly, Named, NEW v, FollowsLast(tags, history, Len(history), v, Len(history))
    PROVE  NoneAbove(v)
<1>1. Len(history) \in Nat /\ Len(history) \in 1..Len(history)
  BY LenProperties DEF Orderly, HistoryOK
<1>2. ASSUME NEW i \in 1..Len(history), ~Tagged(history[i].release)
      PROVE  ~TripleBefore(v, history[i].release)
  <2>1. PICK j \in 1..(i - 1) :
           FollowsLast(tags, history, j, history[i].release, j)
    BY <1>2 DEF Named, Offered
  <2>2. j \in 1..Len(history) /\ j <= Len(history)
    BY <1>1
  <2>. QED
    BY <1>1, <2>1, <2>2, OffersGrow
<1>. QED
  BY <1>2 DEF NoneAbove

(* A step that leaves the branch and its releases alone.                   *)
LEMMA QuietSteps ==
    ASSUME Orderly, Named, Attended, OtherSteps, UNCHANGED history, FinalReleases' = FinalReleases
    PROVE  /\ HeadKnown' /\ (NothingNew => NothingNew')
           /\ \A p \in pulls' : FollowsLast(tags, history, Len(history), p.version, Len(history))
                                  => Proposed'
           /\ \A t \in tags : LateFor(t) /\ {p.version : p \in pulls} \subseteq {p.version : p \in pulls'}
                                => Late'
<1>. DEFINE n == Len(history)
<1>1. [Next]_vars /\ HistoryOK /\ OneRunEach /\ TagsOK /\ n \in 1..n
  BY NextCases, LenProperties DEF Orderly, HistoryOK
<1>2. ASSUME NEW t, NEW x PROVE Nearest(tags', t, x) <=> Nearest(tags, t, x)
  BY DEF Nearest, FinalReleases
<1>3. tags \subseteq tags' /\ \A v : Tagged(v) => Tagged(v)'
  BY <1>1, TaggedKeeps
<1>4. ASSUME NEW v \in Triple, Tagged(v)' PROVE Tagged(v)
  <2>1. IsFinal(Final(v))
    BY FinalOrder
  <2>. QED
    BY <1>4, <2>1 DEF Tagged, FinalReleases
<1>5. ASSUME NEW v, NoneAbove(v) PROVE NoneAbove(v)'
  BY <1>3, <1>5 DEF NoneAbove, Tagged
<1>6. HeadKnown'
  <2>. SUFFICES ASSUME NEW s \in Derived', s.at = n, Tagged(s.next)'
                PROVE  /\ NoneAbove(s.next)'
                       /\ \E t \in tags' : Nearest(tags', t, n) /\ Core(t.version) = s.next
    BY DEF HeadKnown
  <2>1. s \in Live' /\ s.pc # "derive"
    BY DEF Derived
  <2>2. PICK r \in Live :
           /\ s.at = r.at /\ s \in RunsUpTo(n)
           /\ \/ s.next = r.next /\ (s.pc = "derive" <=> r.pc = "derive")
              \/ s.next = NextOf(s.at) /\ NextOf(s.at) # Core(LastTag(s.at).version)
    BY <1>1, <2>1, RunsKeep DEF OtherSteps
  <2>3. s.next \in Triple /\ Tagged(s.next)
    BY <1>4, <2>2 DEF RunsUpTo
  <2>4. CASE s.next = r.next /\ r.pc # "derive"
    <3>1. NoneAbove(s.next) /\ \E t \in tags : Nearest(tags, t, n) /\ Core(t.version) = s.next
      BY <2>2, <2>3, <2>4 DEF Attended, HeadKnown, Derived
    <3>. QED
      BY <1>2, <1>3, <1>5, <3>1
  <2>5. CASE s.next = NextOf(s.at) /\ NextOf(s.at) # Core(LastTag(s.at).version)
    <3>1. FollowsLast(tags, history, n, s.next, n)
      BY <1>1, <2>5, NextFollows
    <3>. QED
      BY <2>3, <3>1, FollowsIsNew
  <2>. QED
    BY <2>1, <2>2, <2>4, <2>5
<1>7. NothingNew => NothingNew'
  BY <1>2 DEF NothingNew, Nearest
<1>8. ASSUME NEW p \in pulls', FollowsLast(tags, history, n, p.version, n) PROVE Proposed'
  <2>1. FollowsLast(tags', history', n, p.version, n)
    BY <1>2, <1>8 DEF FollowsLast, Nearest
  <2>. QED
    BY <2>1 DEF Proposed
<1>9. ASSUME NEW t \in tags, LateFor(t),
             {p.version : p \in pulls} \subseteq {p.version : p \in pulls'}
      PROVE  Late'
  <2>. DEFINE v == Core(t.version)
  <2>1. /\ Nearest(tags, t, n) /\ v # Start /\ NoneAbove(v)
        /\ \/ \E p \in pulls : p.version = v
           \/ \E i \in (t.at + 1)..n : history[i].release = v
    BY <1>9 DEF LateFor
  <2>. HIDE DEF v
  <2>2. Nearest(tags', t, n) /\ NoneAbove(v)'
    BY <1>2, <1>5, <2>1
  <2>3. \/ \E p \in pulls' : p.version = v
        \/ \E i \in (t.at + 1)..n : history[i].release = v
    BY <1>9, <2>1
  <2>. QED
    BY <1>3, <2>1, <2>2, <2>3 DEF Late, LateFor, v
<1>. QED
  BY <1>6, <1>7, <1>8, <1>9

(* A run of the newest commit lives on, or comes to a good end.            *)
LEMMA HeadRunEnds ==
    ASSUME Orderly, Named, Pointed, Attended, OtherSteps,
           UNCHANGED history, FinalReleases' = FinalReleases,
           NEW q \in Live, q.at = Len(history)
    PROVE  refused' \/ (\E s \in Live' : s.at = Len(history)) \/ NothingNew' \/ Proposed' \/ Late'
<1>. DEFINE n == Len(history)
            Good == refused' \/ (\E s \in Live' : s.at = n) \/ NothingNew' \/ Proposed' \/ Late'
<1>1. /\ HistoryOK /\ OneRunEach /\ TagsOK /\ history \in Seq(Commits) /\ n \in 1..n /\ n \in Nat
      /\ Live = run \cup pending \cup failed
      /\ \A t \in tags : t.at \in Nat /\ Core(t.version) \in Triple
  BY TagTypes DEF Orderly, Live
<1>2. CASE q \in Live'
  BY <1>2
<1>3. CASE q \notin Live' /\ q \notin run
  BY <1>1, <1>3 DEF OtherSteps, Begin, RunAgain, Fail, Derive, Propose, Prove, PushTag,
                    MoveFloating, Publish, TagPrerelease, Live
<1>4. ASSUME q \in run, NEW pc, [q EXCEPT !.pc = pc] \in Live' PROVE Good
  <2>1. [q EXCEPT !.pc = pc].at = q.at
    BY <1>1, RunFields
  <2>. QED
    BY <1>4, <2>1
<1>5. CASE q \in run /\ q \notin Live' /\ Fail
  <2>1. [q EXCEPT !.pc = JobOf(@)] \in failed'
    BY <1>1, <1>5 DEF Fail, OneRunEach
  <2>2. [q EXCEPT !.pc = JobOf(q.pc)] \in Live'
    BY <2>1 DEF Live
  <2>. QED
    BY <1>4, <1>5, <2>2
<1>6. CASE q \in run /\ (PushTag \/ MoveFloating)
  <2>1. \E pc \in {"float", "publish"} : run' = {[q EXCEPT !.pc = pc]}
    BY <1>1, <1>6 DEF PushTag, MoveFloating, OneRunEach
  <2>2. PICK pc \in {"float", "publish"} : [q EXCEPT !.pc = pc] \in Live'
    BY <2>1 DEF Live
  <2>. QED
    BY <1>4, <1>6, <2>2
<1>7. CASE q \in run /\ Prove
  <2>1. run' = {[q EXCEPT !.pc = "tag"]} \/ refused' = (refused \/ q.at = Len(history))
    BY <1>1, <1>7 DEF Prove, OneRunEach
  <2>2. CASE run' = {[q EXCEPT !.pc = "tag"]}
    <3>1. [q EXCEPT !.pc = "tag"] \in Live'
      BY <2>2 DEF Live
    <3>. QED
      BY <1>4, <1>7, <3>1
  <2>3. CASE refused' = (refused \/ q.at = Len(history))
    BY <2>3
  <2>. QED
    BY <2>1, <2>2, <2>3
<1>8. CASE q \in run /\ Derive
  <2>1. run' = IF NextOf(n) = Core(LastTag(n).version) THEN {}
               ELSE {[q EXCEPT !.last = Core(LastTag(n).version), !.next = NextOf(n),
                         !.pc = IF history[n].release = NextOf(n) THEN "prove" ELSE "propose"]}
    BY <1>1, <1>8 DEF Derive, OneRunEach
  <2>2. CASE run' = {} /\ NextOf(n) = Core(LastTag(n).version)
    <3>. DEFINE t == LastTag(n)  B == Bumps(history, t.at, n)
    <3>1. t \in FinalReleases /\ Nearest(tags, t, n)
      BY <1>1, LastTagExists
    <3>2. t \in tags /\ t.at \in Nat /\ t.at <= n /\ Core(t.version) \in Triple
      BY <1>1, <3>1 DEF Nearest
    <3>3. NextOf(n) = NextVersion(Core(t.version), Classify(B))
      BY DEF NextOf, Bumps
    <3>4. B \in SUBSET Bump
      BY <1>1, <3>2, BumpsSplit
    <3>5. \A u \in tags : Nearest(tags, u, n) => u = t
      <4>. HIDE DEF t
      <4>1. \A u \in tags : Nearest(tags, u, n) => u \in FinalReleases /\ u.at = t.at
        BY <1>1, <3>1, <3>2 DEF Nearest, FinalReleases
      <4>. QED
        BY <1>1, <3>1, <4>1 DEF TagsOK
    <3>. HIDE DEF t, B
    <3>6. Classify(B) = NoBump
      <4>1. Classify(B) \in Bump
        BY <3>4, ClassifyIsHighest
      <4>2. NextVersion(Core(t.version), Classify(B)) = Core(t.version)
        BY <2>2, <3>3 DEF t
      <4>. QED
        BY <3>2, <4>1, <4>2, NextIsLater, TripleOrder
    <3>7. NothingNew
      BY <3>5, <3>6 DEF NothingNew, B
    <3>. QED
      BY <3>7, QuietSteps
  <2>3. CASE run' # {}
    <3>. DEFINE new == [q EXCEPT !.last = Core(LastTag(n).version), !.next = NextOf(n),
                         !.pc = IF history[n].release = NextOf(n) THEN "prove" ELSE "propose"]
    <3>1. new.at = q.at
      BY <1>1 DEF HistoryOK
    <3>2. new \in Live'
      BY <2>1, <2>3 DEF Live
    <3>. HIDE DEF new
    <3>. QED
      BY <3>1, <3>2
  <2>. QED
    BY <2>1, <2>2, <2>3
<1>9. ASSUME q \in Derived, Tagged(q.next),
             {p.version : p \in pulls} \subseteq {p.version : p \in pulls'},
             (\E p \in pulls' : p.version = q.next) \/ q \in Releasing
      PROVE  Late' \/ NothingNew'
  <2>1. PICK t \in tags : Nearest(tags, t, n) /\ Core(t.version) = q.next /\ NoneAbove(q.next)
    BY <1>9 DEF Attended, HeadKnown
  <2>2. q.next # Start
    BY <1>9 DEF Named
  <2>3. CASE \E p \in pulls : p.version = q.next
    <3>1. LateFor(t)
      BY <2>1, <2>2, <2>3 DEF LateFor
    <3>. QED
      BY <1>9, <3>1, QuietSteps
  <2>4. CASE \E p \in pulls' : p.version = q.next
    <3>1. Nearest(tags', t, n) /\ t \in tags'
      BY <2>1 DEF Nearest, FinalReleases
    <3>2. NoneAbove(q.next)'
      <4>1. [Next]_vars
        BY NextCases
      <4>. QED
        BY <2>1, <4>1, TaggedKeeps DEF NoneAbove, Tagged
    <3>. QED
      BY <2>1, <2>2, <2>4, <3>1, <3>2 DEF Late, LateFor
  <2>5. CASE q \in Releasing
    <3>1. history[n].release = q.next
      BY <2>5 DEF Named
    <3>2. t.at \in Nat /\ t.at <= n
      BY <1>1, <2>1 DEF Nearest
    <3>3. CASE t.at = n
      <4>1. \A u \in tags : Nearest(tags, u, n) => u.at = n
        BY <1>1, <2>1, <3>3 DEF Nearest
      <4>2. Classify({}) = NoBump
        BY ClassifyIsHighest
      <4>3. \A u \in tags : Nearest(tags, u, n) => Bumps(history, u.at, n) = {}
        BY <1>1, <4>1 DEF Bumps
      <4>4. NothingNew
        BY <4>2, <4>3 DEF NothingNew
      <4>. QED
        BY <4>4, QuietSteps
    <3>4. CASE t.at < n
      <4>1. n \in (t.at + 1)..n
        BY <1>1, <3>2, <3>4
      <4>2. LateFor(t)
        BY <2>1, <2>2, <3>1, <4>1 DEF LateFor
      <4>. QED
        BY <1>9, <4>2, QuietSteps
    <3>. QED
      BY <1>1, <3>2, <3>3, <3>4
  <2>. QED
    BY <1>9, <2>4, <2>5
<1>10. CASE q \in run /\ Propose
  <2>1. /\ q.pc = "propose"
        /\ pulls' = {p \in pulls : p.version # q.next} \cup
                    {[version |-> q.next, from |-> history[q.at].manifest]}
    BY <1>1, <1>10 DEF Propose, OneRunEach
  <2>. DEFINE new == [version |-> q.next, from |-> history[q.at].manifest]
  <2>2. q \in Derived /\ new \in pulls' /\ new.version = q.next
    BY <1>1, <2>1 DEF Derived
  <2>. HIDE DEF new
  <2>3. {p.version : p \in pulls} \subseteq {p.version : p \in pulls'}
    <3>1. \A p \in pulls : p \in pulls' \/ p.version = new.version
      BY <2>1, <2>2
    <3>. QED
      BY <2>2, <3>1
  <2>4. CASE Tagged(q.next)
    BY <1>9, <2>2, <2>3, <2>4
  <2>5. CASE ~Tagged(q.next)
    <3>1. FollowsLast(tags, history, n, new.version, n)
      BY <2>2, <2>5 DEF Orderly, Chained
    <3>. QED
      BY <2>2, <3>1, QuietSteps
  <2>. QED
    BY <2>4, <2>5
<1>11. CASE q \in run /\ Publish
  <2>1. q.pc = "publish" /\ pulls' = pulls
    BY <1>1, <1>11 DEF Publish, OneRunEach
  <2>2. q \in Derived /\ q \in Releasing /\ Tagged(q.next)
    BY <1>11, <2>1 DEF Derived, Releasing, Pointed
  <2>. QED
    BY <1>9, <2>1, <2>2
<1>12. CASE q \in run /\ q \notin Live' /\ (Begin \/ RunAgain \/ TagPrerelease)
  BY <1>1, <1>12 DEF Begin, RunAgain, TagPrerelease, Live
<1>. QED
  BY <1>2, <1>3, <1>5, <1>6, <1>7, <1>8, <1>10, <1>11, <1>12 DEF OtherSteps

(* A new tag: whoever was well looked after still is.                      *)
LEMMA NewTag ==
    ASSUME Orderly, Named, Attended, PushTag, NEW r \in run, NEW p,
           r.pc = "tag", r.at \in 2..Len(history), r.next \in Triple,
           p.at = r.at, p.version = Final(r.next), ~Tagged(r.next), tags' = tags \cup {p},
           UNCHANGED <<history, pulls, refused, pending, failed>>,
           run' = {[r EXCEPT !.pc = "float"]}
    PROVE  Attended'
<1>. DEFINE n == Len(history)  w == r.next
<1>1. /\ HistoryOK /\ OneRunEach /\ TagsOK /\ Chained /\ history \in Seq(Commits)
      /\ n \in 1..n /\ n \in Nat /\ [Next]_vars
  BY LenProperties, NextCases DEF Orderly, HistoryOK, OtherSteps
<1>2. \A t \in tags : t.at \in 1..n /\ t.at \in Nat /\ Core(t.version) \in Triple
  BY <1>1, TagTypes
<1>3. IsFinal(p.version) /\ Core(p.version) = w /\ p.at \in 1..n /\ p.at \in Nat
  BY <1>1, FinalOrder
<1>4. r \in Derived /\ r \in Live /\ r \in Releasing
  BY DEF Derived, Live, Releasing
<1>5. /\ FollowsLast(tags, history, p.at, w, p.at) /\ w # Start /\ history[p.at].release = w
  BY <1>1, <1>4 DEF Chained, Named
<1>6. \A v : Tagged(v) => Tagged(v)'
  BY <1>1, TaggedKeeps
<1>7. ASSUME NEW v, NoneAbove(v) PROVE NoneAbove(v)'
  BY <1>6, <1>7 DEF NoneAbove, Tagged
<1>8. PICK b \in FinalReleases : Nearest(tags, b, n)
  BY <1>1, LastTagExists
<1>9. b \in tags /\ b.at \in Nat /\ b.at <= n /\ Core(b.version) \in Triple /\ IsFinal(b.version)
  BY <1>2, <1>8 DEF Nearest
<1>10. b.at # p.at
  BY <1>1, <1>4, <1>8 DEF TagsOK, Tagged, FinalReleases
<1>11. \A t \in tags : Nearest(tags, t, n) => t = b
  <2>1. \A t \in tags : Nearest(tags, t, n) => t \in FinalReleases /\ t.at = b.at
    BY <1>2, <1>8, <1>9 DEF Nearest, FinalReleases
  <2>. QED
    BY <1>1, <1>8, <2>1 DEF TagsOK
<1>. HIDE DEF n, w
(* The tag is before the last one. *)
<1>12. CASE p.at < b.at
  <2>1. Nearest(tags', b, n) /\ b \in tags'
    BY <1>3, <1>8, <1>9, <1>12 DEF Nearest
  <2>2. \A t \in tags' : Nearest(tags', t, n) => t = b
    <3>1. ~Nearest(tags', p, n)
      BY <1>3, <1>9, <1>12 DEF Nearest
    <3>2. \A t \in tags : Nearest(tags', t, n) => Nearest(tags, t, n)
      BY DEF Nearest
    <3>. QED
      BY <1>11, <3>1, <3>2
  <2>3. ASSUME NEW v, FollowsLast(tags, history, n, v, n) PROVE v # w
    <3>1. Follows(history, Core(b.version), b.at, v, n)
      BY <1>8, <1>9, <2>3 DEF FollowsLast
    <3>2. v \in Triple /\ TripleBefore(Core(b.version), v)
      <4>1. n <= Len(history)
        BY <1>1 DEF n
      <4>. QED
        BY <1>1, <1>9, <3>1, <4>1, FollowsIsLater
    <3>3. ~TripleBefore(Core(b.version), w)
      BY <1>3, <1>5, <1>8, <1>12, Overtaken DEF n
    <3>. QED
      BY <3>2, <3>3
  <2>4. HeadKnown'
    <3>. SUFFICES ASSUME NEW s \in Derived', s.at = n, Tagged(s.next)'
                  PROVE  /\ NoneAbove(s.next)'
                         /\ \E t \in tags' : Nearest(tags', t, n) /\ Core(t.version) = s.next
      BY DEF HeadKnown, n
    <3>1. PICK q \in Derived : s.at = q.at /\ s.next = q.next
      <4>1. [r EXCEPT !.pc = "float"].at = r.at /\ [r EXCEPT !.pc = "float"].next = r.next
        BY <1>1, <1>4, RunFields
      <4>. QED
        BY <1>4, <4>1 DEF Derived, Live
    <3>2. CASE Tagged(q.next)
      <4>1. NoneAbove(s.next) /\ \E t \in tags : Nearest(tags, t, n) /\ Core(t.version) = s.next
        BY <3>1, <3>2 DEF Attended, HeadKnown, n
      <4>. QED
        BY <1>7, <1>11, <2>1, <4>1
    <3>3. CASE ~Tagged(q.next)
      <4>1. q.next = w
        <5>1. Final(q.next) = Final(w)
          BY <3>1, <3>3 DEF Tagged, w
        <5>2. q.next \in Triple
          BY <1>1 DEF HistoryOK, Derived
        <5>. QED
          BY <5>1, <5>2, FinalOrder DEF w
      <4>2. FollowsLast(tags, history, n, q.next, n)
        BY <1>1, <3>1, <3>3 DEF Chained
      <4>. QED
        BY <2>3, <4>1, <4>2
    <3>. QED
      BY <3>2, <3>3
  <2>5. CASE refused \/ \E q \in Live : q.at = n
    <3>1. [r EXCEPT !.pc = "float"].at = r.at
      BY <1>1, <1>4, RunFields
    <3>2. \A q \in Live : \E s \in Live' : s.at = q.at
      BY <1>1, <3>1 DEF Live, OneRunEach
    <3>. QED
      BY <2>4, <2>5, <3>2 DEF Attended, n
  <2>6. CASE NothingNew
    <3>1. NothingNew'
      BY <1>8, <1>9, <2>2, <2>6 DEF NothingNew, n
    <3>. QED
      BY <2>4, <3>1 DEF Attended
  <2>7. CASE Proposed
    <3>1. PICK o \in pulls : FollowsLast(tags, history, n, o.version, n)
      BY <2>7 DEF Proposed, n
    <3>2. FollowsLast(tags', history', n, o.version, n)
      BY <1>8, <1>9, <2>2, <3>1 DEF FollowsLast
    <3>. QED
      BY <2>4, <3>2 DEF Attended, Proposed, n
  <2>8. CASE Late
    <3>1. LateFor(b)
      BY <1>11, <2>8 DEF Late, LateFor, n
    <3>2. Late'
      BY <1>7, <2>1, <3>1 DEF Late, LateFor, n
    <3>. QED
      BY <2>4, <3>2 DEF Attended
  <2>. QED
    BY <2>5, <2>6, <2>7, <2>8 DEF Attended, n
(* It is the last one now. *)
<1>13. CASE b.at < p.at
  <2>1. Nearest(tags', p, n) /\ p \in tags'
    BY <1>2, <1>3, <1>8, <1>9, <1>13 DEF Nearest, n
  <2>2. \A t \in tags' : Nearest(tags', t, n) => t = p
    <3>1. ASSUME NEW t \in tags, Nearest(tags', t, n) PROVE FALSE
      <4>1. p.at <= t.at /\ t.at <= b.at
        BY <1>3, <1>8, <2>1, <3>1 DEF Nearest
      <4>. QED
        BY <1>2, <1>3, <1>9, <1>13, <4>1
    <3>. QED
      BY <3>1
  <2>3. Nearest(tags, b, p.at)
    BY <1>2, <1>3, <1>8, <1>9, <1>13 DEF Nearest, n
  <2>4. Follows(history, Core(b.version), b.at, w, p.at)
    BY <1>5, <1>9, <2>3 DEF FollowsLast
  <2>5. w \in Triple /\ TripleBefore(Core(b.version), w)
    <3>1. p.at <= Len(history) /\ b.at <= p.at
      BY <1>3, <1>9, <1>13 DEF n
    <3>. QED
      BY <1>1, <1>3, <1>9, <2>4, <3>1, FollowsIsLater
  (* No version of the newest commit's can have been overtaken. *)
  <2>6. ASSUME NoneAbove(Core(b.version)) PROVE FALSE
    <3>1. ~Tagged(history[p.at].release) /\ p.at \in 1..Len(history)
      BY <1>3, <1>5 DEF n, w
    <3>. QED
      BY <1>5, <2>5, <2>6, <3>1 DEF NoneAbove
  <2>7. ASSUME FollowsLast(tags, history, n, w, n) PROVE NoneAbove(w)'
    BY <1>7, <2>7, NoneAboveNext DEF n
  <2>8. HeadKnown'
    <3>. SUFFICES ASSUME NEW s \in Derived', s.at = n, Tagged(s.next)'
                  PROVE  /\ NoneAbove(s.next)'
                         /\ \E t \in tags' : Nearest(tags', t, n) /\ Core(t.version) = s.next
      BY DEF HeadKnown, n
    <3>1. PICK q \in Derived : s.at = q.at /\ s.next = q.next
      <4>1. [r EXCEPT !.pc = "float"].at = r.at /\ [r EXCEPT !.pc = "float"].next = r.next
        BY <1>1, <1>4, RunFields
      <4>. QED
        BY <1>4, <4>1 DEF Derived, Live
    <3>2. CASE Tagged(q.next)
      <4>1. NoneAbove(s.next) /\ \E t \in tags : Nearest(tags, t, n) /\ Core(t.version) = s.next
        BY <3>1, <3>2 DEF Attended, HeadKnown, n
      <4>. QED
        BY <1>11, <2>6, <4>1
    <3>3. CASE ~Tagged(q.next)
      <4>1. q.next = w
        <5>1. Final(q.next) = Final(w)
          BY <3>1, <3>3 DEF Tagged, w
        <5>2. q.next \in Triple
          BY <1>1 DEF HistoryOK, Derived
        <5>. QED
          BY <5>1, <5>2, FinalOrder DEF w
      <4>2. FollowsLast(tags, history, n, q.next, n)
        BY <1>1, <3>1, <3>3 DEF Chained
      <4>. QED
        BY <1>3, <2>1, <2>7, <3>1, <4>1, <4>2
    <3>. QED
      BY <3>2, <3>3
  <2>9. CASE refused \/ \E q \in Live : q.at = n
    <3>1. [r EXCEPT !.pc = "float"].at = r.at
      BY <1>1, <1>4, RunFields
    <3>2. \A q \in Live : \E s \in Live' : s.at = q.at
      BY <1>1, <3>1 DEF Live, OneRunEach
    <3>. QED
      BY <2>8, <2>9, <3>2 DEF Attended, n
  <2>10. CASE NothingNew
    <3>. DEFINE B == Bumps(history, b.at, p.at)  C == Bumps(history, b.at, n)
                D == Bumps(history, p.at, n)
    <3>1. Classify(B) # NoBump /\ Classify(C) = NoBump
      BY <1>8, <1>9, <2>4, <2>10 DEF Follows, NothingNew, n
    <3>2. B \in SUBSET Bump /\ D \in SUBSET Bump /\ C = B \cup D
      <4>1. b.at <= p.at /\ p.at <= n /\ n <= Len(history)
        BY <1>1, <1>3, <1>9, <1>13 DEF n
      <4>. QED
        BY <1>1, <1>3, <1>9, <4>1, BumpsSplit
    <3>. HIDE DEF B, C, D
    <3>3. Classify(B) \in Bump /\ Classify(D) \in Bump
      BY <3>2, ClassifyIsHighest
    <3>4. Classify(C) = Classify(B) \/ (Classify(B) < Classify(D) /\ Classify(C) = Classify(D))
      BY <3>2, <3>3, ClassifyUnion, BumpValues
    <3>. QED
      BY <3>1, <3>3, <3>4, BumpValues
  <2>11. CASE Proposed
    <3>1. PICK o \in pulls : FollowsLast(tags, history, n, o.version, n)
      BY <2>11 DEF Proposed, n
    <3>2. CASE o.version = w
      <4>1. NoneAbove(w)'
        BY <2>7, <3>1, <3>2
      <4>2. Late'
        BY <1>3, <1>5, <2>1, <3>2, <4>1 DEF Late, LateFor, n
      <4>. QED
        BY <2>8, <4>2 DEF Attended
    <3>3. CASE o.version # w
      <4>1. PICK first \in tags : IsFinal(first.version) /\ first.at = 1
        BY <1>1, FinalOrder DEF TagsOK
      <4>2. FollowsLast(tags', history', n, o.version, n)
        <5>1. n \in 1..Len(history) /\ n \in 1..n /\ p.at \in 1..Len(history)
              /\ \A t \in tags : t.at \in 1..Len(history) /\ Core(t.version) \in Triple
          BY <1>1, <1>2, <1>3 DEF n
        <5>2. FollowsLast(tags \cup {p}, history, n, o.version, n)
          BY <1>1, <1>3, <1>5, <3>1, <3>3, <4>1, <5>1, FollowsAfterTag
        <5>. QED
          BY <5>2
      <4>. QED
        BY <2>8, <4>2 DEF Attended, Proposed, n
    <3>. QED
      BY <3>2, <3>3
  <2>12. CASE Late
    <3>1. LateFor(b)
      BY <1>11, <2>12 DEF Late, LateFor, n
    <3>. QED
      BY <2>6, <3>1 DEF LateFor
  <2>. QED
    BY <2>9, <2>10, <2>11, <2>12 DEF Attended, n
<1>. QED
  BY <1>3, <1>9, <1>10, <1>12, <1>13

LEMMA AttendedStep == Orderly /\ Named /\ Pointed /\ Attended /\ [Next]_vars => Attended'
<1>. SUFFICES ASSUME Orderly, Named, Pointed, Attended, [Next]_vars PROVE Attended'
  OBVIOUS
<1>. DEFINE n == Len(history)
<1>1. HistoryOK /\ OneRunEach /\ TagsOK /\ n \in Nat
  BY LenProperties DEF Orderly, HistoryOK
<1>2. CASE LandChange \/ MergeRelease
  <2>1. Len(history') = n + 1 /\ pending' = {NewRun(n + 1)} /\ Derived' \subseteq Derived
        /\ \A r \in Live : r.at \in 2..n
    BY <1>1, <1>2, PushShape, RunsAfterPush
  <2>2. NewRun(n + 1) \in Live' /\ NewRun(n + 1).at = n + 1
    BY <2>1 DEF Live, NewRun
  <2>3. \A r \in Derived' : r.at # Len(history')
    BY <1>1, <2>1 DEF Derived
  <2>. QED
    BY <2>1, <2>2, <2>3 DEF Attended, HeadKnown
<1>3. CASE OtherSteps /\ UNCHANGED history /\ FinalReleases' = FinalReleases
  <2>1. HeadKnown'
    BY <1>3, QuietSteps
  <2>2. CASE refused
    <3>1. refused'
      BY <1>3, <2>2 DEF OtherSteps, Begin, RunAgain, Fail, Derive, Propose, Prove, PushTag,
                        MoveFloating, Publish, TagPrerelease
    <3>. QED
      BY <2>1, <3>1 DEF Attended
  <2>3. CASE \E q \in Live : q.at = n
    BY <1>3, <2>1, <2>3, HeadRunEnds DEF Attended
  <2>4. {p.version : p \in pulls} \subseteq {p.version : p \in pulls'}
    <3>1. CASE Propose
      <4>1. PICK r \in run :
               pulls' = {p \in pulls : p.version # r.next} \cup
                        {[version |-> r.next, from |-> history[r.at].manifest]}
        BY <3>1 DEF Propose
      <4>. DEFINE new == [version |-> r.next, from |-> history[r.at].manifest]
      <4>2. new \in pulls' /\ new.version = r.next
        BY <4>1
      <4>. HIDE DEF new
      <4>3. \A p \in pulls : p \in pulls' \/ p.version = new.version
        BY <4>1, <4>2
      <4>. QED
        BY <4>2, <4>3
    <3>2. CASE UNCHANGED pulls
      BY <3>2
    <3>. QED
      BY <1>3, <3>1, <3>2 DEF OtherSteps, Begin, RunAgain, Fail, Derive, Prove, PushTag,
                              MoveFloating, Publish, TagPrerelease
  <2>5. CASE NothingNew
    BY <1>3, <2>1, <2>5, QuietSteps DEF Attended
  <2>6. CASE Proposed
    <3>1. PICK p \in pulls : FollowsLast(tags, history, n, p.version, n)
      BY <2>6 DEF Proposed
    <3>2. PICK o \in pulls' : o.version = p.version
      BY <2>4
    <3>. QED
      BY <1>3, <2>1, <3>1, <3>2, QuietSteps DEF Attended
  <2>7. CASE Late
    BY <1>3, <2>1, <2>4, <2>7, QuietSteps DEF Attended, Late
  <2>. QED
    BY <2>2, <2>3, <2>5, <2>6, <2>7 DEF Attended
<1>4. CASE OtherSteps /\ ~PushTag
  BY <1>1, <1>3, <1>4, RunsKeep, TagsKeep DEF OtherSteps
<1>5. CASE PushTag
  <2>1. PICK r \in run :
           LET p == [version |-> Final(r.next), at |-> r.at]
           IN  /\ r.pc = "tag" /\ r \in RunsUpTo(Len(history)) /\ IsFinal(p.version)
               /\ p.version = Final(r.next) /\ Core(p.version) = r.next /\ p.at = r.at
               /\ \/ Tagged(r.next) /\ UNCHANGED tags
                  \/ ~Tagged(r.next) /\ tags' = tags \cup {p}
               /\ UNCHANGED <<history, pending, failed, floating>>
               /\ run' = {[r EXCEPT !.pc = "float"]}
    BY <1>1, <1>5, TagShape
  <2>2. UNCHANGED <<pulls, refused>>
    BY <1>5 DEF PushTag
  <2>3. CASE UNCHANGED tags
    BY <1>3, <1>5, <2>1, <2>3 DEF FinalReleases, OtherSteps
  <2>4. CASE ~Tagged(r.next) /\ tags' = tags \cup {[version |-> Final(r.next), at |-> r.at]}
    <3>. DEFINE p == [version |-> Final(r.next), at |-> r.at]
    <3>1. p.at = r.at /\ p.version = Final(r.next) /\ r.at \in 2..Len(history) /\ r.next \in Triple
      BY <2>1 DEF RunsUpTo
    <3>2. tags' = tags \cup {p}
      BY <2>4
    <3>. HIDE DEF p
    <3>. QED
      BY <1>5, <2>1, <2>2, <2>4, <3>1, <3>2, NewTag
  <2>. QED
    BY <2>1, <2>3, <2>4
<1>6. CASE UNCHANGED vars
  BY <1>6 DEF vars, Attended, HeadKnown, NothingNew, Proposed, Late, LateFor, NoneAbove, Tagged,
              Derived, Live
<1>. QED
  BY <1>2, <1>4, <1>5, <1>6, NextCases

(* When the workflow has come to rest, whatever failed, was repeated and   *)
(* overtook whatever else, every release is published and every releasable *)
(* change has its pull request, but for the change a late run preempted.   *)
THEOREM ReleasesAreFinished == Spec => []NothingIsForgotten
<1>1. Orderly /\ Delivered /\ Attended => NothingIsForgotten
  <2>. SUFFICES ASSUME Orderly, Delivered, Attended, Idle
                PROVE  /\ \A t \in tags : IsFinal(t.version) => Core(t.version) \in published
                       /\ \/ NextOf(Len(history)) = Core(LastTag(Len(history)).version)
                          \/ \E p \in pulls : p.version = NextOf(Len(history))
                          \/ TaggedLate
    BY DEF NothingIsForgotten
  <2>. DEFINE n == Len(history)  t == LastTag(n)
  <2>1. Live = {} /\ ~refused /\ n \in 1..n /\ HistoryOK /\ TagsOK
    BY LenProperties DEF Idle, Live, Orderly, HistoryOK
  <2>2. \A u \in tags : IsFinal(u.version) => Core(u.version) \in published
    BY <2>1 DEF Delivered, Underway, Releasing, FinalReleases
  <2>3. t \in tags /\ Nearest(tags, t, n)
    BY <2>1, LastTagExists DEF FinalReleases
  <2>4. \A u \in tags : Nearest(tags, u, n) => u = t
    <3>. HIDE DEF t
    <3>1. \A u \in tags : u.at \in Nat
      BY LenProperties DEF Orderly, HistoryOK
    <3>2. t \in FinalReleases
      BY <2>3 DEF Nearest, FinalReleases
    <3>3. \A u \in tags : Nearest(tags, u, n) => u \in FinalReleases /\ u.at = t.at
      BY <2>3, <3>1 DEF Nearest, FinalReleases
    <3>. QED
      BY <2>1, <3>2, <3>3 DEF TagsOK
  <2>5. CASE NothingNew
    <3>1. Classify(Bumps(history, t.at, n)) = NoBump /\ Core(t.version) \in Triple
      BY <2>1, <2>3, <2>5, NextFollows DEF NothingNew
    <3>2. NextOf(n) = NextVersion(Core(t.version), Classify(Bumps(history, t.at, n)))
      BY DEF NextOf, Bumps
    <3>. HIDE DEF t
    <3>3. NextOf(n) = Core(t.version)
      BY <3>1, <3>2, NextIsLater, BumpValues
    <3>. QED
      BY <2>2, <3>3 DEF t
  <2>6. CASE Proposed
    <3>1. PICK p \in pulls : Follows(history, Core(t.version), t.at, p.version, n)
      BY <2>3, <2>6 DEF Proposed, FollowsLast
    <3>2. p.version = NextOf(n)
      BY <3>1 DEF Follows, NextOf, Bumps
    <3>. QED
      BY <2>2, <3>2
  <2>7. CASE Late
    <3>1. LateFor(t)
      BY <2>4, <2>7 DEF Late, LateFor
    <3>2. TaggedLate
      BY <3>1 DEF LateFor, TaggedLate
    <3>. QED
      BY <2>2, <3>2
  <2>. QED
    BY <2>1, <2>5, <2>6, <2>7 DEF Attended
<1>. QED
  BY <1>1, OrderlyInit, OrderlyStep, PointedInit, PointedStep, NamedInit, NamedStep,
     DeliveredInit, DeliveredStep, AttendedInit, AttendedStep, PTL DEF Spec

=============================================================================
