------------------------------- MODULE Versions -------------------------------
(***************************************************************************)
(* The two orders Aviato puts on versions: releases among each other, with *)
(* their pre-releases (aviato/core/versioning.py), and the running tool    *)
(* against what a consumer recorded (aviato/core/version.py).              *)
(***************************************************************************)
EXTENDS Naturals, Sequences

(* A release as _release_key sees it: major, minor, patch, rank, number.   *)
(* The rank of a final release is above beta's, which is above alpha's.    *)
Key == Nat \X Nat \X Nat \X (0..2) \X Nat

Final(triple) == <<triple[1], triple[2], triple[3], 2, 0>>
IsFinal(key) == key[4] = 2
Core(key) == <<key[1], key[2], key[3]>>

Triple == Nat \X Nat \X Nat

(* The order of Python's tuples.                                           *)
TripleBefore(a, b) ==
    \/ a[1] < b[1]
    \/ a[1] = b[1] /\ a[2] < b[2]
    \/ a[1] = b[1] /\ a[2] = b[2] /\ a[3] < b[3]

Before(a, b) ==
    \/ TripleBefore(Core(a), Core(b))
    \/ Core(a) = Core(b) /\ (a[4] < b[4] \/ (a[4] = b[4] /\ a[5] < b[5]))

(* Faulty: asks for a tag that is lower instead of none that is higher.    *)
IsHigherThanSome(candidate, tags) ==
    tags = {} \/ \E t \in tags : t = candidate \/ Before(t, candidate)

(* is_highest.                                                             *)
IsHighest(candidate, tags) == \A t \in tags : ~Before(candidate, t)

-----------------------------------------------------------------------------
(* Bumps, as in BumpKind.                                                  *)
NoBump == 0
Patch == 1
Minor == 2
Major == 3

(* _commit_bump: a mark or footer for a breaking change counts only under  *)
(* a conventional header.                                                  *)
CommitBump(commit) ==
    IF ~commit.conventional THEN NoBump
    ELSE IF commit.breaking THEN Major
    ELSE CASE commit.type = "feat" -> Minor
           [] commit.type \in {"fix", "perf"} -> Patch
           [] OTHER -> NoBump

(* Faulty: settles for the lowest.                                         *)
LowestBump(bumps) ==
    IF bumps \subseteq {NoBump} THEN NoBump
    ELSE CHOOSE b \in bumps \ {NoBump} : \A c \in bumps \ {NoBump} : b <= c

(* classify_commits: the highest bump wins.                                *)
Classify(bumps) == CHOOSE b \in bumps \cup {NoBump} : \A c \in bumps : c <= b

(* next_version, of the core of the current release.                       *)
NextVersion(current, bump) ==
    CASE bump = Major -> <<current[1] + 1, 0, 0>>
      [] bump = Minor -> <<current[1], current[2] + 1, 0>>
      [] bump = Patch -> <<current[1], current[2], current[3] + 1>>
      [] OTHER -> current

-----------------------------------------------------------------------------
(* Compatibility.  A recorded version or pin is exact, perhaps with the    *)
(* suffix of a pre-release, or a major that follows its highest release,   *)
(* or nothing that can be read.                                            *)
Pin == [kind : {"exact", "prerelease", "major", "unknown"}, version : Triple]

IsKnown(pin) == pin.kind # "unknown"

(* parse_version: the suffix counts for nothing.                           *)
IsVersion(pin) == pin.kind \in {"exact", "prerelease"}

(* _as_lower_bound: a floating major N is N.0.0.                           *)
LowerBound(pin) == IF IsVersion(pin) THEN pin.version ELSE <<pin.version[1], 0, 0>>

Highest(pins) ==
    CHOOSE p \in pins : \A q \in pins : ~TripleBefore(LowerBound(p), LowerBound(q))

(* Faulty: drops what cannot be read from the comparison.                  *)
HighestReadable(pins) ==
    IF \A p \in pins : ~IsKnown(p) THEN CHOOSE p \in pins : TRUE
    ELSE Highest({p \in pins : IsKnown(p)})

(* most_restrictive_recorded: one that cannot be read, or the highest.     *)
MostRestrictive(pins) ==
    IF \E p \in pins : ~IsKnown(p)
    THEN CHOOSE p \in pins : ~IsKnown(p)
    ELSE Highest(pins)

(* is_compatible; where it raises an error, its callers refuse.            *)
IsCompatible(tool, pinned, recorded) ==
    /\ IsVersion(tool) /\ IsKnown(pinned) /\ IsKnown(recorded)
    /\ tool.version[1] = pinned.version[1]
    /\ ~TripleBefore(tool.version, LowerBound(recorded))

=============================================================================
