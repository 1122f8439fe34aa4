------------------------------- MODULE Release -------------------------------
(***************************************************************************)
(* The release workflow (.github/workflows/reusable-release.yml) and the   *)
(* commands it is made of: next-version, bump-version, is-highest.         *)
(*                                                                         *)
(* Each push to the default branch starts a run.  It derives the next      *)
(* version from the commits since the last tag; then it proposes a release *)
(* pull request or, if its commit is a merged release commit, tags it,     *)
(* moves the floating major and publishes.  Runs take turns, and a waiting *)
(* run gives way to a newer one.  A failed job can be run again with the   *)
(* outputs of the job it needs, long after the branch has moved on.        *)
(***************************************************************************)
EXTENDS Versions, FiniteSets

CONSTANTS
    Start,        (* the first release                                     *)
    Changes,      (* the commits people make                               *)
    Prereleases,  (* pre-releases someone may tag by hand                  *)
    World,        (* which unusual events an instance has                  *)
    MaxCommits,   (* bound on the length of the default branch             *)
    MaxFailures   (* bound on the failed runs waiting to be repeated       *)

ASSUME ReleaseAssumption ==
    /\ Start \in Triple
    /\ \A c \in Changes : CommitBump(c) \in NoBump..Major
    /\ Prereleases \subseteq {k \in Key : ~IsFinal(k)}
    /\ MaxCommits \in Nat \ {0}
    /\ MaxFailures \in Nat

VARIABLES
    history,    (* the commits of the default branch                       *)
    tags,       (* the release tags: a version and the commit it is at     *)
    floating,   (* the commit and version each floating major points to    *)
    published,  (* the versions with a GitHub release                      *)
    pulls,      (* the open release pull requests                          *)
    run,        (* the run in progress, if any                             *)
    pending,    (* the run waiting for it, if any                          *)
    failed,     (* the runs that can be run again                          *)
    refused     (* whether the run of the newest commit refused to tag     *)

vars == <<history, tags, floating, published, pulls, run, pending, failed, refused>>

(* `release': the version a subject "chore(release): V" names, or Start    *)
(* for any other subject.  `manifest': the version in the tree.            *)
Commit(bump, release, manifest) == [bump |-> bump, release |-> release, manifest |-> manifest]

(* A run of the workflow at a commit, with the outputs of its derive job.  *)
NewRun(at) == [at |-> at, pc |-> "derive", last |-> Start, next |-> Start]

Init ==
    /\ history = <<Commit(NoBump, Start, Start)>>
    /\ tags = {[version |-> Final(Start), at |-> 1]}
    /\ floating = [m \in {Start[1]} |-> [version |-> Start, at |-> 1]]
    /\ published = {Start}
    /\ pulls = {} /\ run = {} /\ pending = {} /\ failed = {} /\ refused = FALSE

-----------------------------------------------------------------------------
(* The default branch.                                                     *)

(* A push starts a run.  One that was waiting is dropped; it can be run    *)
(* again, which matters if it had come as far as its release job.          *)
Push(commit) ==
    /\ Len(history) < MaxCommits
    /\ history' = Append(history, commit)
    /\ pending' = {NewRun(Len(history) + 1)}
    /\ failed' = failed \cup {r \in pending : r.pc # "derive"}
    /\ refused' = FALSE

(* People land a change; once in a while it sets the version back.         *)
LandChange ==
    /\ \E c \in Changes, manifest \in {history[Len(history)].manifest} \cup
                                      (IF "revert" \in World THEN {Start} ELSE {}) :
          Push(Commit(CommitBump(c), Start, manifest))
    /\ UNCHANGED <<tags, floating, published, pulls, run>>

(* A release pull request merges unless the version it replaces has        *)
(* changed to another since; an empty one leaves it as it is.  Squashed or *)
(* merged as it is, it is recognized by its subject; merged after an       *)
(* update from the default branch, it is not.                              *)
MergeRelease ==
    \E p \in pulls :
        LET manifest == history[Len(history)].manifest
        IN  /\ p.from \in {manifest, p.version} \/ manifest = p.version
            /\ \E subject \in {p.version} \cup (IF "update" \in World THEN {Start} ELSE {}) :
                  Push(Commit(NoBump, subject, IF p.from = p.version THEN manifest ELSE p.version))
            /\ pulls' = pulls \ {p}
            /\ UNCHANGED <<tags, floating, published, run>>

(* Someone tags a pre-release by hand.                                     *)
TagPrerelease ==
    \E v \in Prereleases :
        /\ \A t \in tags : t.version # v
        /\ tags' = tags \cup {[version |-> v, at |-> Len(history)]}
        /\ UNCHANGED <<history, floating, published, pulls, run, pending, failed, refused>>

-----------------------------------------------------------------------------
(* Turns.                                                                  *)

(* Faulty: does not wait.                                                  *)
BeginAtOnce ==
    /\ pending # {}
    /\ run' = run \cup pending /\ pending' = {}
    /\ UNCHANGED <<history, tags, floating, published, pulls, failed, refused>>

Begin ==
    /\ run = {} /\ pending # {}
    /\ run' = pending /\ pending' = {}
    /\ UNCHANGED <<history, tags, floating, published, pulls, failed, refused>>

(* "Re-run failed jobs" keeps the outputs of the jobs that succeeded; the  *)
(* re-run waits for its turn like any other.                               *)
RunAgain ==
    \E f \in failed :
        /\ pending = {} /\ pending' = {f}
        /\ failed' = failed \ {f}
        /\ UNCHANGED <<history, tags, floating, published, pulls, run, refused>>

(* Where a job that failed starts again.                                   *)
JobOf(pc) == IF pc \in {"derive", "propose"} THEN pc ELSE "prove"

Fail ==
    \E r \in run :
        /\ Cardinality(failed) < MaxFailures
        /\ run' = {} /\ failed' = failed \cup {[r EXCEPT !.pc = JobOf(@)]}
        /\ UNCHANGED <<history, tags, floating, published, pulls, pending, refused>>

-----------------------------------------------------------------------------
(* The derive job.                                                         *)

FinalTags(at) == {t \in tags : IsFinal(t.version) /\ t.at <= at}

(* git describe: the nearest final tag among the commit's ancestors.       *)
LastTag(at) == CHOOSE t \in FinalTags(at) : \A u \in FinalTags(at) : u.at <= t.at

NextOf(at) ==
    NextVersion(Core(LastTag(at).version),
                Classify({history[i].bump : i \in (LastTag(at).at + 1)..at}))

Derive ==
    \E r \in run :
        LET last == Core(LastTag(r.at).version)
            next == NextOf(r.at)
        IN  /\ r.pc = "derive"
            /\ run' = IF next = last THEN {}
                      ELSE {[r EXCEPT !.last = last, !.next = next,
                                !.pc = IF history[r.at].release = next THEN "prove" ELSE "propose"]}
            /\ UNCHANGED <<history, tags, floating, published, pulls, pending, failed, refused>>

-----------------------------------------------------------------------------
(* The release job.                                                        *)

(* bump-version finds something to change in the tree of the run's commit. *)
NeedsBump(r) == history[r.at].manifest # r.next

(* Faulty: has nothing to commit when the version is already in the tree.  *)
ProposeBump ==
    \E r \in run :
        /\ r.pc = "propose" /\ run' = {}
        /\ pulls' = IF ~NeedsBump(r) THEN pulls
                    ELSE {p \in pulls : p.version # r.next} \cup
                         {[version |-> r.next, from |-> history[r.at].manifest]}
        /\ UNCHANGED <<history, tags, floating, published, pending, failed, refused>>

(* The branch release/NEXT is force-pushed and its pull request opened or  *)
(* edited.  A tree at NEXT already gives an empty commit.                  *)
Propose ==
    \E r \in run :
        /\ r.pc = "propose" /\ run' = {}
        /\ pulls' = {p \in pulls : p.version # r.next} \cup
                    {[version |-> r.next, from |-> history[r.at].manifest]}
        /\ UNCHANGED <<history, tags, floating, published, pending, failed, refused>>

(* Faulty: trusts the subject of the commit.                               *)
TrustSubject ==
    \E r \in run :
        /\ r.pc = "prove"
        /\ run' = {[r EXCEPT !.pc = "tag"]}
        /\ UNCHANGED <<history, tags, floating, published, pulls, pending, failed, refused>>

(* bump-version must find nothing to change, or there is no tag.           *)
Prove ==
    \E r \in run :
        /\ r.pc = "prove"
        /\ IF NeedsBump(r)
           THEN run' = {} /\ refused' = (refused \/ r.at = Len(history))
           ELSE run' = {[r EXCEPT !.pc = "tag"]} /\ UNCHANGED refused
        /\ UNCHANGED <<history, tags, floating, published, pulls, pending, failed>>

(* Faulty: tags what the branch has become meanwhile.                      *)
TagHead ==
    \E r \in run :
        /\ r.pc = "tag"
        /\ tags' = IF \E t \in tags : t.version = Final(r.next) THEN tags
                   ELSE tags \cup {[version |-> Final(r.next), at |-> Len(history)]}
        /\ run' = {[r EXCEPT !.pc = "float"]}
        /\ UNCHANGED <<history, floating, published, pulls, pending, failed, refused>>

PushTag ==
    \E r \in run :
        /\ r.pc = "tag"
        /\ tags' = IF \E t \in tags : t.version = Final(r.next) THEN tags
                   ELSE tags \cup {[version |-> Final(r.next), at |-> r.at]}
        /\ run' = {[r EXCEPT !.pc = "float"]}
        /\ UNCHANGED <<history, floating, published, pulls, pending, failed, refused>>

(* The floating major is set to the run's commit, if its version is the    *)
(* highest of that major.                                                  *)
MoveFloating ==
    \E r \in run :
        LET line == {t.version : t \in {u \in tags : u.version[1] = r.next[1]}}
            majors == DOMAIN floating \cup {r.next[1]}
        IN  /\ r.pc = "float"
            /\ floating' =
                 IF IsHighest(Final(r.next), line)
                 THEN [m \in majors |-> IF m = r.next[1] THEN [version |-> r.next, at |-> r.at]
                                        ELSE floating[m]]
                 ELSE floating
            /\ run' = {[r EXCEPT !.pc = "publish"]}
            /\ UNCHANGED <<history, tags, published, pulls, pending, failed, refused>>

Publish ==
    \E r \in run :
        /\ r.pc = "publish" /\ run' = {}
        /\ published' = published \cup {r.next}
        /\ UNCHANGED <<history, tags, floating, pulls, pending, failed, refused>>

Next ==
    \/ LandChange \/ MergeRelease \/ TagPrerelease
    \/ Begin \/ RunAgain \/ Fail
    \/ Derive \/ Propose \/ Prove \/ PushTag \/ MoveFloating \/ Publish

Spec == Init /\ [][Next]_vars

-----------------------------------------------------------------------------

Runs == [at : 1..MaxCommits, pc : {"derive", "propose", "prove", "tag", "float", "publish"},
         last : Triple, next : Triple]

(* The types, and that runs take turns.                                    *)
TypeOK ==
    /\ \A i \in DOMAIN history :
          history[i] \in [bump : NoBump..Major, release : Triple, manifest : Triple]
    /\ Len(history) \in 1..MaxCommits
    /\ tags \subseteq [version : Key, at : 1..MaxCommits]
    /\ \A m \in DOMAIN floating : floating[m] \in [version : Triple, at : 1..MaxCommits]
    /\ published \subseteq Triple
    /\ pulls \subseteq [version : Triple, from : Triple]
    /\ run \subseteq Runs /\ pending \subseteq Runs /\ failed \subseteq Runs
    /\ \A r, s \in run : r = s
    /\ \A r, s \in pending : r = s
    /\ refused \in BOOLEAN

(* A tag tells the truth: the tree it is at records that version, however  *)
(* the release commit was merged and whatever was changed by hand.         *)
TaggedManifestAgrees ==
    \A t \in tags : IsFinal(t.version) => history[t.at].manifest = Core(t.version)

FinalReleases == {t \in tags : IsFinal(t.version)}

(* Along the default branch the released versions increase, one commit to  *)
(* a version and one version to a commit, also when a failed run is        *)
(* repeated after newer releases.                                          *)
VersionsGrowAlongHistory ==
    \A t, u \in FinalReleases :
        t # u => (t.at < u.at <=> Before(t.version, u.version))

(* A release contains what its number says, and at least one releasable    *)
(* change: no release is made of release commits alone, and none makes a   *)
(* breaking change look like a fix.                                        *)
ReleasesCarryChanges ==
    \A t, u \in FinalReleases :
        /\ t.at < u.at
        /\ \A v \in FinalReleases : ~(t.at < v.at /\ v.at < u.at)
        => LET bumps == {history[i].bump : i \in (t.at + 1)..u.at}
           IN  /\ Major \in bumps <=> u.version[1] > t.version[1]
               /\ Major \notin bumps =>
                     (Minor \in bumps <=> u.version[2] > t.version[2])
               /\ \E b \in bumps : b # NoBump

(* A floating major never moves to a lower version, whichever run is       *)
(* repeated and in whichever order runs finish.                            *)
FloatingNeverRegresses ==
    [][\A m \in DOMAIN floating :
          ~TripleBefore(floating'[m].version, floating[m].version)]_vars

Idle == run = {} /\ pending = {} /\ failed = {} /\ ~refused

(* The newest tag is of a version that was proposed, or even committed,    *)
(* once more behind it: the run that tagged it was repeated late.          *)
TaggedLate ==
    LET last == LastTag(Len(history))
        version == Core(last.version)
    IN  /\ version # Start
        /\ \/ \E p \in pulls : p.version = version
           \/ \E i \in (last.at + 1)..Len(history) : history[i].release = version

(* Nothing is forgotten: when the workflow has come to rest and no failed  *)
(* run waits to be repeated, every release is published, and a releasable  *)
(* change since the last tag has its pull request.  The one exception is a *)
(* run repeated so late that the change was already on its way into the    *)
(* same version: it waits for the next push.                               *)
NothingIsForgotten ==
    Idle =>
        /\ \A t \in tags : IsFinal(t.version) => Core(t.version) \in published
        /\ LET next == NextOf(Len(history))
           IN  \/ next = Core(LastTag(Len(history)).version)
               \/ \E p \in pulls : p.version = next
               \/ TaggedLate

(* "An out-of-order or re-run release of an OLDER patch must never regress *)
(* the mutable pointer", nor, one would think, one of the same version: a  *)
(* floating major never goes back to an earlier commit.                    *)
FloatingNeverGoesBack ==
    [][\A m \in DOMAIN floating : floating[m].at <= floating'[m].at]_vars

=============================================================================
