------------------------------ MODULE Reconcile ------------------------------
(***************************************************************************)
(* Consent-gated settings reconciliation.  Operators run `aviato           *)
(* reconcile` (run_reconcile, reconcile_decision, the binding's            *)
(* apply_settings) against a repository whose settings, tracking issues    *)
(* and roles other people change meanwhile, and beside the scheduled       *)
(* drift detector (run_settings_drift).                                    *)
(*                                                                         *)
(* A request to GitHub is a step of its own: a run reads the issue list,   *)
(* the timeline of one issue, the granter's role, then one settings        *)
(* surface after the other, decides, and repeats all reads before it       *)
(* writes the surfaces one by one.  Only the listing that finds the issue  *)
(* for a comment or a label removal is one step with that request.         *)
(***************************************************************************)
EXTENDS TrackingIssue

CONSTANTS
    Runs,        (* processes running the reconcile command                *)
    Detectors,   (* scheduled drift detectors: one or none                 *)
    Branch,      (* the branch-protection surface                          *)
    Security,    (* the security toggles, which GitHub may not offer       *)
    ReadOrder,   (* the surfaces in the order read_settings reads them     *)
    WriteOrder,  (* the surfaces in the order apply_settings writes them   *)
    World        (* the names of what can happen to the processes: see the *)
                 (* guards that mention it                                 *)

Permutes(order) ==
    /\ order \in Seq(Surfaces)
    /\ \A s \in Surfaces : \E i \in 1..Len(order) : order[i] = s
    /\ \A i, j \in 1..Len(order) : order[i] = order[j] => i = j

ASSUME ReconcileAssumption ==
    /\ Branch \in Surfaces
    /\ Permutes(ReadOrder)
    /\ Permutes(WriteOrder)
    /\ Surfaces # {}

VARIABLES
    live,        (* the repository's settings                              *)
    owner,       (* what enforces branch protection: classic or a ruleset  *)
    run,         (* each reconcile process                                 *)
    det          (* each detector                                          *)

vars == <<issue, admins, live, owner, run, det>>

-----------------------------------------------------------------------------
(* The local state of a process.                                           *)

NoConsent == [id |-> NoDiff, granted |-> FALSE, edited |-> FALSE]

(* What get_issue returns of the grant: its diff, whether a human with the *)
(* privileged role gave it, and whether a non-human edit follows it.       *)
Consent == [id : DiffIds \cup {NoDiff}, granted : BOOLEAN, edited : BOOLEAN]

Anything == CHOOSE m \in Declared : TRUE

IdleRun == [pc |-> "idle", pass |-> 1, desired |-> Anything, confirm |-> NoDiff,
            pinOk |-> TRUE, seen |-> 0, ambiguous |-> FALSE, consent |-> NoConsent,
            giver |-> {}, snap |-> Anything, k |-> 1, skipped |-> {}, outcome |-> "none"]

Run == [pc : {"idle", "issue", "timeline", "role", "settings", "decide", "void",
              "guard", "write", "done"},
        pass : {1, 2}, desired : Declared, confirm : DiffIds \cup {NoDiff},
        pinOk : BOOLEAN, seen : IssueNumbers \cup {0}, ambiguous : BOOLEAN,
        consent : Consent, giver : SUBSET (Humans \cup Bots), snap : SettingsMap, k : Nat,
        skipped : SUBSET Surfaces,
        outcome : {"none", "refuse", "noop", "abort", "apply", "error"}]

IdleDet == [pc |-> "idle", desired |-> Anything, snap |-> Anything, k |-> 1,
            seen |-> 0, open |-> FALSE, consent |-> NoDiff, rulesets |-> FALSE,
            voided |-> FALSE]

Detector == [pc : {"idle", "settings", "issue", "timeline", "revoke", "comment",
                   "list", "post"},
             desired : Declared, snap : SettingsMap, k : Nat,
             seen : IssueNumbers \cup {0}, open : BOOLEAN,
             consent : DiffIds \cup {NoDiff}, rulesets : BOOLEAN, voided : BOOLEAN]

(* The usual outcomes, or all of them if the world is that unkind.         *)
Possibly(event, usual, all) == IF event \in World THEN all ELSE usual

TypeOK ==
    /\ IssueTypeOK
    /\ live \in SettingsMap
    /\ owner \in {"classic", "ruleset"}
    /\ run \in [Runs -> Run]
    /\ det \in [Detectors -> Detector]

Init ==
    /\ IssueInit
    /\ live \in SettingsMap
    /\ owner \in Possibly("ruleset", {"classic"}, {"classic", "ruleset"})
    /\ run = [r \in Runs |-> IdleRun]
    /\ det = [d \in Detectors |-> IdleDet]

-----------------------------------------------------------------------------
(* The decision of one pass, taken from what the pass has read.            *)

Authorized(c, id) == c.id # NoDiff /\ c.id = id /\ c.granted

(* Faulty: a non-human edit of the issue does not count.                   *)
NeverDisturbed(c) == FALSE

Disturbed(c) == c.edited

ReconcileDecision(r) ==
    LET id == Diff(r.desired, r.snap)
    IN  IF r.ambiguous THEN "refuse"
        ELSE IF id = NoDiff THEN "noop"
        ELSE IF ~Authorized(r.consent, id) THEN "refuse"
        ELSE IF Disturbed(r.consent) \/ r.confirm # id THEN "abort"
        ELSE IF ~r.pinOk THEN "refuse"
        ELSE "apply"

(* The run ends and keeps what its audit comment says.                     *)
Ended(r, outcome) ==
    [IdleRun EXCEPT !.pc = "done", !.outcome = outcome, !.pass = r.pass,
                    !.desired = r.desired, !.skipped = r.skipped]

SetRun(r, value) ==
    /\ run' = [run EXCEPT ![r] = value]
    /\ UNCHANGED <<admins, owner, det>>

-----------------------------------------------------------------------------
(* run_reconcile.                                                          *)

Start(r) ==
    /\ run[r].pc \in {"idle", "done"}
    /\ \E d \in Declared, c \in DiffIds \cup {NoDiff},
          p \in Possibly("pin", {TRUE}, BOOLEAN) :
          SetRun(r, [IdleRun EXCEPT !.pc = "issue", !.desired = d,
                                    !.confirm = c, !.pinOk = p])
    /\ UNCHANGED <<issue, live>>

(* Faulty: a second open issue goes unnoticed.                             *)
NeverAmbiguous == FALSE

Ambiguous == \E m, n \in OpenIssues : m # n

ReadIssue(r) ==
    /\ run[r].pc = "issue"
    /\ IF OpenIssues = {}
       THEN SetRun(r, Ended(run[r], "refuse"))
       ELSE SetRun(r, [run[r] EXCEPT
                !.pc = "timeline",
                !.seen = SelectIssue(Existing),
                !.ambiguous = Ambiguous])
    /\ UNCHANGED <<issue, live>>

(* Without a grant get_issue drops the ambiguity flag as well.             *)
ReadTimeline(r) ==
    /\ run[r].pc = "timeline"
    /\ LET i == issue[run[r].seen]
       IN  IF ~HasConsent(i)
           THEN SetRun(r, [run[r] EXCEPT !.pc = "settings", !.seen = 0, !.k = 1,
                               !.ambiguous = FALSE, !.consent = NoConsent])
           ELSE SetRun(r, [run[r] EXCEPT !.pc = "role", !.seen = 0,
                    !.giver = {CurrentConsent(i).by},
                    !.consent = [id |-> CurrentConsent(i).id,
                                 granted |-> CurrentConsent(i).by \in Humans,
                                 edited |-> NonHumanEditAfterGrant(i)]])
    /\ UNCHANGED <<issue, live>>

(* The role is the one of this moment; a failed lookup is not approval.    *)
ReadRole(r) ==
    /\ run[r].pc = "role"
    /\ \E lookupOk \in Possibly("lookup", {TRUE}, BOOLEAN) :
          SetRun(r, [run[r] EXCEPT !.pc = "settings", !.k = 1, !.giver = {},
              !.consent.granted = @ /\ lookupOk /\ run[r].giver \subseteq admins])
    /\ UNCHANGED <<issue, live>>

ReadSettings(r) ==
    /\ run[r].pc = "settings"
    /\ LET s == ReadOrder[run[r].k]
       IN  SetRun(r, [run[r] EXCEPT
               !.snap[s] = live[s],
               !.k = @ + 1,
               !.pc = IF run[r].k = Len(ReadOrder) THEN "decide" ELSE "settings"])
    /\ UNCHANGED <<issue, live>>

(* Faulty: the decision taken at the entry of the command stands.          *)
ApplyAtOnce(r) == [r EXCEPT !.pc = "guard", !.pass = 2, !.k = 1]

(* Everything is read again, from the beginning.                           *)
ReadAgain(r) ==
    [r EXCEPT !.pc = "issue", !.pass = 2, !.seen = 0, !.ambiguous = FALSE,
              !.consent = NoConsent, !.snap = Anything, !.k = 1]

(* First pass: only an "apply" goes on, to a second round of reads; an     *)
(* edited grant is voided on the issue.                                    *)
Decide(r) ==
    /\ run[r].pc = "decide"
    /\ run[r].pass = 1
    /\ SetRun(r,
          IF ReconcileDecision(run[r]) = "apply"
          THEN ReadAgain(run[r])
          ELSE IF run[r].consent.edited
          THEN [run[r] EXCEPT !.pc = "void", !.outcome = ReconcileDecision(run[r])]
          ELSE Ended(run[r], ReconcileDecision(run[r])))
    /\ UNCHANGED <<issue, live>>

(* revoke_consent with the operator's credentials; a failure is suppressed *)
VoidConsent(r) ==
    /\ run[r].pc = "void"
    /\ LET n == SelectIssue(Existing)
           id == run[r].consent.id
       IN  \/ /\ id \in ActiveIds(issue[n].grants)
              /\ issue' = [issue EXCEPT ![n] = Unlabeled(@, id, TRUE)]
           \/ UNCHANGED issue
    /\ SetRun(r, Ended(run[r], run[r].outcome))
    /\ UNCHANGED live

(* Second pass: anything but "apply" ends the run.                         *)
DecideAgain(r) ==
    /\ run[r].pc = "decide"
    /\ run[r].pass = 2
    /\ SetRun(r, IF ReconcileDecision(run[r]) = "apply"
                 THEN [run[r] EXCEPT !.pc = "guard", !.k = 1]
                 ELSE Ended(run[r], ReconcileDecision(run[r])))
    /\ UNCHANGED <<issue, live>>

-----------------------------------------------------------------------------
(* apply_settings.                                                         *)

(* Faulty: a ruleset is not looked for.                                    *)
GuardIgnoringRulesets(r) == live[Branch] = run[r].snap[Branch]

(* Faulty: branch protection is not compared with what was decided on.     *)
GuardIgnoringDrift(r) == owner = "ruleset" => live[Branch] = run[r].desired[Branch]

(* Branch protection must still be what the decision saw, and where a      *)
(* ruleset enforces it, what is desired: the binding cannot write rulesets *)
GuardHolds(r) ==
    /\ live[Branch] = run[r].snap[Branch]
    /\ owner = "ruleset" => live[Branch] = run[r].desired[Branch]

ApplyGuard(r) ==
    /\ run[r].pc = "guard"
    /\ SetRun(r, IF GuardHolds(r) THEN [run[r] EXCEPT !.pc = "write", !.k = 1]
                 ELSE Ended(run[r], "error"))
    /\ UNCHANGED <<issue, live>>

AfterWrite(r, skip) ==
    LET done == [run[r] EXCEPT !.skipped = @ \cup skip, !.k = @ + 1]
    IN  IF run[r].k = Len(WriteOrder) THEN Ended(done, "apply") ELSE done

(* Faulty: the payload carries the entry of the diff, not the value.       *)
DiffEntry(r, s) == IF s \in DOMAIN r.confirm THEN r.confirm[s] ELSE r.desired[s]

Payload(r, s) == r.desired[s]

WriteSurface(r) ==
    /\ run[r].pc = "write"
    /\ LET s == WriteOrder[run[r].k]
       IN  /\ live' = IF s = Branch /\ owner = "ruleset" THEN live
                      ELSE [live EXCEPT ![s] = Payload(run[r], s)]
           /\ SetRun(r, AfterWrite(r, {}))
    /\ UNCHANGED issue

(* GitHub says that the security features are not available: a warning.    *)
SkipSecurity(r) ==
    /\ run[r].pc = "write"
    /\ WriteOrder[run[r].k] = Security
    /\ SetRun(r, AfterWrite(r, {Security}))
    /\ UNCHANGED <<issue, live>>

(* Any request can fail, any guard of the binding can refuse and the       *)
(* process can be killed; what was written stays written.                  *)
Fail(r) ==
    /\ "fail" \in World
    /\ run[r].pc \notin {"idle", "done"}
    /\ SetRun(r, Ended(run[r], "error"))
    /\ UNCHANGED <<issue, live>>

RunStep(r) ==
    \/ ReadIssue(r) \/ ReadTimeline(r) \/ ReadRole(r) \/ ReadSettings(r)
    \/ Decide(r) \/ VoidConsent(r) \/ DecideAgain(r)
    \/ ApplyGuard(r) \/ WriteSurface(r) \/ SkipSecurity(r)

-----------------------------------------------------------------------------
(* run_settings_drift.                                                     *)

SetDet(d, value) ==
    /\ det' = [det EXCEPT ![d] = value]
    /\ UNCHANGED <<admins, live, owner, run>>

DetStart(d) ==
    /\ det[d].pc = "idle"
    /\ \E m \in Declared, b \in Possibly("ruleset", {FALSE}, BOOLEAN) :
          SetDet(d, [IdleDet EXCEPT !.pc = "settings", !.desired = m, !.rulesets = b])
    /\ UNCHANGED issue

DetReadSettings(d) ==
    /\ det[d].pc = "settings"
    /\ LET s == ReadOrder[det[d].k]
       IN  SetDet(d, [det[d] EXCEPT
               !.snap[s] = live[s],
               !.k = @ + 1,
               !.pc = IF det[d].k = Len(ReadOrder) THEN "issue" ELSE "settings"])
    /\ UNCHANGED issue

DetReadIssue(d) ==
    /\ det[d].pc = "issue"
    /\ SetDet(d, IF Existing = {} THEN [det[d] EXCEPT !.pc = "comment"]
                 ELSE [det[d] EXCEPT !.pc = "timeline",
                                     !.seen = SelectIssue(Existing),
                                     !.open = OpenIssues # {}])
    /\ UNCHANGED issue

(* Faulty: consent outlives drift that is resolved.                        *)
StaleWhileDrifted(consent, id) == consent # NoDiff /\ id # NoDiff /\ consent # id

Stale(consent, id) == consent # NoDiff /\ consent # id

(* Faulty: takes the granter for the diff.                                 *)
Granter(i) == IF HasConsent(i) THEN CurrentConsent(i).by ELSE NoDiff

GrantedDiff(i) == IF HasConsent(i) THEN CurrentConsent(i).id ELSE NoDiff

DetReadTimeline(d) ==
    /\ det[d].pc = "timeline"
    /\ LET c == GrantedDiff(issue[det[d].seen])
           stale == Stale(c, Diff(det[d].desired, det[d].snap))
       IN  SetDet(d, [det[d] EXCEPT !.pc = IF stale THEN "revoke" ELSE "comment",
                                    !.seen = 0, !.voided = stale,
                                    !.consent = IF stale THEN c ELSE NoDiff])
    /\ UNCHANGED issue

(* The DELETE of the label; a label that is gone already is fine.          *)
DetRevoke(d) ==
    /\ det[d].pc = "revoke"
    /\ LET n == SelectIssue(Existing)
           id == det[d].consent
       IN  issue' = IF id \in ActiveIds(issue[n].grants)
                    THEN [issue EXCEPT ![n] = Unlabeled(@, id, FALSE)]
                    ELSE issue
    /\ SetDet(d, [det[d] EXCEPT !.pc = "comment", !.consent = NoDiff])

(* "Drift resolved" on an open issue, or the notice that consent is void.  *)
DetComment(d) ==
    /\ det[d].pc = "comment"
    /\ LET resolved == Diff(det[d].desired, det[d].snap) = NoDiff /\ ~det[d].rulesets
           speaks == IF resolved THEN det[d].open ELSE det[d].voided
           n == SelectIssue(Existing)
       IN  /\ issue' = IF speaks THEN [issue EXCEPT ![n] = EditedByNonHuman(@)] ELSE issue
           /\ SetDet(d, IF resolved THEN IdleDet ELSE [det[d] EXCEPT !.pc = "list"])

(* Faulty: the listing asks for issues of any state.                       *)
AnyIssue == Existing

Updatable == OpenIssues

(* open_or_update_issue: new body for the open issue, or a new issue.  A   *)
(* body edit leaves no timeline entry.                                     *)
DetList(d) ==
    /\ det[d].pc = "list"
    /\ SetDet(d, IF Updatable # {} THEN IdleDet ELSE [det[d] EXCEPT !.pc = "post"])
    /\ UNCHANGED issue

(* IssueNumbers bounds the new issues.                                     *)
DetPost(d) ==
    /\ det[d].pc = "post"
    /\ issue' = IF Existing = IssueNumbers THEN issue
                ELSE [issue EXCEPT ![Oldest(IssueNumbers \ Existing)] = NewIssue]
    /\ SetDet(d, IdleDet)

(* Faulty: a listing that fails counts as one that finds nothing.          *)
FailsOpen(r) == IF r.pc = "list" THEN [r EXCEPT !.pc = "post"] ELSE IdleDet

FailsLoud(r) == IdleDet

(* Any request can fail, which ends the scheduled run.                     *)
DetFail(d) ==
    /\ "fail" \in World
    /\ det[d].pc # "idle"
    /\ SetDet(d, FailsLoud(det[d]))
    /\ UNCHANGED issue

DetStep(d) ==
    \/ DetReadSettings(d) \/ DetReadIssue(d) \/ DetReadTimeline(d)
    \/ DetRevoke(d) \/ DetComment(d) \/ DetList(d) \/ DetPost(d)

-----------------------------------------------------------------------------
(* The world around the processes.                                         *)

ChangeSetting(s, v) ==
    /\ v # live[s]
    /\ live' = [live EXCEPT ![s] = v]
    /\ UNCHANGED <<issue, admins, owner, run, det>>

IssueEvent ==
    \/ /\ "label" \in World
       /\ \E n \in IssueNumbers, h \in Humans, id \in DiffIds : AddLabel(n, h, id)
    \/ /\ "botlabel" \in World
       /\ \E n \in IssueNumbers, b \in Bots, id \in DiffIds : AddLabel(n, b, id)
    \/ "unlabel" \in World /\ \E n \in IssueNumbers, id \in DiffIds : RemoveLabel(n, id)
    \/ "botedit" \in World /\ \E n \in IssueNumbers : BotEdit(n)
    \/ "close" \in World /\ \E n \in IssueNumbers : CloseIssue(n)
    \/ "reopen" \in World /\ \E n \in IssueNumbers : ReopenIssue(n)
    \/ "open" \in World /\ OpenIssue
    \/ "role" \in World /\ \E h \in Humans : ChangeRole(h)

Environment ==
    \/ "setting" \in World /\ \E s \in Surfaces, v \in Values : ChangeSetting(s, v)
    \/ IssueEvent /\ UNCHANGED <<live, owner, run, det>>

Next ==
    \/ \E r \in Runs : Start(r) \/ RunStep(r) \/ Fail(r)
    \/ \E d \in Detectors : DetStart(d) \/ DetStep(d) \/ DetFail(d)
    \/ Environment

Spec == Init /\ [][Next]_vars

-----------------------------------------------------------------------------
(* Where people neither open nor reopen tracking issues, the detector's    *)
(* repeated and failing runs keep a single one open (the fail-closed       *)
(* listing of open_or_update_issue).                                       *)
OneTrackingIssue == \A m, n \in OpenIssues : m = n

=============================================================================
