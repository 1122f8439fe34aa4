----------------------------- MODULE Provisioning -----------------------------
(***************************************************************************)
(* The commands with which an operator protects a repository directly,     *)
(* outside the consent-gated flow: provision (create, minimal protection,  *)
(* push the scaffold, full protection), its recovery complete-protection,  *)
(* and apply-rulesets (aviato/core/provision.py, aviato/cli.py,            *)
(* apply_settings in aviato/github_platform.py, aviato/rulesets.py).       *)
(*                                                                         *)
(* One action per request.  A request may take effect without its answer   *)
(* reaching the command, or fail; the process may be killed between any    *)
(* two; and others change the repository at any time.                      *)
(***************************************************************************)
EXTENDS Protection

CONSTANTS
    Approvals,   (* the approvals the profile asks for                     *)
    Template,    (* the checks the ruleset template names                  *)
    Produced,    (* the checks that the composed pipelines produce         *)
    World,       (* the kinds of events others cause in an instance        *)
    MaxMoves     (* bound on the number of those events                    *)

ASSUME ProvisioningAssumption ==
    /\ Approvals \in 0..MaxReviews
    /\ Template \subseteq Checks /\ Produced \subseteq Checks
    /\ MaxMoves \in Nat

VARIABLES
    main,       (* what the remote default branch holds, if it exists      *)
    classic,    (* its classic protection, if any                          *)
    rulesets,   (* the repository's rulesets                               *)
    toggles,    (* the groups of repository toggles that are as desired    *)
    offers,     (* the features GitHub offers this repository              *)
    clone,      (* the operator's checkout                                 *)
    cmd,        (* the command in progress                                 *)
    report,     (* what the last command said                              *)
    touched,    (* whether others acted since the last command began       *)
    moves       (* how often they did so far                               *)

remote == <<main, classic, rulesets, toggles, offers>>
vars == <<remote, clone, cmd, report, touched, moves>>

ToggleGroups == {"merge", "actions", "security"}

(* _desired_settings of the resolved profile, its part for the branch.     *)
Desired == [pr |-> TRUE, reviews |-> Approvals, stale |-> TRUE, threads |-> TRUE,
            admins |-> TRUE, blocks |-> Ops, checks |-> Produced]

Payload(c) == IF c.full THEN Desired ELSE Minimal

(* The rendered rulesets, in the order of the manifest.                    *)
DesiredRulesets == {RenderBranch(Approvals, Template, Produced), RenderTag}
RulesetFor(pc) ==
    IF pc \in {"findBranch", "sendBranch"}
    THEN RenderBranch(Approvals, Template, Produced) ELSE RenderTag

(* `full': the payload is the desired one; `saw': what the guards read;    *)
(* `update': the rulesets it found to replace.                             *)
NoCommand == [kind |-> "none", pc |-> "idle", full |-> FALSE, saw |-> {}, update |-> {}]

Kinds == {"none", "provision", "complete", "rulesets"}
Requests == {"idle", "create", "readClassic", "readRules", "protect", "clear", "merge", "actions",
             "security", "push", "findBranch", "sendBranch", "findTag", "sendTag"}
Reports == {"nothing", "before", "unprotected", "unscaffolded", "partial", "provisioned",
            "protected", "unmodeled", "owned", "undeclared", "failed", "applied", "degraded"}

Init ==
    /\ \/ main = "absent" /\ clone = "none"
       \/ main = "scaffolded" /\ clone = "declared"
    /\ classic = {} /\ rulesets = {} /\ toggles = {}
    /\ offers \in SUBSET {"security", "tag_name_pattern"}
    /\ cmd = NoCommand /\ report = "nothing" /\ touched = FALSE /\ moves = 0

-----------------------------------------------------------------------------
(* How a command starts, goes on and ends.                                 *)

Starts(kind, pc, full) ==
    /\ cmd.kind = "none"
    /\ cmd' = [NoCommand EXCEPT !.kind = kind, !.pc = pc, !.full = full]
    /\ touched' = FALSE
    /\ UNCHANGED <<remote, clone, report, moves>>

Ends(said) == cmd' = NoCommand /\ report' = said

GoesTo(pc) == cmd' = [cmd EXCEPT !.pc = pc] /\ UNCHANGED report

(* Faulty: says how far it got from the last stage begun, not finished.    *)
SaidByStageBegun(c) ==
    CASE c.kind # "provision" -> "failed"
      [] c.pc = "create" -> "before"
      [] ~c.full /\ c.pc # "push" -> "unscaffolded"
      [] OTHER -> "partial"

(* What a command says when it cannot go on from here: provision_repo      *)
(* returns how far it got, and cmd_provision words it.                     *)
SaidOnFailure(c) ==
    CASE c.kind # "provision" -> "failed"
      [] c.pc = "create" -> "before"
      [] ~c.full /\ c.pc # "push" -> "unprotected"
      [] ~c.full /\ c.pc = "push" -> "unscaffolded"
      [] OTHER -> "partial"

(* A request took effect; its answer arrives, or does not in time.         *)
AnsweredOrNot(arrives) == arrives \/ Ends(SaidOnFailure(cmd))

(* apply_settings refuses; complete-protection tells its reasons apart.    *)
Refuses(why) == Ends(IF cmd.kind = "complete" THEN why ELSE SaidOnFailure(cmd))

-----------------------------------------------------------------------------
(* The commands.                                                           *)

Provision == Starts("provision", "create", FALSE)

(* create_repo, with a README; a repository that exists already is an      *)
(* error like any other.                                                   *)
Create ==
    /\ cmd.pc = "create" /\ main = "absent"
    /\ main' = "readme"
    /\ AnsweredOrNot(GoesTo("readClassic"))
    /\ UNCHANGED <<classic, rulesets, toggles, offers>>

CompleteProtection ==
    \/ clone = "declared" /\ Starts("complete", "readClassic", TRUE)
    \/ /\ clone = "bare" /\ cmd.kind = "none"
       /\ Ends("undeclared") /\ touched' = FALSE
       /\ UNCHANGED <<remote, clone, moves>>

ApplyRulesets == clone = "declared" /\ Starts("rulesets", "findBranch", FALSE)

(* The two reads of apply_settings.                                        *)
ReadClassic ==
    /\ cmd.pc = "readClassic" /\ main # "absent"
    /\ cmd' = [cmd EXCEPT !.saw = classic, !.pc = "readRules"]
    /\ UNCHANGED <<remote, report>>

(* Faulty: names a stage there is no code for.                             *)
AfterBranchMisnamed == IF cmd.full THEN "repository" ELSE "push"

(* The minimal payload has no toggles.                                     *)
AfterBranch == IF cmd.full THEN "merge" ELSE "push"

(* Faulty: clears the classic reviews whatever rule a ruleset has.         *)
ReadRulesAndClear ==
    /\ cmd.pc = "readRules"
    /\ IF Unmodeled(cmd.saw, rulesets) THEN Refuses("unmodeled")
       ELSE IF ~HasModeledRule(rulesets) THEN GoesTo("protect")
       ELSE IF ~AsDesired(Payload(cmd), cmd.saw, rulesets) THEN Refuses("owned")
       ELSE GoesTo(IF \E c \in cmd.saw : c.reviews # {} THEN "clear" ELSE AfterBranch)
    /\ UNCHANGED remote

(* ...and what it decides from them.                                       *)
ReadRules ==
    /\ cmd.pc = "readRules"
    /\ IF Unmodeled(cmd.saw, rulesets) THEN Refuses("unmodeled")
       ELSE IF ~HasModeledRule(rulesets) THEN GoesTo("protect")
       ELSE IF ~AsDesired(Payload(cmd), cmd.saw, rulesets) THEN Refuses("owned")
       ELSE IF PullRequestRules(rulesets) # {} /\ \E c \in cmd.saw : c.reviews # {}
            THEN GoesTo("clear")
       ELSE GoesTo(AfterBranch)
    /\ UNCHANGED remote

ProtectBranch ==
    /\ cmd.pc = "protect"
    /\ classic' = Put(Payload(cmd))
    /\ AnsweredOrNot(GoesTo(AfterBranch))
    /\ UNCHANGED <<main, rulesets, toggles, offers>>

(* The DELETE of the classic reviews that a ruleset has taken over.        *)
ClearReviews ==
    /\ cmd.pc = "clear" /\ classic # {}
    /\ classic' = {[c EXCEPT !.reviews = {}] : c \in classic}
    /\ AnsweredOrNot(GoesTo(AfterBranch))
    /\ UNCHANGED <<main, rulesets, toggles, offers>>

WriteToggles ==
    /\ cmd.pc \in {"merge", "actions"}
    /\ toggles' = toggles \cup {cmd.pc}
    /\ AnsweredOrNot(GoesTo(IF cmd.pc = "merge" THEN "actions" ELSE "security"))
    /\ UNCHANGED <<main, classic, rulesets, offers>>

Applied == Ends(IF cmd.kind = "provision" THEN "provisioned" ELSE "protected")

(* An unavailable feature is skipped and noted, not an error.              *)
WriteSecurity ==
    /\ cmd.pc = "security"
    /\ IF "security" \in offers
       THEN toggles' = toggles \cup {"security"} /\ AnsweredOrNot(Applied)
       ELSE UNCHANGED toggles /\ Applied
    /\ UNCHANGED <<main, classic, rulesets, offers>>

(* Whether GitHub accepts a direct push to the default branch.             *)
PushIsBlocked ==
    \/ \E c \in classic : c.other \/ (c.admins /\ (c.reviews # {} \/ c.checks # {}))
    \/ \E s \in ActiveRules(rulesets) : s.reviews # {} \/ s.checks # {}

(* scaffold_push: clone, scaffold, commit, push.                           *)
PushScaffold ==
    /\ cmd.pc = "push" /\ ~PushIsBlocked
    /\ main' = "scaffolded"
    /\ \/ cmd' = [cmd EXCEPT !.full = TRUE, !.pc = "readClassic"] /\ UNCHANGED report
       \/ Ends(SaidOnFailure(cmd))
    /\ UNCHANGED <<classic, rulesets, toggles, offers>>

(* upsert_ruleset lists the rulesets, then replaces one or creates one.    *)
FindRuleset ==
    /\ cmd.pc \in {"findBranch", "findTag"}
    /\ cmd' = [cmd EXCEPT !.update = Match(RulesetFor(cmd.pc), rulesets),
                          !.pc = IF @ = "findBranch" THEN "sendBranch" ELSE "sendTag"]
    /\ UNCHANGED <<remote, report>>

(* What is sent, the second time without the rule GitHub does not offer.   *)
Sent(payload) == IF payload.more \subseteq offers \cup {"code_scanning"}
                 THEN payload ELSE Degraded(payload)

(* A ruleset to replace must still be there under its id, though someone   *)
(* may have edited it; a new one must not exist yet.                       *)
SendRuleset ==
    LET payload == RulesetFor(cmd.pc)
        Same(s) == \E u \in cmd.update : s.name = u.name /\ s.target = u.target
        old == {s \in rulesets : Same(s)}
    IN  /\ cmd.pc \in {"sendBranch", "sendTag"}
        /\ cmd.update = {} => Match(payload, rulesets) = {}
        /\ cmd.update # {} => old # {}
        /\ rulesets' = (rulesets \ old) \cup {Sent(payload)}
        /\ AnsweredOrNot(IF cmd.pc = "sendBranch" THEN GoesTo("findTag")
                         ELSE Ends(IF Sent(payload) = payload THEN "applied" ELSE "degraded"))
        /\ UNCHANGED <<main, classic, toggles, offers>>

(* A request that has no effect: refused, failed or timed out.             *)
RequestFails == cmd.kind # "none" /\ Ends(SaidOnFailure(cmd)) /\ UNCHANGED remote

Killed == cmd.kind # "none" /\ Ends("nothing") /\ UNCHANGED remote

Step ==
    /\ \/ Create \/ ReadClassic \/ ReadRules \/ ProtectBranch \/ ClearReviews
       \/ WriteToggles \/ WriteSecurity \/ PushScaffold
       \/ FindRuleset \/ SendRuleset \/ RequestFails \/ Killed
    /\ UNCHANGED <<clone, touched, moves>>

-----------------------------------------------------------------------------
(* Everyone else, and the operator by hand.                                *)

Clone ==
    /\ cmd.kind = "none" /\ main # "absent"
    /\ clone' = IF main = "scaffolded" THEN "declared" ELSE "bare"
    /\ UNCHANGED <<remote, cmd, report, touched, moves>>

Move(kind) ==
    /\ kind \in World /\ main # "absent" /\ moves < MaxMoves
    /\ moves' = moves + 1 /\ touched' = TRUE
    /\ UNCHANGED <<offers, clone, cmd, report>>

EditClassic ==
    /\ Move("classic")
    /\ \E c \in classic :
          \/ classic' = {}
          \/ classic' \in {{[c EXCEPT !.other = TRUE]}, {[c EXCEPT !.loose = TRUE]},
                           {[c EXCEPT !.admins = FALSE]}, {[c EXCEPT !.blocks = {}]}}
          \/ \E r \in c.reviews :
                classic' \in {{[c EXCEPT !.reviews = {[r EXCEPT !.exempt = TRUE]}]},
                              {[c EXCEPT !.reviews = {[r EXCEPT !.owners = TRUE]}]},
                              {[c EXCEPT !.reviews = {[r EXCEPT !.count = MaxReviews]}]}}
    /\ UNCHANGED <<main, rulesets, toggles>>

EditRuleset ==
    /\ Move("ruleset")
    /\ \E s \in rulesets :
          rulesets' \in {rulesets \ {s},
                         (rulesets \ {s}) \cup {[s EXCEPT !.active = FALSE]},
                         (rulesets \ {s}) \cup {[s EXCEPT !.bypass = TRUE]},
                         (rulesets \ {s}) \cup {[s EXCEPT !.covers = FALSE]},
                         (rulesets \ {s}) \cup {[s EXCEPT !.checks = {}, !.reviews = {}]}}
    /\ UNCHANGED <<main, classic, toggles>>

(* Someone's own rulesets: one that bears the name of ours, others for the *)
(* branch, one of which asks for the reviews and checks that ours does.    *)
Foreign ==
    {[RenderTag EXCEPT !.name = "protect"],
     [RenderTag EXCEPT !.name = "theirs", !.target = "branch", !.more = {}],
     [RenderTag EXCEPT !.name = "theirs", !.target = "branch", !.more = {"unmodeled"}],
     [RenderBranch(Approvals, Template, Produced) EXCEPT !.name = "theirs"]}

AddRuleset ==
    /\ Move("foreign")
    /\ \E s \in Foreign :
          /\ \A t \in rulesets : t.name # s.name \/ t.target # s.target
          /\ rulesets' = rulesets \cup {s}
    /\ UNCHANGED <<main, classic, toggles>>

EditToggles ==
    /\ Move("toggle")
    /\ \E t \in toggles : toggles' = toggles \ {t}
    /\ UNCHANGED <<main, classic, rulesets>>

(* The operator scaffolds by hand, and a pull request of it is merged.     *)
MergeScaffold ==
    /\ Move("merge")
    /\ main' = "scaffolded"
    /\ UNCHANGED <<classic, rulesets, toggles>>

Others == EditClassic \/ EditRuleset \/ AddRuleset \/ EditToggles \/ MergeScaffold

Next == Provision \/ CompleteProtection \/ ApplyRulesets \/ Clone \/ Step \/ Others

Spec == Init /\ [][Next]_vars

-----------------------------------------------------------------------------

TypeOK ==
    /\ main \in {"absent", "readme", "scaffolded"}
    /\ classic \in Optional(Classic)
    /\ rulesets \in SUBSET Ruleset
    /\ toggles \in SUBSET ToggleGroups
    /\ offers \in SUBSET {"security", "tag_name_pattern"}
    /\ clone \in {"none", "bare", "declared"}
    /\ cmd \in [kind : Kinds, pc : Requests, full : BOOLEAN, saw : Optional(Classic),
                update : SUBSET Ruleset]
    /\ report \in Reports
    /\ touched \in BOOLEAN
    /\ moves \in 0..MaxMoves

(* The order of the stages: unless someone else has intervened, the first  *)
(* direct push of provision meets no gate that would reject it.            *)
FirstPushIsNotBlocked == cmd.pc = "push" /\ ~touched => ~PushIsBlocked

HasDesiredProtection ==
    /\ AsDesired(Desired, classic, rulesets)
    /\ ToggleGroups \ toggles \subseteq {"security"} \ offers

(* However far a command came, with whichever requests failing or losing   *)
(* their answers, what it says is true of the repository: a repository     *)
(* called partially provisioned keeps the minimal protection, one called   *)
(* protected has every desired setting that GitHub offers it, and rulesets *)
(* said to be applied cover the branch, even if theirs had been re-scoped, *)
(* and show no drift, or just the rule GitHub refused.                     *)
ReportIsTrue ==
    cmd.kind = "none" /\ ~touched =>
        /\ report \in {"unscaffolded", "partial"} => Ops \subseteq MapBranch(classic, rulesets).blocks
        /\ report \in {"partial", "provisioned"} => main = "scaffolded"
        /\ report \in {"provisioned", "protected"} => HasDesiredProtection
        /\ report \in {"applied", "degraded"} =>
              RenderBranch(Approvals, Template, Produced) \in ActiveRules(rulesets)
        /\ report = "applied" => Drifted(DesiredRulesets, rulesets) = {}
        /\ report = "degraded" => Drifted(DesiredRulesets, rulesets) = {RenderTag}

(* The branch is gated by our ruleset, and nobody may bypass it.           *)
GatedByOurs ==
    \E s \in ActiveRules(rulesets) :
        s.name = "protect" /\ ~s.bypass /\ s.reviews # {} /\ s.blocks = Ops /\ Produced \subseteq s.checks

(* Our ruleset was re-scoped, and the branch is out of its conditions.     *)
OursIsElsewhere == \E s \in rulesets : s.name = "protect" /\ s.target = "branch" /\ ~s.covers

GatedByOthers ==
    (\E c \in classic : c.reviews # {}) \/ \E s \in ActiveRules(rulesets) : s.name = "theirs" /\ s.reviews # {}

(* Two readings vouch for each other: when the flat settings are as        *)
(* desired and no ruleset has drifted, nobody escapes classic protection   *)
(* as an admin or by an exemption, and our ruleset gates the branch for    *)
(* everybody.  Neither reading sees that ours was re-scoped; then reviews  *)
(* are still asked for, by classic protection, which nobody escapes, or by *)
(* a ruleset of others, whose bypasses nothing compares.                   *)
CleanReadingHidesNoBypass ==
    main # "absent" /\ AsDesired(Desired, classic, rulesets)
                    /\ Drifted(DesiredRulesets, rulesets) = {} =>
        /\ \A c \in classic : c.admins /\ \A r \in c.reviews : ~r.exempt
        /\ GatedByOurs \/ (OursIsElsewhere /\ GatedByOthers)

(* The gates of classic protection that the settings model has no key for. *)
Gates(protection) ==
    UNION {{g \in {"other", "loose"} : c[g]} \cup
           UNION {{g \in {"exempt", "owners"} : r[g]} : r \in c.reviews} : c \in protection}

(* The PUT replaces everything, but no command takes away a gate that was  *)
(* there when the guards read the branch, whether the PUT or the clearing  *)
(* of the reviews would do it; only one that appeared in between is lost.  *)
OnlyLateProtectionIsDropped ==
    [][moves' = moves /\ ~(Gates(classic) \subseteq Gates(classic'))
         => ~(Gates(classic) \subseteq Gates(cmd.saw))]_vars

(* apply-rulesets replaces Aviato's own rulesets only: not one of another  *)
(* name, nor one of the same name for another kind of ref.                 *)
OthersRulesetsAreSpared ==
    [][moves' = moves =>
        \A s \in rulesets \ rulesets' :
            \E d \in DesiredRulesets : s.name = d.name /\ s.target = d.target]_vars

(* A branch that has its desired protection keeps it through any command,  *)
(* also in between its requests: when a ruleset takes over, the classic    *)
(* reviews are cleared only if they are not what requires the reviews.     *)
(* (Where the template names a check that nothing produces, apply-rulesets *)
(* does undo it: see RulesetAdviceHelps.)                                  *)
SettledStaysSettled ==
    [][~touched' /\ AsDesired(Desired, classic, rulesets)
         => AsDesired(Desired, classic', rulesets')]_vars

=============================================================================
