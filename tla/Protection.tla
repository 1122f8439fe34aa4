------------------------------ MODULE Protection ------------------------------
(***************************************************************************)
(* What protects a repository's default branch, how Aviato reads it into   *)
(* the flat settings it compares, and what it writes back.  GitHub keeps   *)
(* protection on two surfaces that do not know of each other: the classic  *)
(* protection of the branch, replaced as a whole by one PUT, and rulesets  *)
(* (aviato/github_platform.py, aviato/rulesets.py).                        *)
(*                                                                         *)
(* A set with at most one element stands for what may be absent.           *)
(***************************************************************************)
EXTENDS Naturals, FiniteSets

CONSTANTS
    Checks,       (* the contexts of status checks                         *)
    MaxReviews    (* bound on the approvals that can be required           *)

ASSUME ProtectionAssumption ==
    /\ MaxReviews \in Nat
    /\ IsFiniteSet(Checks)

Ops == {"force_push", "deletion"}
Optional(S) == {X \in SUBSET S : \A x, y \in X : x = y}

(* The flat keys of branch protection.  Not every desired map has all.     *)
FlatMap == [pr : BOOLEAN, reviews : 0..MaxReviews, stale : BOOLEAN, threads : BOOLEAN,
            admins : BOOLEAN, blocks : SUBSET Ops, checks : SUBSET Checks]

(* Classic protection.  `exempt': somebody may merge without review;       *)
(* `owners': another review gate that is not modeled.  `other': push       *)
(* restrictions, linear history, a lock...; `loose': checks that are not   *)
(* strict, or bound to an app.                                             *)
Classic == [reviews : Optional([count : 0..MaxReviews, stale : BOOLEAN,
                                exempt : BOOLEAN, owners : BOOLEAN]),
            threads : BOOLEAN, admins : BOOLEAN, blocks : SUBSET Ops,
            checks : SUBSET Checks, loose : BOOLEAN, other : BOOLEAN]

(* A ruleset.  `target' is the kind of refs it is for; `covers': its       *)
(* ref-name conditions include the default branch, or the release tags.    *)
(* `more' are its rules of other types: code_scanning is modeled,          *)
(* tag_name_pattern is for tags, anything else is "unmodeled".             *)
Ruleset == [name : {"protect", "tags", "theirs"}, target : {"branch", "tag"}, covers : BOOLEAN,
            active : BOOLEAN, bypass : BOOLEAN, reviews : Optional([count : 0..MaxReviews]), blocks : SUBSET Ops,
            checks : SUBSET Checks, more : SUBSET {"code_scanning", "tag_name_pattern", "unmodeled"}]

-----------------------------------------------------------------------------
(* Reading.                                                                *)

(* The rulesets whose rules GitHub, which evaluates their conditions,      *)
(* reports as active for the branch.                                       *)
ActiveRules(rulesets) == {s \in rulesets : s.active /\ s.target = "branch" /\ s.covers}

HasModeledRule(rulesets) ==
    \E s \in ActiveRules(rulesets) :
        s.reviews # {} \/ s.blocks # {} \/ s.checks # {} \/ "code_scanning" \in s.more

PullRequestRules(rulesets) == UNION {s.reviews : s \in ActiveRules(rulesets)}

(* Faulty: a classic toggle that is off is forgotten as soon as a ruleset  *)
(* has a rule.                                                             *)
AnyRulesetBindsAdmins(classic, rulesets) ==
    HasModeledRule(rulesets) \/ \E c \in classic : c.admins

AdminsAreSubject(classic, rulesets) ==
    \/ \E c \in classic : c.admins
    \/ classic = {} /\ HasModeledRule(rulesets)

(* map_branch_settings.  A pull_request rule hides the classic reviews; an *)
(* exemption on the classic surface hides any requirement.  Our rulesets'  *)
(* rules always drop stale reviews and require resolved threads.           *)
MapBranch(classic, rulesets) ==
    LET rule == PullRequestRules(rulesets)
        old == UNION {c.reviews : c \in classic}
        exempt == \E r \in old : r.exempt
    IN  [pr      |-> ~exempt /\ (rule # {} \/ old # {}),
         reviews |-> IF exempt THEN 0
                     ELSE IF rule # {} THEN (CHOOSE r \in rule : TRUE).count
                     ELSE IF old # {} THEN (CHOOSE r \in old : TRUE).count ELSE 0,
         stale   |-> rule # {} \/ \E r \in old : r.stale,
         threads |-> rule # {} \/ \E c \in classic : c.threads,
         admins  |-> AdminsAreSubject(classic, rulesets),
         blocks  |-> UNION ({c.blocks : c \in classic} \cup {s.blocks : s \in ActiveRules(rulesets)}),
         checks  |-> UNION ({c.checks : c \in classic} \cup {s.checks : s \in ActiveRules(rulesets)})]

-----------------------------------------------------------------------------
(* Writing.                                                                *)

(* Faulty: overlooks the review gates the PUT cannot carry.                *)
UnmodeledButReviews(classic, rulesets) ==
    \/ \E c \in classic : c.other \/ c.loose
    \/ \E s \in ActiveRules(rulesets) : "unmodeled" \in s.more

(* What the PUT would drop or shadow: apply_settings refuses.              *)
Unmodeled(classic, rulesets) ==
    \/ \E c \in classic : c.other \/ c.loose \/ \E r \in c.reviews : r.exempt \/ r.owners
    \/ \E s \in ActiveRules(rulesets) : "unmodeled" \in s.more

(* The classic protection that the wholesale PUT leaves                    *)
(* (to_branch_protection_payload); absent keys get its defaults.           *)
Put(desired) ==
    LET Key(k, default) == IF k \in DOMAIN desired THEN desired[k] ELSE default
    IN  {[reviews |-> IF Key("pr", FALSE)
                      THEN {[count |-> Key("reviews", 1), stale |-> Key("stale", FALSE),
                             exempt |-> FALSE, owners |-> FALSE]}
                      ELSE {},
          threads |-> Key("threads", FALSE), admins |-> Key("admins", TRUE),
          blocks |-> Key("blocks", {}), checks |-> Key("checks", {}),
          loose |-> FALSE, other |-> FALSE]}

(* Whether the branch already has the desired value of every desired key.  *)
AsDesired(desired, classic, rulesets) ==
    \A k \in DOMAIN desired : MapBranch(classic, rulesets)[k] = desired[k]

(* Faulty: asks for a pull request from the start.                         *)
MinimalWithReviews == [pr |-> TRUE, blocks |-> Ops]

(* minimal_settings: the floor under which a scaffold can be pushed.       *)
Minimal == [pr |-> FALSE, blocks |-> Ops]

-----------------------------------------------------------------------------
(* Rulesets.                                                               *)

(* The rendered rulesets: the template's rules and checks, the approvals   *)
(* of the profile and the checks of the profile besides the template's.    *)
RenderBranch(approvals, template, extra) ==
    [name |-> "protect", target |-> "branch", covers |-> TRUE, active |-> TRUE, bypass |-> FALSE,
     reviews |-> {[count |-> approvals]}, blocks |-> Ops,
     checks |-> template \cup extra, more |-> {"code_scanning"}]

RenderTag ==
    [name |-> "tags", target |-> "tag", covers |-> TRUE, active |-> TRUE, bypass |-> FALSE,
     reviews |-> {}, blocks |-> Ops, checks |-> {}, more |-> {"tag_name_pattern"}]

(* What is sent again when GitHub does not offer the rule for tag names.   *)
Degraded(payload) == [payload EXCEPT !.more = @ \ {"tag_name_pattern"}]

(* ruleset_content_drift: additions on the live side are no drift, except  *)
(* an actor who may bypass it; another count of approvals is.  Conditions  *)
(* are not compared, so a ruleset that was re-scoped shows no drift.       *)
ContentDrift(desired, live) ==
    \/ ~live.active \/ live.bypass
    \/ ~(desired.reviews \subseteq live.reviews /\ desired.blocks \subseteq live.blocks)
    \/ ~(desired.checks \subseteq live.checks /\ desired.more \subseteq live.more)

(* drifted_ruleset_names: a ruleset is found by its name and kind of ref.  *)
Drifted(desired, rulesets) ==
    {d \in desired : \A s \in rulesets :
        s.name = d.name /\ s.target = d.target => ContentDrift(d, s)}

(* Faulty: the first ruleset of that name.                                 *)
MatchByName(payload, rulesets) == {s \in rulesets : s.name = payload.name}

(* upsert_ruleset: the rulesets the payload may replace.                   *)
Match(payload, rulesets) ==
    {s \in rulesets : s.name = payload.name /\ s.target = payload.target}

=============================================================================
