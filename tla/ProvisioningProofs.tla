-------------------------- MODULE ProvisioningProofs --------------------------
(***************************************************************************)
(* What holds of the direct protection commands whatever the profile asks  *)
(* for, however many checks there are and however often others act: what   *)
(* they say is true, what they may replace or drop, and that a branch with *)
(* its desired protection keeps it.                                        *)
(***************************************************************************)
EXTENDS Provisioning, TLAPS

USE ProtectionAssumption, ProvisioningAssumption

-----------------------------------------------------------------------------
(* Facts about the data.                                                   *)

LEMMA OptionalType ==
    ASSUME NEW S
    PROVE  /\ {} \in Optional(S)
           /\ \A x \in S : {x} \in Optional(S)
           /\ \A X \in Optional(S) : X \subseteq S /\ \A x, y \in X : x = y
BY DEF Optional

(* What is sent to the classic surface is classic protection.              *)
LEMMA PutType ==
    ASSUME NEW c
    PROVE  Put(Payload(c)) \in Optional(Classic)
<1>. DEFINE R == [count : 0..MaxReviews, stale : BOOLEAN, exempt : BOOLEAN, owners : BOOLEAN]
<1>1. CASE c.full
  <2>. DEFINE old == [count |-> Approvals, stale |-> TRUE, exempt |-> FALSE, owners |-> FALSE]
              new == [reviews |-> {old}, threads |-> TRUE, admins |-> TRUE, blocks |-> Ops,
                      checks |-> Produced, loose |-> FALSE, other |-> FALSE]
  <2>1. Put(Payload(c)) = {new}
    BY <1>1 DEF Put, Payload, Desired
  <2>2. {old} \in Optional(R)
    BY OptionalType
  <2>3. new \in Classic
    BY <2>2 DEF Classic
  <2>. HIDE DEF new
  <2>. QED
    BY <2>1, <2>3, OptionalType
<1>2. CASE ~c.full
  <2>. DEFINE new == [reviews |-> {}, threads |-> FALSE, admins |-> TRUE, blocks |-> Ops,
                      checks |-> {}, loose |-> FALSE, other |-> FALSE]
  <2>1. Put(Payload(c)) = {new}
    BY <1>2 DEF Put, Payload, Minimal
  <2>2. new \in Classic
    BY OptionalType DEF Classic
  <2>. HIDE DEF new
  <2>. QED
    BY <2>1, <2>2, OptionalType
<1>. QED
  BY <1>1, <1>2

(* What is sent to the ruleset surface is a ruleset of Aviato's.           *)
LEMMA RulesetType ==
    ASSUME NEW pc
    PROVE  /\ RulesetFor(pc) \in DesiredRulesets
           /\ Sent(RulesetFor(pc)) \in Ruleset
           /\ Sent(RulesetFor(pc)).name = RulesetFor(pc).name
           /\ Sent(RulesetFor(pc)).target = RulesetFor(pc).target
<1>. DEFINE branch == RenderBranch(Approvals, Template, Produced)
<1>1. {[count |-> Approvals]} \in Optional([count : 0..MaxReviews])
  BY OptionalType
<1>2. branch \in Ruleset
  BY <1>1 DEF RenderBranch, Ruleset, Ops
<1>3. RenderTag \in Ruleset
  BY OptionalType DEF RenderTag, Ruleset, Ops
<1>4. RulesetFor(pc) \in {branch, RenderTag}
  BY DEF RulesetFor
<1>. HIDE DEF branch
<1>5. ASSUME NEW s \in Ruleset
      PROVE  Degraded(s) \in Ruleset /\ Degraded(s).name = s.name /\ Degraded(s).target = s.target
  BY DEF Degraded, Ruleset
<1>. QED
  BY <1>2, <1>3, <1>4, <1>5 DEF Sent, DesiredRulesets, branch

(* What others add is a ruleset, for tags or under another name.           *)
LEMMA ForeignType ==
    /\ Foreign \subseteq Ruleset
    /\ \A s \in Foreign : s.reviews \subseteq {[count |-> Approvals]} /\ s.name # "tags"
<1>. DEFINE branch == RenderBranch(Approvals, Template, Produced)
<1>1. branch \in Ruleset /\ RenderTag \in Ruleset
  <2>1. {[count |-> Approvals]} \in Optional([count : 0..MaxReviews])
    BY OptionalType
  <2>. QED
    BY <2>1, OptionalType DEF RenderBranch, RenderTag, Ruleset, Ops
<1>2. branch.reviews = {[count |-> Approvals]} /\ RenderTag.reviews = {}
  BY DEF RenderBranch, RenderTag
<1>. DEFINE copy == [branch EXCEPT !.name = "theirs"]
            alike == [RenderTag EXCEPT !.name = "protect"]
            plain == [RenderTag EXCEPT !.name = "theirs", !.target = "branch", !.more = {}]
            other == [RenderTag EXCEPT !.name = "theirs", !.target = "branch", !.more = {"unmodeled"}]
<1>3. Foreign = {alike, plain, other, copy}
  BY DEF Foreign
<1>. HIDE DEF branch
<1>4. /\ copy \in Ruleset /\ copy.reviews = branch.reviews /\ copy.name = "theirs"
      /\ alike \in Ruleset /\ alike.reviews = RenderTag.reviews /\ alike.name = "protect"
      /\ plain \in Ruleset /\ plain.reviews = RenderTag.reviews /\ plain.name = "theirs"
      /\ other \in Ruleset /\ other.reviews = RenderTag.reviews /\ other.name = "theirs"
  BY <1>1 DEF Ruleset
<1>. HIDE DEF copy, alike, plain, other
<1>. QED
  BY <1>2, <1>3, <1>4

(* Clearing the reviews, and what others do to the classic protection.     *)
LEMMA ClearedType ==
    ASSUME NEW X \in Optional(Classic)
    PROVE  {[c EXCEPT !.reviews = {}] : c \in X} \in Optional(Classic)
<1>. DEFINE Y == {[c EXCEPT !.reviews = {}] : c \in X}
<1>1. ASSUME NEW c \in X PROVE [c EXCEPT !.reviews = {}] \in Classic
  <2>1. c \in Classic
    BY OptionalType
  <2>2. {} \in Optional([count : 0..MaxReviews, stale : BOOLEAN,
                         exempt : BOOLEAN, owners : BOOLEAN])
    BY OptionalType
  <2>. QED
    BY <2>1, <2>2 DEF Classic
<1>2. \A x, y \in X : x = y
  BY OptionalType
<1>3. \A x, y \in Y : x = y
  BY <1>2
<1>4. Y \in SUBSET Classic
  BY <1>1
<1>. HIDE DEF Y
<1>5. Y \in Optional(Classic)
  BY <1>3, <1>4 DEF Optional
<1>. QED
  BY <1>5 DEF Y

(* What others do to the classic protection leaves classic protection.     *)
LEMMA EditType ==
    ASSUME NEW X \in Optional(Classic), NEW c \in X
    PROVE  /\ {[c EXCEPT !.other = TRUE]} \in Optional(Classic)
           /\ {[c EXCEPT !.loose = TRUE]} \in Optional(Classic)
           /\ {[c EXCEPT !.admins = FALSE]} \in Optional(Classic)
           /\ {[c EXCEPT !.blocks = {}]} \in Optional(Classic)
           /\ \A r \in c.reviews :
                /\ {[c EXCEPT !.reviews = {[r EXCEPT !.exempt = TRUE]}]} \in Optional(Classic)
                /\ {[c EXCEPT !.reviews = {[r EXCEPT !.owners = TRUE]}]} \in Optional(Classic)
                /\ {[c EXCEPT !.reviews = {[r EXCEPT !.count = MaxReviews]}]}
                     \in Optional(Classic)
<1>. DEFINE R == [count : 0..MaxReviews, stale : BOOLEAN, exempt : BOOLEAN, owners : BOOLEAN]
<1>1. c \in Classic
  BY OptionalType
<1>2. /\ [c EXCEPT !.other = TRUE] \in Classic
      /\ [c EXCEPT !.loose = TRUE] \in Classic
      /\ [c EXCEPT !.admins = FALSE] \in Classic
      /\ [c EXCEPT !.blocks = {}] \in Classic
  BY <1>1 DEF Classic
<1>3. ASSUME NEW r \in R PROVE [c EXCEPT !.reviews = {r}] \in Classic
  <2>1. {r} \in Optional(R)
    BY OptionalType
  <2>. QED
    BY <1>1, <2>1 DEF Classic
<1>4. ASSUME NEW r \in c.reviews
      PROVE  /\ [r EXCEPT !.exempt = TRUE] \in R
             /\ [r EXCEPT !.owners = TRUE] \in R
             /\ [r EXCEPT !.count = MaxReviews] \in R
  <2>1. c.reviews \in Optional(R)
    BY <1>1 DEF Classic
  <2>2. r \in R
    <3>. HIDE DEF R
    <3>. QED
      BY <1>4, <2>1, OptionalType
  <2>3. MaxReviews \in 0..MaxReviews
    OBVIOUS
  <2>. QED
    BY <2>2, <2>3
<1>5. ASSUME NEW r \in c.reviews
      PROVE  /\ [c EXCEPT !.reviews = {[r EXCEPT !.exempt = TRUE]}] \in Classic
             /\ [c EXCEPT !.reviews = {[r EXCEPT !.owners = TRUE]}] \in Classic
             /\ [c EXCEPT !.reviews = {[r EXCEPT !.count = MaxReviews]}] \in Classic
  <2>. HIDE DEF R
  <2>. QED
    BY <1>3, <1>4, <1>5
<1>6. \A x \in Classic : {x} \in Optional(Classic)
  BY OptionalType
<1>. QED
  BY <1>2, <1>5, <1>6

-----------------------------------------------------------------------------
(* Types.                                                                  *)

Commands == [kind : Kinds, pc : Requests, full : BOOLEAN, saw : Optional(Classic),
             update : SUBSET Ruleset]

(* How commands start, go on and end.                                      *)
LEMMA CommandType ==
    ASSUME TypeOK
    PROVE  /\ \A kind \in Kinds, pc \in Requests, full \in BOOLEAN :
                Starts(kind, pc, full) => TypeOK'
           /\ \A said \in Reports : Ends(said) => cmd' \in Commands /\ report' \in Reports
           /\ \A pc \in Requests : GoesTo(pc) => cmd' \in Commands /\ report' \in Reports
           /\ \A c : SaidOnFailure(c) \in Reports
           /\ \A why \in Reports : Refuses(why) => cmd' \in Commands /\ report' \in Reports
<1>1. NoCommand \in Commands
  BY OptionalType DEF NoCommand, Commands, Kinds, Requests
<1>2. ASSUME NEW said \in Reports, Ends(said) PROVE cmd' \in Commands /\ report' \in Reports
  BY <1>1, <1>2 DEF Ends
<1>3. \A c : SaidOnFailure(c) \in Reports
  BY DEF SaidOnFailure, Reports
<1>4. ASSUME NEW kind \in Kinds, NEW pc \in Requests, NEW full \in BOOLEAN,
             Starts(kind, pc, full)
      PROVE  TypeOK'
  <2>1. [NoCommand EXCEPT !.kind = kind, !.pc = pc, !.full = full] \in Commands
    BY <1>1 DEF Commands
  <2>. QED
    BY <1>4, <2>1 DEF TypeOK, Starts, remote, Commands
<1>5. ASSUME NEW pc \in Requests, GoesTo(pc) PROVE cmd' \in Commands /\ report' \in Reports
  BY <1>5 DEF GoesTo, TypeOK, Commands
<1>6. ASSUME NEW why \in Reports, Refuses(why) PROVE cmd' \in Commands /\ report' \in Reports
  BY <1>2, <1>3, <1>6 DEF Refuses
<1>. QED
  BY <1>2, <1>3, <1>4, <1>5, <1>6

LEMMA TypeInit == Init => TypeOK
<1>1. NoCommand \in Commands
  BY OptionalType DEF NoCommand, Commands, Kinds, Requests
<1>2. {} \in Optional(Classic)
  BY OptionalType
<1>. SUFFICES ASSUME Init PROVE TypeOK
  OBVIOUS
<1>3. cmd \in Commands
  BY <1>1 DEF Init
<1>4. classic \in Optional(Classic) /\ rulesets \in SUBSET Ruleset
  BY <1>2 DEF Init
<1>5. /\ main \in {"absent", "readme", "scaffolded"} /\ clone \in {"none", "bare", "declared"}
      /\ report \in Reports /\ touched \in BOOLEAN
  BY DEF Init, Reports
<1>6. toggles \in SUBSET ToggleGroups /\ moves \in 0..MaxMoves
  BY DEF Init
<1>7. offers \in SUBSET {"security", "tag_name_pattern"}
  BY DEF Init
<1>. QED
  BY <1>3, <1>4, <1>5, <1>6, <1>7 DEF TypeOK, Commands

LEMMA TypeStep == TypeOK /\ [Next]_vars => TypeOK'
<1>. SUFFICES ASSUME TypeOK, [Next]_vars PROVE TypeOK'
  OBVIOUS
<1>. DEFINE CmdOK == cmd' \in Commands /\ report' \in Reports
            RemoteOK == /\ main' \in {"absent", "readme", "scaffolded"}
                        /\ classic' \in Optional(Classic)
                        /\ rulesets' \in SUBSET Ruleset
                        /\ toggles' \in SUBSET ToggleGroups
                        /\ offers' \in SUBSET {"security", "tag_name_pattern"}
<1>1. CASE UNCHANGED vars
  BY <1>1 DEF vars, remote, TypeOK
<1>2. CASE Provision
  BY <1>2, CommandType DEF Provision, Kinds, Requests
<1>3. CASE CompleteProtection
  <2>1. CASE Starts("complete", "readClassic", TRUE)
    BY <2>1, CommandType DEF Kinds, Requests
  <2>2. CASE Ends("undeclared") /\ touched' = FALSE /\ UNCHANGED <<remote, clone, moves>>
    <3>1. CmdOK
      BY <2>2, CommandType DEF Reports
    <3>. QED
      BY <2>2, <3>1 DEF TypeOK, remote, Commands
  <2>. QED
    BY <1>3, <2>1, <2>2 DEF CompleteProtection
<1>4. CASE ApplyRulesets
  BY <1>4, CommandType DEF ApplyRulesets, Kinds, Requests
<1>5. CASE Clone
  BY <1>5 DEF Clone, TypeOK, remote
<1>6. CASE Step
  <2>1. ASSUME Create PROVE CmdOK /\ RemoteOK
    BY <2>1, CommandType DEF Create, AnsweredOrNot, Requests, TypeOK
  <2>2. ASSUME ReadClassic PROVE CmdOK /\ RemoteOK
    BY <2>2 DEF ReadClassic, Commands, Requests, remote, TypeOK
  <2>3. ASSUME ReadRules PROVE CmdOK /\ RemoteOK
    <3>1. CmdOK
      BY <2>3, CommandType DEF ReadRules, AfterBranch, Requests, Reports
    <3>. QED
      BY <2>3, <3>1 DEF ReadRules, remote, TypeOK
  <2>4. ASSUME ProtectBranch PROVE CmdOK /\ RemoteOK
    <3>1. CmdOK
      BY <2>4, CommandType DEF ProtectBranch, AnsweredOrNot, AfterBranch, Requests
    <3>. QED
      BY <2>4, <3>1, PutType DEF ProtectBranch, TypeOK
  <2>5. ASSUME ClearReviews PROVE CmdOK /\ RemoteOK
    <3>1. CmdOK
      BY <2>5, CommandType DEF ClearReviews, AnsweredOrNot, AfterBranch, Requests
    <3>. QED
      BY <2>5, <3>1, ClearedType DEF ClearReviews, TypeOK
  <2>6. ASSUME WriteToggles PROVE CmdOK /\ RemoteOK
    <3>1. CmdOK
      BY <2>6, CommandType DEF WriteToggles, AnsweredOrNot, Requests
    <3>. QED
      BY <2>6, <3>1 DEF WriteToggles, ToggleGroups, TypeOK
  <2>7. ASSUME WriteSecurity PROVE CmdOK /\ RemoteOK
    <3>1. CmdOK
      BY <2>7, CommandType DEF WriteSecurity, AnsweredOrNot, Applied, Reports
    <3>. QED
      BY <2>7, <3>1 DEF WriteSecurity, ToggleGroups, TypeOK
  <2>8. ASSUME PushScaffold PROVE CmdOK /\ RemoteOK
    <3>1. CmdOK
      <4>1. CASE cmd' = [cmd EXCEPT !.full = TRUE, !.pc = "readClassic"] /\ UNCHANGED report
        BY <4>1 DEF TypeOK, Commands, Requests
      <4>. QED
        BY <2>8, <4>1, CommandType DEF PushScaffold
    <3>. QED
      BY <2>8, <3>1 DEF PushScaffold, TypeOK
  <2>9. ASSUME FindRuleset PROVE CmdOK /\ RemoteOK
    <3>1. Match(RulesetFor(cmd.pc), rulesets) \in SUBSET Ruleset
      BY DEF Match, TypeOK
    <3>. QED
      BY <2>9, <3>1 DEF FindRuleset, TypeOK, remote, Commands, Requests
  <2>10. ASSUME SendRuleset PROVE CmdOK /\ RemoteOK
    <3>1. CmdOK
      BY <2>10, CommandType DEF SendRuleset, AnsweredOrNot, Requests, Reports
    <3>2. rulesets' \subseteq rulesets \cup {Sent(RulesetFor(cmd.pc))}
      BY <2>10 DEF SendRuleset
    <3>. QED
      BY <2>10, <3>1, <3>2, RulesetType DEF SendRuleset, TypeOK
  <2>11. ASSUME RequestFails \/ Killed PROVE CmdOK /\ RemoteOK
    <3>1. CmdOK
      BY <2>11, CommandType DEF RequestFails, Killed, Reports
    <3>. QED
      BY <2>11, <3>1 DEF RequestFails, Killed, remote, TypeOK
  <2>12. CmdOK /\ RemoteOK
    BY <1>6, <2>1, <2>2, <2>3, <2>4, <2>5, <2>6, <2>7, <2>8, <2>9, <2>10, <2>11 DEF Step
  <2>. QED
    BY <1>6, <2>12 DEF Step, TypeOK, Commands
<1>7. CASE Others
  <2>1. ASSUME NEW kind, Move(kind)
        PROVE  /\ moves' \in 0..MaxMoves /\ touched' \in BOOLEAN
               /\ UNCHANGED <<offers, clone, cmd, report>>
    BY <2>1 DEF Move, TypeOK
  <2>2. CASE EditClassic
    <3>1. classic' \in Optional(Classic)
      <4>1. PICK c \in classic : EditClassic!2!(c)
        BY <2>2 DEF EditClassic
      <4>2. classic \in Optional(Classic) /\ {} \in Optional(Classic)
        BY OptionalType DEF TypeOK
      <4>3. /\ {[c EXCEPT !.other = TRUE]} \in Optional(Classic)
            /\ {[c EXCEPT !.loose = TRUE]} \in Optional(Classic)
            /\ {[c EXCEPT !.admins = FALSE]} \in Optional(Classic)
            /\ {[c EXCEPT !.blocks = {}]} \in Optional(Classic)
        BY <4>2, EditType
      <4>4. ASSUME NEW r \in c.reviews
            PROVE  /\ {[c EXCEPT !.reviews = {[r EXCEPT !.exempt = TRUE]}]} \in Optional(Classic)
                   /\ {[c EXCEPT !.reviews = {[r EXCEPT !.owners = TRUE]}]} \in Optional(Classic)
                   /\ {[c EXCEPT !.reviews = {[r EXCEPT !.count = MaxReviews]}]}
                        \in Optional(Classic)
        BY <4>2, EditType
      <4>. QED
        BY <4>1, <4>2, <4>3, <4>4
    <3>. QED
      BY <2>1, <2>2, <3>1 DEF EditClassic, TypeOK
  <2>3. CASE EditRuleset
    <3>1. ASSUME NEW s \in Ruleset
          PROVE  /\ [s EXCEPT !.active = FALSE] \in Ruleset
                 /\ [s EXCEPT !.bypass = TRUE] \in Ruleset
                 /\ [s EXCEPT !.covers = FALSE] \in Ruleset
                 /\ [s EXCEPT !.checks = {}, !.reviews = {}] \in Ruleset
      BY OptionalType DEF Ruleset
    <3>2. PICK s \in rulesets : EditRuleset!2!(s)
      BY <2>3 DEF EditRuleset
    <3>3. rulesets \subseteq Ruleset /\ s \in Ruleset
      BY DEF TypeOK
    <3>4. rulesets' \in SUBSET Ruleset
      BY <3>1, <3>2, <3>3
    <3>. QED
      BY <2>1, <2>3, <3>4 DEF EditRuleset, TypeOK
  <2>4. CASE AddRuleset
    <3>1. Foreign \subseteq Ruleset
      BY ForeignType
    <3>2. rulesets' \in SUBSET Ruleset
      BY <2>4, <3>1 DEF AddRuleset, TypeOK
    <3>. QED
      BY <2>1, <2>4, <3>2 DEF AddRuleset, TypeOK
  <2>5. CASE EditToggles
    BY <2>1, <2>5 DEF EditToggles, TypeOK
  <2>6. CASE MergeScaffold
    BY <2>1, <2>6 DEF MergeScaffold, TypeOK
  <2>. QED
    BY <1>7, <2>2, <2>3, <2>4, <2>5, <2>6 DEF Others
<1>. QED
  BY <1>1, <1>2, <1>3, <1>4, <1>5, <1>6, <1>7 DEF Next

(* The state of the repository, of the operator's checkout and of the      *)
(* command in progress keep their types.                                   *)
THEOREM TypeCorrect == Spec => []TypeOK
<1>1. Init => TypeOK
  BY TypeInit
<1>2. TypeOK /\ [Next]_vars => TypeOK'
  BY TypeStep
<1>. QED
  BY <1>1, <1>2, PTL DEF Spec

-----------------------------------------------------------------------------
(* What commands take away.                                                *)

(* A command goes on only from a reading without gates that the PUT would  *)
(* drop, and replaces only rulesets with the name and target of its own.   *)
ReadingIsPlain == cmd.pc \in {"protect", "clear"} => Gates(cmd.saw) = {}
UpdatesItsOwn ==
    \A u \in cmd.update : \E d \in DesiredRulesets : u.name = d.name /\ u.target = d.target

Careful == TypeOK /\ ReadingIsPlain /\ UpdatesItsOwn

LEMMA NoGates ==
    ASSUME NEW protection, NEW theirs, ~Unmodeled(protection, theirs),
           protection \in Optional(Classic)
    PROVE  Gates(protection) = {}
<1>1. ASSUME NEW c \in protection
      PROVE  {g \in {"other", "loose"} : c[g]} = {}
  BY <1>1 DEF Unmodeled
<1>2. ASSUME NEW c \in protection, NEW r \in c.reviews
      PROVE  {g \in {"exempt", "owners"} : r[g]} = {}
  BY <1>2 DEF Unmodeled
<1>3. ASSUME NEW c \in protection
      PROVE  UNION {{g \in {"exempt", "owners"} : r[g]} : r \in c.reviews} = {}
  BY <1>2
<1>4. \A g : g \notin Gates(protection)
  BY <1>1, <1>3 DEF Gates
<1>. QED
  BY <1>4

LEMMA CarefulInit == Init => Careful
BY TypeInit DEF Init, Careful, ReadingIsPlain, UpdatesItsOwn, NoCommand

LEMMA CarefulStep == Careful /\ [Next]_vars => Careful'
<1>. SUFFICES ASSUME Careful, [Next]_vars PROVE ReadingIsPlain' /\ UpdatesItsOwn'
  BY TypeStep DEF Careful
<1>1. TypeOK /\ ReadingIsPlain /\ UpdatesItsOwn
  BY DEF Careful
<1>2. CASE UNCHANGED cmd
  BY <1>1, <1>2 DEF ReadingIsPlain, UpdatesItsOwn
<1>3. CASE cmd'.update = {} /\ cmd'.pc \notin {"protect", "clear"}
  BY <1>3 DEF ReadingIsPlain, UpdatesItsOwn
<1>4. CASE cmd'.update = cmd.update /\ cmd'.pc \notin {"protect", "clear"}
  BY <1>1, <1>4 DEF ReadingIsPlain, UpdatesItsOwn
<1>5. CASE ReadRules
  <2>1. CASE ~Unmodeled(cmd.saw, rulesets) /\ cmd'.saw = cmd.saw /\ cmd'.update = cmd.update
    <3>1. Gates(cmd.saw) = {}
      BY <1>1, <2>1, NoGates DEF TypeOK
    <3>. QED
      BY <1>1, <2>1, <3>1 DEF ReadingIsPlain, UpdatesItsOwn
  <2>2. CASE Ends("unmodeled") \/ Ends("owned") \/ Ends(SaidOnFailure(cmd))
    BY <1>3, <2>2 DEF Ends, NoCommand
  <2>. QED
    BY <1>1, <1>5, <2>1, <2>2 DEF ReadRules, Refuses, GoesTo, TypeOK
<1>6. CASE FindRuleset
  <2>1. cmd'.update = Match(RulesetFor(cmd.pc), rulesets) /\ cmd'.pc \notin {"protect", "clear"}
    BY <1>1, <1>6 DEF FindRuleset, TypeOK
  <2>. QED
    BY <2>1, RulesetType DEF Match, ReadingIsPlain, UpdatesItsOwn
<1>7. ASSUME NEW said, Ends(said) PROVE cmd'.update = {} /\ cmd'.pc \notin {"protect", "clear"}
  BY <1>7 DEF Ends, NoCommand
<1>8. ASSUME NEW pc, GoesTo(pc), pc \notin {"protect", "clear"}
      PROVE  cmd'.update = cmd.update /\ cmd'.pc \notin {"protect", "clear"}
  BY <1>1, <1>8 DEF GoesTo, TypeOK
<1>9. CASE Step
  <2>1. CASE Create
    BY <1>3, <1>4, <1>7, <1>8, <2>1 DEF Create, AnsweredOrNot
  <2>2. CASE ReadClassic
    BY <1>1, <1>4, <2>2 DEF ReadClassic, TypeOK
  <2>3. CASE ProtectBranch
    BY <1>3, <1>4, <1>7, <1>8, <2>3 DEF ProtectBranch, AnsweredOrNot, AfterBranch
  <2>4. CASE ClearReviews
    BY <1>3, <1>4, <1>7, <1>8, <2>4 DEF ClearReviews, AnsweredOrNot, AfterBranch
  <2>5. CASE WriteToggles
    BY <1>3, <1>4, <1>7, <1>8, <2>5 DEF WriteToggles, AnsweredOrNot
  <2>6. CASE WriteSecurity
    BY <1>3, <1>7, <2>6 DEF WriteSecurity, AnsweredOrNot, Applied
  <2>7. CASE PushScaffold
    BY <1>1, <1>3, <1>4, <1>7, <2>7 DEF PushScaffold, TypeOK
  <2>8. CASE SendRuleset
    BY <1>3, <1>4, <1>7, <1>8, <2>8 DEF SendRuleset, AnsweredOrNot
  <2>9. CASE RequestFails \/ Killed
    BY <1>3, <1>7, <2>9 DEF RequestFails, Killed
  <2>. QED
    BY <1>5, <1>6, <1>9, <2>1, <2>2, <2>3, <2>4, <2>5, <2>6, <2>7, <2>8, <2>9 DEF Step
<1>10. ASSUME NEW kind, NEW pc, NEW full, Starts(kind, pc, full), pc \notin {"protect", "clear"}
       PROVE  cmd'.update = {} /\ cmd'.pc \notin {"protect", "clear"}
  BY <1>10 DEF Starts, NoCommand
<1>11. CASE Provision \/ CompleteProtection \/ ApplyRulesets
  BY <1>3, <1>7, <1>10, <1>11 DEF Provision, CompleteProtection, ApplyRulesets
<1>12. CASE Clone \/ Others \/ UNCHANGED vars
  BY <1>2, <1>12 DEF Clone, Others, EditClassic, EditRuleset, AddRuleset, EditToggles,
                     MergeScaffold, Move, vars
<1>. QED
  BY <1>9, <1>11, <1>12 DEF Next

(* Others are counted.                                                     *)
LEMMA OthersAreCounted ==
    ASSUME TypeOK, Others
    PROVE  moves' # moves
<1>1. moves \in Nat
  BY DEF TypeOK
<1>2. moves' = moves + 1
  BY DEF Others, EditClassic, EditRuleset, AddRuleset, EditToggles, MergeScaffold, Move
<1>. QED
  BY <1>1, <1>2

(* apply-rulesets replaces only what it found under the name and target of *)
(* one of its own rulesets, whoever edits rulesets in between.             *)
THEOREM SparesOthers == Spec => OthersRulesetsAreSpared
<1>. DEFINE Spares == moves' = moves =>
              \A s \in rulesets \ rulesets' :
                  \E d \in DesiredRulesets : s.name = d.name /\ s.target = d.target
<1>1. Init => Careful
  BY CarefulInit
<1>2. Careful /\ [Next]_vars => Careful'
  BY CarefulStep
<1>3. Careful /\ [Next]_vars => [Spares]_vars
  <2>. SUFFICES ASSUME Careful, Next, moves' = moves PROVE Spares
    OBVIOUS
  <2>1. CASE SendRuleset
    <3>1. \A s \in rulesets \ rulesets' :
             \E u \in cmd.update : s.name = u.name /\ s.target = u.target
      BY <2>1 DEF SendRuleset
    <3>. QED
      BY <3>1 DEF Careful, UpdatesItsOwn
  <2>2. CASE UNCHANGED rulesets
    BY <2>2
  <2>3. SendRuleset \/ UNCHANGED rulesets
    <3>1. CASE Step
      BY <3>1 DEF Step, Create, ReadClassic, ReadRules, ProtectBranch, ClearReviews, WriteToggles,
                  WriteSecurity, PushScaffold, FindRuleset, RequestFails, Killed, remote
    <3>2. CASE ~Step
      BY <3>2, OthersAreCounted DEF Careful, Next, Provision, CompleteProtection, ApplyRulesets,
                                    Starts, Clone, remote
    <3>. QED
      BY <3>1, <3>2
  <2>. QED
    BY <2>1, <2>2, <2>3
<1>. QED
  BY <1>1, <1>2, <1>3, PTL DEF Spec, OthersRulesetsAreSpared

(* No command takes away a gate of the classic protection that its guards  *)
(* had read, with the PUT or with the DELETE of the reviews.               *)
THEOREM DropsOnlyLateProtection == Spec => OnlyLateProtectionIsDropped
<1>. DEFINE Keeps == moves' = moves /\ ~(Gates(classic) \subseteq Gates(classic'))
                       => ~(Gates(classic) \subseteq Gates(cmd.saw))
<1>1. Init => Careful
  BY CarefulInit
<1>2. Careful /\ [Next]_vars => Careful'
  BY CarefulStep
<1>3. Careful /\ [Next]_vars => [Keeps]_vars
  <2>. SUFFICES ASSUME Careful, Next, moves' = moves PROVE Keeps
    OBVIOUS
  <2>1. CASE ProtectBranch \/ ClearReviews
    <3>1. Gates(cmd.saw) = {}
      BY <2>1 DEF ProtectBranch, ClearReviews, Careful, ReadingIsPlain
    <3>. QED
      BY <3>1
  <2>2. CASE UNCHANGED classic
    BY <2>2
  <2>3. ProtectBranch \/ ClearReviews \/ UNCHANGED classic
    <3>1. CASE Step
      BY <3>1 DEF Step, Create, ReadClassic, ReadRules, WriteToggles, SendRuleset,
                  WriteSecurity, PushScaffold, FindRuleset, RequestFails, Killed, remote
    <3>2. CASE ~Step
      BY <3>2, OthersAreCounted DEF Careful, Next, Provision, CompleteProtection, ApplyRulesets,
                                    Starts, Clone, remote
    <3>. QED
      BY <3>1, <3>2
  <2>. QED
    BY <2>1, <2>2, <2>3
<1>. QED
  BY <1>1, <1>2, <1>3, PTL DEF Spec, OnlyLateProtectionIsDropped

-----------------------------------------------------------------------------
(* What the surfaces hold after a request.                                 *)

DesiredReviews == [count |-> Approvals, stale |-> TRUE, exempt |-> FALSE, owners |-> FALSE]

LEMMA PutDesired ==
    Put(Desired) = {[reviews |-> {DesiredReviews}, threads |-> TRUE, admins |-> TRUE,
                     blocks |-> Ops, checks |-> Produced, loose |-> FALSE, other |-> FALSE]}
BY DEF Put, Desired, DesiredReviews

LEMMA PutMinimal ==
    Put(Minimal) = {[reviews |-> {}, threads |-> FALSE, admins |-> TRUE, blocks |-> Ops,
                     checks |-> {}, loose |-> FALSE, other |-> FALSE]}
BY DEF Put, Minimal

(* Either keeps the branch from being force-pushed or deleted.             *)
LEMMA PutBlocks ==
    ASSUME NEW theirs, NEW X \in {Put(Minimal), Put(Desired)}
    PROVE  Ops \subseteq MapBranch(X, theirs).blocks
<1>1. CASE X = Put(Minimal)
  <2>1. Put(Minimal) # {} /\ \A c \in Put(Minimal) : c.blocks = Ops
    BY PutMinimal
  <2>. QED
    BY <1>1, <2>1 DEF MapBranch
<1>2. CASE X = Put(Desired)
  <2>1. Put(Desired) # {} /\ \A c \in Put(Desired) : c.blocks = Ops
    BY PutDesired
  <2>. QED
    BY <1>2, <2>1 DEF MapBranch
<1>. QED
  BY <1>1, <1>2

(* The desired map has all keys of the flat map.                           *)
LEMMA EveryKey ==
    ASSUME NEW X, NEW theirs,
           MapBranch(X, theirs).pr = TRUE, MapBranch(X, theirs).reviews = Approvals,
           MapBranch(X, theirs).stale = TRUE, MapBranch(X, theirs).threads = TRUE,
           MapBranch(X, theirs).admins = TRUE, MapBranch(X, theirs).blocks = Ops,
           MapBranch(X, theirs).checks = Produced
    PROVE  AsDesired(Desired, X, theirs)
<1>. SUFFICES ASSUME NEW k \in DOMAIN Desired
              PROVE  MapBranch(X, theirs)[k] = Desired[k]
  BY DEF AsDesired
<1>1. k \in {"pr", "reviews", "stale", "threads", "admins", "blocks", "checks"}
  BY DEF Desired
<1>2. /\ Desired.pr = TRUE /\ Desired.reviews = Approvals /\ Desired.stale = TRUE
      /\ Desired.threads = TRUE /\ Desired.admins = TRUE /\ Desired.blocks = Ops
      /\ Desired.checks = Produced
  BY DEF Desired
<1>. QED
  BY <1>1, <1>2

(* A branch is as desired after the full PUT, unless a ruleset has a rule. *)
LEMMA PutIsDesired ==
    ASSUME NEW theirs, ~HasModeledRule(theirs)
    PROVE  AsDesired(Desired, Put(Desired), theirs)
<1>. DEFINE X == Put(Desired)
<1>1. PICK c \in X : /\ X = {c} /\ c.reviews = {DesiredReviews} /\ c.threads /\ c.admins
                     /\ c.blocks = Ops /\ c.checks = Produced
  BY PutDesired
<1>. HIDE DEF X
<1>2. \A s \in ActiveRules(theirs) : s.reviews = {} /\ s.blocks = {} /\ s.checks = {}
  BY DEF HasModeledRule
<1>3. PullRequestRules(theirs) = {}
  BY <1>2 DEF PullRequestRules
<1>4. UNION {d.reviews : d \in X} = {DesiredReviews}
  BY <1>1
<1>5. UNION ({d.blocks : d \in X} \cup {s.blocks : s \in ActiveRules(theirs)}) = Ops
  BY <1>1, <1>2
<1>6. UNION ({d.checks : d \in X} \cup {s.checks : s \in ActiveRules(theirs)}) = Produced
  BY <1>1, <1>2
<1>7. AdminsAreSubject(X, theirs) = TRUE
  BY <1>1 DEF AdminsAreSubject
<1>8. /\ \A r \in {DesiredReviews} : ~r.exempt /\ r.stale
      /\ (CHOOSE r \in {DesiredReviews} : TRUE).count = Approvals
  <2>1. (CHOOSE r \in {DesiredReviews} : TRUE) \in {DesiredReviews}
    OBVIOUS
  <2>. QED
    BY <2>1 DEF DesiredReviews
<1>9. /\ MapBranch(X, theirs).pr = TRUE
      /\ MapBranch(X, theirs).reviews = Approvals
      /\ MapBranch(X, theirs).stale = TRUE
      /\ MapBranch(X, theirs).threads = TRUE
      /\ MapBranch(X, theirs).admins = TRUE
      /\ MapBranch(X, theirs).blocks = Ops
      /\ MapBranch(X, theirs).checks = Produced
  BY <1>1, <1>3, <1>4, <1>5, <1>6, <1>7, <1>8 DEF MapBranch
<1>. QED
  BY <1>9, EveryKey DEF X

(* It stays as desired when a ruleset requires the reviews and the classic *)
(* ones are cleared.                                                       *)
LEMMA ClearedIsDesired ==
    ASSUME NEW X, NEW theirs, AsDesired(Desired, X, theirs), PullRequestRules(theirs) # {},
           \A c \in X : c \in Classic
    PROVE  AsDesired(Desired, {[c EXCEPT !.reviews = {}] : c \in X}, theirs)
<1>. DEFINE Y == {[c EXCEPT !.reviews = {}] : c \in X}
            rule == PullRequestRules(theirs)
<1>1. /\ MapBranch(X, theirs).pr = TRUE
      /\ MapBranch(X, theirs).reviews = Approvals
      /\ MapBranch(X, theirs).admins = TRUE
      /\ MapBranch(X, theirs).blocks = Ops
      /\ MapBranch(X, theirs).checks = Produced
  BY DEF AsDesired, Desired
<1>2. \A c \in X : [c EXCEPT !.reviews = {}].reviews = {}
                   /\ [c EXCEPT !.reviews = {}].admins = c.admins
                   /\ [c EXCEPT !.reviews = {}].blocks = c.blocks
                   /\ [c EXCEPT !.reviews = {}].checks = c.checks
  BY DEF Classic
<1>3. /\ \A d \in Y : d.reviews = {} /\ \E c \in X : d.admins = c.admins /\ d.blocks = c.blocks
                                                     /\ d.checks = c.checks
      /\ \A c \in X : \E d \in Y : d.admins = c.admins /\ d.blocks = c.blocks
                                   /\ d.checks = c.checks
  BY <1>2
<1>4. Y = {} <=> X = {}
  OBVIOUS
<1>. HIDE DEF Y
<1>5. UNION {d.reviews : d \in Y} = {}
  BY <1>3
<1>6. UNION {d.blocks : d \in Y} = UNION {c.blocks : c \in X}
  BY <1>3
<1>7. UNION {d.checks : d \in Y} = UNION {c.checks : c \in X}
  BY <1>3
<1>8. AdminsAreSubject(Y, theirs) = AdminsAreSubject(X, theirs)
  BY <1>3, <1>4 DEF AdminsAreSubject
<1>. HIDE DEF rule
<1>9. ~(\E r \in UNION {c.reviews : c \in X} : r.exempt)
  BY <1>1 DEF MapBranch
<1>10. (CHOOSE r \in rule : TRUE).count = Approvals
  BY <1>1, <1>9 DEF MapBranch, rule
<1>11. /\ MapBranch(Y, theirs).pr = TRUE
       /\ MapBranch(Y, theirs).reviews = Approvals
       /\ MapBranch(Y, theirs).stale = TRUE
       /\ MapBranch(Y, theirs).threads = TRUE
  BY <1>5, <1>10 DEF MapBranch, rule
<1>12. /\ MapBranch(Y, theirs).admins = TRUE
       /\ MapBranch(Y, theirs).blocks = Ops
       /\ MapBranch(Y, theirs).checks = Produced
  BY <1>1, <1>6, <1>7, <1>8 DEF MapBranch
<1>. QED
  BY <1>11, <1>12, EveryKey DEF Y

-----------------------------------------------------------------------------
(* What a command has achieved at each of its requests.                    *)

BranchRuleset == RenderBranch(Approvals, Template, Produced)

(* Whatever others do: which command a request belongs to, and that a      *)
(* repository nobody has created has no protection.                        *)
InPlace ==
    /\ cmd.kind = "none" => cmd = NoCommand
    /\ cmd.pc \in {"merge", "actions", "security"} => cmd.full
    /\ cmd.pc \in {"findBranch", "sendBranch", "findTag", "sendTag"} => cmd.kind = "rulesets"
    /\ cmd.pc = "sendTag" => \A u \in cmd.update : u.name = "tags" /\ u.target = "tag"
    /\ main = "absent" => /\ classic = {} /\ rulesets = {} /\ clone = "none"
                          /\ cmd.pc \in {"idle", "create"}

(* As long as others do nothing: what provision has put in place, what the *)
(* guards have read is still so, and what the earlier requests achieved.   *)
ProvisionInPlace ==
    /\ ~cmd.full /\ cmd.pc \in {"readClassic", "readRules", "protect"} =>
          classic = {} /\ rulesets = {}
    /\ cmd.pc = "clear" => cmd.full
    /\ cmd.pc = "push" => classic = Put(Minimal) /\ rulesets = {}
    /\ cmd.kind = "provision" /\ cmd.full =>
          main = "scaffolded" /\ rulesets = {} /\ classic \in {Put(Minimal), Put(Desired)}

ReadingHolds ==
    /\ cmd.pc = "readRules" => cmd.saw = classic
    /\ cmd.pc = "protect" => ~HasModeledRule(rulesets)
    /\ cmd.pc = "clear" => AsDesired(Desired, classic, rulesets) /\ PullRequestRules(rulesets) # {}

Achieved ==
    /\ cmd.pc \in {"merge", "actions", "security"} => AsDesired(Desired, classic, rulesets)
    /\ cmd.pc \in {"actions", "security"} => "merge" \in toggles
    /\ cmd.pc = "security" => "actions" \in toggles
    /\ cmd.pc \in {"findTag", "sendTag"} => BranchRuleset \in rulesets

Told ==
    cmd.kind = "none" =>
        /\ report \in {"unscaffolded", "partial"} => Ops \subseteq MapBranch(classic, rulesets).blocks
        /\ report \in {"partial", "provisioned"} => main = "scaffolded"
        /\ report \in {"provisioned", "protected"} => HasDesiredProtection
        /\ report \in {"applied", "degraded"} => BranchRuleset \in rulesets
        /\ report = "applied" => Drifted(DesiredRulesets, rulesets) = {}
        /\ report = "degraded" => Drifted(DesiredRulesets, rulesets) = {RenderTag}

Undisturbed == ~touched => ProvisionInPlace /\ ReadingHolds /\ Achieved /\ Told

Staged == TypeOK /\ InPlace /\ Undisturbed

LEMMA StagedInit == Init => Staged
<1>. SUFFICES ASSUME Init PROVE InPlace /\ Undisturbed
  BY TypeInit DEF Staged
<1>1. cmd = NoCommand /\ cmd.kind = "none" /\ cmd.pc = "idle" /\ report = "nothing"
  BY DEF Init, NoCommand
<1>. QED
  BY <1>1 DEF Init, InPlace, Undisturbed, ProvisionInPlace, ReadingHolds, Achieved, Told

(* The shape of the command after it started, went on or ended.            *)
LEMMA CommandShape ==
    ASSUME TypeOK
    PROVE  /\ \A kind, pc, full : Starts(kind, pc, full) =>
                cmd' = [kind |-> kind, pc |-> pc, full |-> full, saw |-> {}, update |-> {}]
           /\ \A said : Ends(said) => /\ cmd' = NoCommand /\ cmd'.kind = "none"
                                      /\ cmd'.pc = "idle" /\ report' = said
           /\ \A pc : GoesTo(pc) => /\ cmd'.pc = pc /\ cmd'.kind = cmd.kind
                                    /\ cmd'.full = cmd.full /\ cmd'.saw = cmd.saw
                                    /\ cmd'.update = cmd.update
<1>1. cmd \in Commands
  BY DEF TypeOK, Commands
<1>2. ASSUME NEW kind, NEW pc, NEW full, Starts(kind, pc, full)
      PROVE  cmd' = [kind |-> kind, pc |-> pc, full |-> full, saw |-> {}, update |-> {}]
  BY <1>2 DEF Starts, NoCommand
<1>3. ASSUME NEW said, Ends(said)
      PROVE  cmd' = NoCommand /\ cmd'.kind = "none" /\ cmd'.pc = "idle" /\ report' = said
  BY <1>3 DEF Ends, NoCommand
<1>4. ASSUME NEW pc, GoesTo(pc)
      PROVE  /\ cmd'.pc = pc /\ cmd'.kind = cmd.kind /\ cmd'.full = cmd.full
             /\ cmd'.saw = cmd.saw /\ cmd'.update = cmd.update
  BY <1>1, <1>4 DEF GoesTo, Commands
<1>. QED
  BY <1>2, <1>3, <1>4

LEMMA InPlaceStep == TypeOK /\ InPlace /\ [Next]_vars => InPlace'
<1>. SUFFICES ASSUME TypeOK, InPlace, [Next]_vars PROVE InPlace'
  OBVIOUS
<1>1. CASE UNCHANGED vars
  BY <1>1 DEF InPlace, vars, remote
<1>2. ASSUME NEW said, Ends(said), main' = "absent" => main = "absent" /\ UNCHANGED <<classic, rulesets, clone>>
      PROVE  InPlace'
  <2>1. cmd' = NoCommand /\ cmd'.kind = "none" /\ cmd'.pc = "idle"
    BY <1>2, CommandShape
  <2>. QED
    BY <1>2, <2>1 DEF InPlace
<1>3. ASSUME NEW kind, NEW pc, NEW full, Starts(kind, pc, full), kind # "none",
             pc \in {"create", "readClassic", "findBranch"}, pc = "findBranch" => kind = "rulesets",
             main = "absent" => pc = "create"
      PROVE  InPlace'
  <2>1. cmd'.kind = kind /\ cmd'.pc = pc
    BY <1>3, CommandShape
  <2>2. UNCHANGED <<main, classic, rulesets, clone>>
    BY <1>3 DEF Starts, remote
  <2>. QED
    BY <1>3, <2>1, <2>2 DEF InPlace
<1>4. CASE Provision
  BY <1>3, <1>4 DEF Provision
<1>5. CASE CompleteProtection
  <2>1. clone \in {"declared", "bare"} => main # "absent"
    BY DEF InPlace
  <2>2. CASE Starts("complete", "readClassic", TRUE)
    BY <1>3, <1>5, <2>1, <2>2 DEF CompleteProtection, Starts, Ends
  <2>. QED
    BY <1>2, <1>5, <2>1, <2>2 DEF CompleteProtection, remote
<1>6. CASE ApplyRulesets
  BY <1>3, <1>6 DEF ApplyRulesets, InPlace
<1>7. CASE Clone
  BY <1>7 DEF Clone, InPlace, remote
<1>8. CASE Others
  <2>1. main # "absent" /\ UNCHANGED cmd /\ (main' = main \/ main' = "scaffolded")
    BY <1>8 DEF Others, EditClassic, EditRuleset, AddRuleset, EditToggles, MergeScaffold, Move
  <2>. QED
    BY <2>1 DEF InPlace
<1>9. CASE Step
  <2>1. cmd.pc # "idle" => cmd.kind # "none"
    BY DEF InPlace, NoCommand
  <2>2. ASSUME NEW pc, GoesTo(pc), cmd.kind # "none",
               pc \in {"merge", "actions", "security"} => cmd.full,
               pc \in {"findBranch", "sendBranch", "findTag", "sendTag"} =>
                  cmd.kind = "rulesets" /\ pc # "sendTag",
               main' # "absent"
        PROVE  InPlace'
    <3>1. cmd'.pc = pc /\ cmd'.kind = cmd.kind /\ cmd'.full = cmd.full
      BY <2>2, CommandShape
    <3>. QED
      BY <2>2, <3>1 DEF InPlace
  <2>3. clone' = clone /\ (cmd.pc \notin {"idle", "create"} => main # "absent")
    BY <1>9 DEF Step, InPlace
  <2>4. CASE Create
    BY <1>2, <2>1, <2>2, <2>4 DEF Create, AnsweredOrNot
  <2>5. CASE ReadClassic
    <3>1. cmd'.pc = "readRules" /\ cmd'.kind = cmd.kind /\ main' # "absent"
      BY <2>5 DEF ReadClassic, TypeOK, remote
    <3>. QED
      BY <2>1, <2>5, <3>1 DEF InPlace, ReadClassic
  <2>6. CASE ReadRules
    <3>1. /\ cmd.pc = "readRules" /\ main' = main /\ main # "absent" /\ cmd.kind # "none"
          /\ UNCHANGED <<classic, rulesets>>
      BY <2>1, <2>3, <2>6 DEF ReadRules, remote
    <3>2. AfterBranch \in {"merge", "push"} /\ (AfterBranch = "merge" => cmd.full)
      BY DEF AfterBranch
    <3>3. \/ Refuses("unmodeled") \/ Refuses("owned")
          \/ GoesTo("protect") \/ GoesTo("clear") \/ GoesTo(AfterBranch)
      BY <2>6 DEF ReadRules
    <3>4. CASE Refuses("unmodeled") \/ Refuses("owned")
      <4>1. PICK said : Ends(said)
        BY <3>4 DEF Refuses
      <4>. QED
        BY <1>2, <3>1, <4>1
    <3>. QED
      BY <2>2, <3>1, <3>2, <3>3, <3>4
  <2>7. CASE ProtectBranch \/ ClearReviews
    <3>1. AfterBranch \in {"merge", "push"} /\ (AfterBranch = "merge" => cmd.full)
      BY DEF AfterBranch
    <3>. QED
      BY <1>2, <2>1, <2>2, <2>3, <2>7, <3>1 DEF ProtectBranch, ClearReviews, AnsweredOrNot
  <2>8. CASE WriteToggles
    <3>1. cmd.full
      BY <2>8 DEF WriteToggles, InPlace
    <3>. QED
      BY <1>2, <2>1, <2>2, <2>3, <2>8, <3>1 DEF WriteToggles, AnsweredOrNot
  <2>9. CASE WriteSecurity
    BY <1>2, <2>3, <2>9 DEF WriteSecurity, AnsweredOrNot, Applied
  <2>10. CASE PushScaffold
    <3>1. CASE cmd' = [cmd EXCEPT !.full = TRUE, !.pc = "readClassic"]
      <4>1. cmd'.pc = "readClassic" /\ cmd'.kind = cmd.kind
        BY <3>1 DEF TypeOK
      <4>. QED
        BY <2>1, <2>10, <4>1 DEF InPlace, PushScaffold
    <3>. QED
      BY <1>2, <2>10, <3>1 DEF PushScaffold
  <2>11. CASE FindRuleset
    <3>1. /\ cmd'.update = Match(RulesetFor(cmd.pc), rulesets) /\ cmd'.kind = cmd.kind
          /\ cmd'.pc = IF cmd.pc = "findBranch" THEN "sendBranch" ELSE "sendTag"
      BY <2>11 DEF FindRuleset, TypeOK
    <3>2. cmd'.pc = "sendTag" => \A u \in cmd'.update : u.name = "tags" /\ u.target = "tag"
      BY <2>11, <3>1 DEF FindRuleset, Match, RulesetFor, RenderTag
    <3>. QED
      BY <2>1, <2>3, <2>11, <3>1, <3>2 DEF InPlace, FindRuleset, remote
  <2>12. CASE SendRuleset
    <3>1. cmd.kind = "rulesets" /\ main' = main /\ main # "absent"
      BY <2>3, <2>12 DEF SendRuleset, InPlace
    <3>. QED
      BY <1>2, <2>2, <2>12, <3>1 DEF SendRuleset, AnsweredOrNot
  <2>13. CASE RequestFails \/ Killed
    BY <1>2, <2>3, <2>13 DEF RequestFails, Killed, remote
  <2>. QED
    BY <1>9, <2>4, <2>5, <2>6, <2>7, <2>8, <2>9, <2>10, <2>11, <2>12, <2>13 DEF Step
<1>. QED
  BY <1>1, <1>4, <1>5, <1>6, <1>7, <1>8, <1>9 DEF Next

(* A command that has ended claims nothing but what it told.               *)
LEMMA EndedIsQuiet ==
    ASSUME TypeOK, NEW said, Ends(said)
    PROVE  ProvisionInPlace' /\ ReadingHolds' /\ Achieved'
<1>1. cmd'.kind = "none" /\ cmd'.pc = "idle"
  BY CommandShape
<1>. QED
  BY <1>1 DEF ProvisionInPlace, ReadingHolds, Achieved

(* What is told of a failed command: that the minimal protection is there  *)
(* from the push on, and the scaffold from the full protection on.         *)
LEMMA FailureIsTold ==
    ASSUME Staged, ~touched, Ends(SaidOnFailure(cmd)),
           cmd.pc = "push" => UNCHANGED <<classic, rulesets>>,
           cmd.kind = "provision" /\ cmd.full =>
              classic' \in {Put(Minimal), Put(Desired)} /\ main' = "scaffolded"
    PROVE  Told'
<1>1. report' = SaidOnFailure(cmd) /\ cmd.full \in BOOLEAN /\ ProvisionInPlace
  BY CommandShape DEF Staged, Undisturbed, TypeOK
<1>2. SaidOnFailure(cmd) \in {"failed", "before", "unprotected", "unscaffolded", "partial"}
  BY DEF SaidOnFailure
<1>3. SaidOnFailure(cmd) = "unscaffolded" => cmd.pc = "push"
  BY DEF SaidOnFailure
<1>4. SaidOnFailure(cmd) = "partial" => cmd.kind = "provision" /\ cmd.full
  BY <1>1 DEF SaidOnFailure
<1>5. report' = "unscaffolded" => Ops \subseteq MapBranch(classic', rulesets').blocks
  BY <1>1, <1>3, PutBlocks DEF ProvisionInPlace
<1>6. report' = "partial" => Ops \subseteq MapBranch(classic', rulesets').blocks
                             /\ main' = "scaffolded"
  BY <1>1, <1>4, PutBlocks
<1>. QED
  BY <1>1, <1>2, <1>5, <1>6 DEF Told

(* Once the second ruleset is sent, both are there, or all but the rule    *)
(* that GitHub refused.                                                    *)
LEMMA SentIsTold ==
    ASSUME Staged, ~touched, SendRuleset, cmd.pc = "sendTag"
    PROVE  LET left == Drifted(DesiredRulesets, rulesets')
           IN  /\ left = IF Sent(RenderTag) = RenderTag THEN {} ELSE {RenderTag}
               /\ BranchRuleset \in rulesets'
<1>. DEFINE old == {s \in rulesets : \E u \in cmd.update : s.name = u.name /\ s.target = u.target}
<1>1. /\ cmd.update = {} => Match(RenderTag, rulesets) = {}
      /\ cmd.update # {} => old # {}
      /\ rulesets' = (rulesets \ old) \cup {Sent(RenderTag)}
  BY DEF SendRuleset, RulesetFor
<1>2. \A u \in cmd.update : u.name = "tags" /\ u.target = "tag"
  BY DEF Staged, InPlace
<1>3. BranchRuleset \in rulesets
  BY DEF Staged, Undisturbed, Achieved
<1>4. /\ BranchRuleset.name = "protect" /\ BranchRuleset.target = "branch"
      /\ RenderTag.name = "tags" /\ RenderTag.target = "tag"
      /\ RenderTag.more = {"tag_name_pattern"}
  BY DEF BranchRuleset, RenderBranch, RenderTag
<1>5. Sent(RenderTag).name = "tags" /\ Sent(RenderTag).target = "tag"
  BY <1>4 DEF Sent, Degraded, RenderTag
<1>6. BranchRuleset \in rulesets' /\ Sent(RenderTag) \in rulesets'
  BY <1>1, <1>2, <1>3, <1>4
<1>7. ASSUME NEW s \in rulesets', s.name = "tags", s.target = "tag"
      PROVE  s = Sent(RenderTag)
  BY <1>1, <1>2, <1>4, <1>7 DEF Match
<1>8. ~ContentDrift(BranchRuleset, BranchRuleset) /\ ~ContentDrift(RenderTag, RenderTag)
  BY DEF ContentDrift, BranchRuleset, RenderBranch, RenderTag
<1>9. Sent(RenderTag) # RenderTag => ContentDrift(RenderTag, Sent(RenderTag))
  BY <1>4 DEF Sent, Degraded, ContentDrift, RenderTag
<1>10. DesiredRulesets = {BranchRuleset, RenderTag}
  BY DEF DesiredRulesets, BranchRuleset
<1>11. BranchRuleset \notin Drifted(DesiredRulesets, rulesets')
  BY <1>6, <1>8 DEF Drifted
<1>12. RenderTag \in Drifted(DesiredRulesets, rulesets') <=> Sent(RenderTag) # RenderTag
  BY <1>4, <1>5, <1>6, <1>7, <1>8, <1>9, <1>10 DEF Drifted
<1>13. Drifted(DesiredRulesets, rulesets') \subseteq {BranchRuleset, RenderTag}
  BY <1>10 DEF Drifted
<1>. QED
  BY <1>6, <1>11, <1>12, <1>13

LEMMA UndisturbedStep == Staged /\ [Next]_vars => Undisturbed'
<1>. SUFFICES ASSUME Staged, [Next]_vars, ~touched'
              PROVE  ProvisionInPlace' /\ ReadingHolds' /\ Achieved' /\ Told'
  BY DEF Undisturbed
<1>. DEFINE Still == ProvisionInPlace' /\ ReadingHolds' /\ Achieved' /\ Told'
<1>1. TypeOK /\ InPlace
  BY DEF Staged
<1>2. CASE touched' = touched /\ UNCHANGED <<cmd, report, remote>>
  <2>1. ProvisionInPlace /\ ReadingHolds /\ Achieved /\ Told
    BY <1>2 DEF Staged, Undisturbed
  <2>. QED
    BY <1>2, <2>1 DEF remote, ProvisionInPlace, ReadingHolds, Achieved, Told, HasDesiredProtection
<1>3. ASSUME NEW kind, NEW pc, NEW full, Starts(kind, pc, full), kind # "none",
             pc \in {"create", "readClassic", "findBranch"}, kind = "provision" => ~full,
             pc = "readClassic" => full
      PROVE  Still
  <2>1. cmd'.kind = kind /\ cmd'.pc = pc /\ cmd'.full = full
    BY <1>1, <1>3, CommandShape
  <2>. QED
    BY <1>3, <2>1 DEF ProvisionInPlace, ReadingHolds, Achieved, Told
<1>4. CASE Provision \/ CompleteProtection \/ ApplyRulesets
  <2>1. CASE Ends("undeclared")
    <3>1. report' = "undeclared"
      BY <1>1, <2>1, CommandShape
    <3>. QED
      BY <1>1, <2>1, <3>1, EndedIsQuiet DEF Told
  <2>. QED
    BY <1>3, <1>4, <2>1 DEF Provision, CompleteProtection, ApplyRulesets
<1>5. CASE Clone
  BY <1>2, <1>5 DEF Clone
<1>6. CASE Others
  BY <1>6 DEF Others, EditClassic, EditRuleset, AddRuleset, EditToggles, MergeScaffold, Move
<1>7. CASE Step
  <2>1. touched' = touched /\ ~touched
    BY <1>7 DEF Step
  <2>2. ProvisionInPlace /\ ReadingHolds /\ Achieved
    BY <2>1 DEF Staged, Undisturbed
  <2>3. cmd.pc # "idle" => cmd.kind # "none"
    BY <1>1 DEF InPlace, NoCommand
  <2>4. ASSUME Ends(SaidOnFailure(cmd)),
               cmd.pc = "push" => UNCHANGED <<classic, rulesets>>,
               cmd.kind = "provision" /\ cmd.full =>
                  classic' \in {Put(Minimal), Put(Desired)} /\ main' = "scaffolded"
        PROVE  Still
    BY <1>1, <2>1, <2>4, EndedIsQuiet, FailureIsTold
  <2>5. CASE Create
    <3>1. classic = {} /\ rulesets = {} /\ cmd.pc = "create" /\ ~(cmd.kind = "provision" /\ cmd.full)
      BY <1>1, <2>2, <2>5 DEF Create, InPlace, ProvisionInPlace
    <3>2. CASE GoesTo("readClassic")
      <4>1. cmd'.pc = "readClassic" /\ cmd'.kind = cmd.kind /\ cmd'.full = cmd.full
        BY <1>1, <3>2, CommandShape
      <4>. QED
        BY <2>3, <2>5, <3>1, <4>1 DEF Create, ProvisionInPlace, ReadingHolds, Achieved, Told
    <3>. QED
      BY <2>4, <2>5, <3>1, <3>2 DEF Create, AnsweredOrNot
  <2>6. CASE ReadClassic
    <3>1. /\ cmd'.pc = "readRules" /\ cmd'.kind = cmd.kind /\ cmd'.full = cmd.full
          /\ cmd'.saw = classic
      BY <1>1, <2>6 DEF ReadClassic, TypeOK
    <3>. QED
      BY <2>2, <2>3, <2>6, <3>1
         DEF ReadClassic, remote, ProvisionInPlace, ReadingHolds, Achieved, Told
  <2>7. CASE ReadRules
    <3>1. cmd.pc = "readRules" /\ cmd.saw = classic /\ UNCHANGED <<main, classic, rulesets, toggles>>
      BY <2>2, <2>7 DEF ReadRules, ReadingHolds, remote
    <3>2. HasModeledRule(rulesets) => cmd.full /\ Payload(cmd) = Desired
      BY <2>2, <3>1 DEF ProvisionInPlace, HasModeledRule, ActiveRules, Payload
    <3>3. cmd.kind = "provision" /\ cmd.full =>
             classic' \in {Put(Minimal), Put(Desired)} /\ main' = "scaffolded"
      BY <2>2, <3>1 DEF ProvisionInPlace
    <3>4. ASSUME NEW why \in {"unmodeled", "owned"}, Refuses(why) PROVE Still
      <4>1. CASE Ends(why)
        <5>1. report' = why
          BY <1>1, <4>1, CommandShape
        <5>. QED
          BY <1>1, <4>1, <5>1, EndedIsQuiet DEF Told
      <4>. QED
        BY <2>4, <3>1, <3>3, <3>4, <4>1 DEF Refuses
    <3>5. CASE ~HasModeledRule(rulesets) /\ GoesTo("protect")
      <4>1. cmd'.pc = "protect" /\ cmd'.kind = cmd.kind /\ cmd'.full = cmd.full
        BY <1>1, <3>5, CommandShape
      <4>. QED
        BY <2>2, <2>3, <3>1, <3>5, <4>1 DEF ProvisionInPlace, ReadingHolds, Achieved, Told
    <3>6. CASE /\ HasModeledRule(rulesets) /\ AsDesired(Payload(cmd), cmd.saw, rulesets)
               /\ PullRequestRules(rulesets) # {} /\ GoesTo("clear")
      <4>1. cmd'.pc = "clear" /\ cmd'.kind = cmd.kind /\ cmd'.full = cmd.full
        BY <1>1, <3>6, CommandShape
      <4>. QED
        BY <2>2, <2>3, <3>1, <3>2, <3>6, <4>1 DEF ProvisionInPlace, ReadingHolds, Achieved, Told
    <3>7. CASE /\ HasModeledRule(rulesets) /\ AsDesired(Payload(cmd), cmd.saw, rulesets)
               /\ GoesTo(AfterBranch)
      <4>1. cmd'.pc = "merge" /\ cmd'.kind = cmd.kind /\ cmd'.full = cmd.full
        BY <1>1, <3>2, <3>7, CommandShape DEF AfterBranch
      <4>. QED
        BY <2>2, <2>3, <3>1, <3>2, <3>7, <4>1 DEF ProvisionInPlace, ReadingHolds, Achieved, Told
    <3>. QED
      BY <2>7, <3>4, <3>5, <3>6, <3>7 DEF ReadRules
  <2>8. CASE ProtectBranch
    <3>1. /\ cmd.pc = "protect" /\ ~HasModeledRule(rulesets) /\ classic' = Put(Payload(cmd))
          /\ UNCHANGED <<main, rulesets, toggles>>
      BY <2>2, <2>8 DEF ProtectBranch, ReadingHolds
    <3>2. CASE GoesTo(AfterBranch)
      <4>1. cmd'.pc = AfterBranch /\ cmd'.kind = cmd.kind /\ cmd'.full = cmd.full
        BY <1>1, <3>2, CommandShape
      <4>2. CASE cmd.full
        <5>1. cmd'.pc = "merge" /\ classic' = Put(Desired)
          BY <3>1, <4>1, <4>2 DEF AfterBranch, Payload
        <5>2. AsDesired(Desired, classic', rulesets')
          BY <3>1, <5>1, PutIsDesired
        <5>. QED
          BY <2>2, <2>3, <3>1, <4>1, <4>2, <5>1, <5>2
             DEF ProvisionInPlace, ReadingHolds, Achieved, Told
      <4>3. CASE ~cmd.full
        <5>1. cmd'.pc = "push" /\ classic' = Put(Minimal) /\ rulesets' = {}
          BY <2>2, <3>1, <4>1, <4>3 DEF AfterBranch, Payload, ProvisionInPlace
        <5>. QED
          BY <2>3, <3>1, <4>1, <4>3, <5>1 DEF ProvisionInPlace, ReadingHolds, Achieved, Told
      <4>. QED
        BY <4>2, <4>3
    <3>3. cmd.kind = "provision" /\ cmd.full =>
             classic' \in {Put(Minimal), Put(Desired)} /\ main' = "scaffolded"
      BY <2>2, <3>1 DEF ProvisionInPlace, Payload
    <3>. QED
      BY <2>4, <2>8, <3>1, <3>2, <3>3 DEF ProtectBranch, AnsweredOrNot
  <2>9. CASE ClearReviews
    <3>1. /\ cmd.pc = "clear" /\ cmd.full /\ UNCHANGED <<main, rulesets, toggles>>
          /\ AsDesired(Desired, classic, rulesets) /\ PullRequestRules(rulesets) # {}
          /\ classic' = {[c EXCEPT !.reviews = {}] : c \in classic}
      BY <2>2, <2>9 DEF ClearReviews, ReadingHolds, ProvisionInPlace
    <3>2. cmd.kind # "provision"
      BY <2>2, <3>1 DEF ProvisionInPlace, PullRequestRules, ActiveRules
    <3>3. \A c \in classic : c \in Classic
      BY <1>1, OptionalType DEF TypeOK
    <3>4. AsDesired(Desired, classic', rulesets')
      BY <3>1, <3>3, ClearedIsDesired
    <3>5. CASE GoesTo(AfterBranch)
      <4>1. cmd'.pc = "merge" /\ cmd'.kind = cmd.kind /\ cmd'.full = cmd.full
        BY <1>1, <3>1, <3>5, CommandShape DEF AfterBranch
      <4>. QED
        BY <2>3, <3>1, <3>2, <3>4, <4>1 DEF ProvisionInPlace, ReadingHolds, Achieved, Told
    <3>. QED
      BY <2>4, <2>9, <3>1, <3>2, <3>5 DEF ClearReviews, AnsweredOrNot
  <2>10. CASE WriteToggles
    <3>1. /\ cmd.pc \in {"merge", "actions"} /\ toggles' = toggles \cup {cmd.pc} /\ cmd.full
          /\ UNCHANGED <<main, classic, rulesets>>
      BY <1>1, <2>10 DEF WriteToggles, InPlace
    <3>2. ASSUME GoesTo(IF cmd.pc = "merge" THEN "actions" ELSE "security") PROVE Still
      <4>1. /\ cmd'.pc = (IF cmd.pc = "merge" THEN "actions" ELSE "security")
            /\ cmd'.kind = cmd.kind /\ cmd'.full = cmd.full
        BY <1>1, <3>2, CommandShape
      <4>. QED
        BY <2>2, <2>3, <3>1, <4>1 DEF ProvisionInPlace, ReadingHolds, Achieved, Told
    <3>3. cmd.kind = "provision" /\ cmd.full =>
             classic' \in {Put(Minimal), Put(Desired)} /\ main' = "scaffolded"
      BY <2>2, <3>1 DEF ProvisionInPlace
    <3>. QED
      BY <2>4, <2>10, <3>1, <3>2, <3>3 DEF WriteToggles, AnsweredOrNot
  <2>11. CASE WriteSecurity
    <3>1. /\ cmd.pc = "security" /\ cmd.full /\ UNCHANGED <<main, classic, rulesets, offers>>
          /\ AsDesired(Desired, classic, rulesets) /\ "merge" \in toggles /\ "actions" \in toggles
      BY <1>1, <2>2, <2>11 DEF WriteSecurity, InPlace, Achieved
    <3>2. cmd.kind = "provision" => classic \in {Put(Minimal), Put(Desired)} /\ main = "scaffolded"
      BY <2>2, <3>1 DEF ProvisionInPlace
    <3>3. ASSUME Applied PROVE Still
      <4>1. HasDesiredProtection'
        BY <2>11, <3>1 DEF WriteSecurity, HasDesiredProtection, ToggleGroups
      <4>2. /\ report' = (IF cmd.kind = "provision" THEN "provisioned" ELSE "protected")
            /\ ProvisionInPlace' /\ ReadingHolds' /\ Achieved'
        BY <1>1, <3>3, CommandShape, EndedIsQuiet DEF Applied
      <4>. QED
        BY <3>1, <3>2, <4>1, <4>2 DEF Told
    <3>. QED
      BY <2>4, <2>11, <3>1, <3>2, <3>3 DEF WriteSecurity, AnsweredOrNot
  <2>12. CASE PushScaffold
    <3>1. /\ cmd.pc = "push" /\ classic = Put(Minimal) /\ rulesets = {} /\ main' = "scaffolded"
          /\ UNCHANGED <<classic, rulesets, toggles>>
      BY <2>2, <2>12 DEF PushScaffold, ProvisionInPlace
    <3>2. CASE cmd' = [cmd EXCEPT !.full = TRUE, !.pc = "readClassic"]
      <4>1. cmd'.pc = "readClassic" /\ cmd'.kind = cmd.kind /\ cmd'.full
        BY <1>1, <3>2 DEF TypeOK
      <4>. QED
        BY <2>3, <3>1, <4>1 DEF ProvisionInPlace, ReadingHolds, Achieved, Told
    <3>. QED
      BY <2>4, <2>12, <3>1, <3>2 DEF PushScaffold
  <2>13. CASE FindRuleset
    <3>1. /\ cmd.kind = "rulesets" /\ cmd'.kind = cmd.kind
          /\ cmd'.pc = IF cmd.pc = "findBranch" THEN "sendBranch" ELSE "sendTag"
          /\ UNCHANGED rulesets /\ cmd.pc \in {"findBranch", "findTag"}
      BY <1>1, <2>13 DEF FindRuleset, InPlace, TypeOK, remote
    <3>. QED
      BY <2>2, <3>1 DEF ProvisionInPlace, ReadingHolds, Achieved, Told
  <2>14. CASE SendRuleset
    <3>1. cmd.kind = "rulesets" /\ cmd.pc \in {"sendBranch", "sendTag"}
      BY <1>1, <2>14 DEF SendRuleset, InPlace
    <3>2. CASE cmd.pc = "sendBranch" /\ GoesTo("findTag")
      <4>1. cmd'.pc = "findTag" /\ cmd'.kind = cmd.kind
        BY <1>1, <3>2, CommandShape
      <4>2. Sent(BranchRuleset) = BranchRuleset
        BY DEF Sent, BranchRuleset, RenderBranch
      <4>3. BranchRuleset \in rulesets'
        BY <2>14, <3>2, <4>2 DEF SendRuleset, RulesetFor, BranchRuleset
      <4>. QED
        BY <3>1, <4>1, <4>3 DEF ProvisionInPlace, ReadingHolds, Achieved, Told
    <3>3. ASSUME cmd.pc = "sendTag",
                 Ends(IF Sent(RenderTag) = RenderTag THEN "applied" ELSE "degraded")
          PROVE  Still
      <4>1. /\ Drifted(DesiredRulesets, rulesets') =
                  IF Sent(RenderTag) = RenderTag THEN {} ELSE {RenderTag}
            /\ BranchRuleset \in rulesets'
        BY <2>1, <2>14, <3>3, SentIsTold
      <4>2. report' = IF Sent(RenderTag) = RenderTag THEN "applied" ELSE "degraded"
        BY <1>1, <3>3, CommandShape
      <4>. QED
        BY <1>1, <3>3, <4>1, <4>2, EndedIsQuiet DEF Told
    <3>4. RulesetFor("sendTag") = RenderTag
      BY DEF RulesetFor
    <3>. QED
      BY <2>4, <2>14, <3>1, <3>2, <3>3, <3>4 DEF SendRuleset, AnsweredOrNot
  <2>15. CASE RequestFails \/ Killed
    <3>1. CASE Ends("nothing")
      <4>1. report' = "nothing"
        BY <1>1, <3>1, CommandShape
      <4>. QED
        BY <1>1, <3>1, <4>1, EndedIsQuiet DEF Told
    <3>2. cmd.kind = "provision" /\ cmd.full =>
             classic \in {Put(Minimal), Put(Desired)} /\ main = "scaffolded"
      BY <2>2 DEF ProvisionInPlace
    <3>. QED
      BY <2>4, <2>15, <3>1, <3>2 DEF RequestFails, Killed, remote
  <2>. QED
    BY <1>7, <2>5, <2>6, <2>7, <2>8, <2>9, <2>10, <2>11, <2>12, <2>13, <2>14, <2>15 DEF Step
<1>8. CASE UNCHANGED vars
  BY <1>2, <1>8 DEF vars
<1>. QED
  BY <1>4, <1>5, <1>6, <1>7, <1>8 DEF Next

LEMMA StagedStep == Staged /\ [Next]_vars => Staged'
BY TypeStep, InPlaceStep, UndisturbedStep DEF Staged

(* The first direct push of provision meets no gate, however large the     *)
(* profile's demands are: the PUT before it was the minimal one.           *)
THEOREM FirstPushPasses == Spec => []FirstPushIsNotBlocked
<1>1. Staged => FirstPushIsNotBlocked
  <2>. SUFFICES ASSUME Staged, cmd.pc = "push", ~touched PROVE ~PushIsBlocked
    BY DEF FirstPushIsNotBlocked
  <2>1. classic = Put(Minimal) /\ rulesets = {}
    BY DEF Staged, Undisturbed, ProvisionInPlace
  <2>2. \A c \in classic : ~c.other /\ c.reviews = {} /\ c.checks = {}
    BY <2>1, PutMinimal
  <2>. QED
    BY <2>1, <2>2 DEF PushIsBlocked, ActiveRules
<1>. QED
  BY <1>1, StagedInit, StagedStep, PTL DEF Spec

(* What a command says is true of the repository at every stage at which   *)
(* it can fail, lose an answer or succeed.                                 *)
THEOREM CommandsTellTheTruth == Spec => []ReportIsTrue
<1>1. BranchRuleset \in rulesets =>
         RenderBranch(Approvals, Template, Produced) \in ActiveRules(rulesets)
  BY DEF BranchRuleset, RenderBranch, ActiveRules
<1>2. Staged => ReportIsTrue
  BY <1>1 DEF Staged, Undisturbed, Told, ReportIsTrue
<1>. QED
  BY <1>2, StagedInit, StagedStep, PTL DEF Spec

-----------------------------------------------------------------------------
(* Which rulesets there can be.                                            *)

LEMMA OnlyTheseChangeRulesets ==
    ASSUME [Next]_vars
    PROVE  SendRuleset \/ EditRuleset \/ AddRuleset \/ UNCHANGED rulesets
<1>1. CASE Step
  BY <1>1 DEF Step, Create, ReadClassic, ReadRules, ProtectBranch, ClearReviews, WriteToggles,
              WriteSecurity, PushScaffold, FindRuleset, RequestFails, Killed, remote
<1>2. CASE ~Step
  BY <1>2 DEF Next, Provision, CompleteProtection, ApplyRulesets, Starts, Clone, Others,
              EditClassic, EditToggles, MergeScaffold, vars, remote
<1>. QED
  BY <1>1, <1>2

(* A name and a kind of ref name one ruleset, and apply-rulesets is about  *)
(* to replace the one of its payload.                                      *)
NamesAreKeys ==
    /\ \A s, t \in rulesets : s.name = t.name /\ s.target = t.target => s = t
    /\ \A s \in rulesets : s.name = "tags" => s.target = "tag"
UpdatesThePayload ==
    cmd.pc \in {"sendBranch", "sendTag"} =>
        \A u \in cmd.update : /\ u.name = RulesetFor(cmd.pc).name
                              /\ u.target = RulesetFor(cmd.pc).target

Keyed == TypeOK /\ NamesAreKeys /\ UpdatesThePayload

LEMMA KeyedInit == Init => Keyed
BY TypeInit DEF Init, Keyed, NamesAreKeys, UpdatesThePayload, NoCommand

LEMMA NamesAreKeysStep == Keyed /\ [Next]_vars => NamesAreKeys'
<1>. SUFFICES ASSUME Keyed, [Next]_vars PROVE NamesAreKeys'
  OBVIOUS
<1>1. TypeOK /\ NamesAreKeys /\ UpdatesThePayload
  BY DEF Keyed
<1>2. CASE UNCHANGED rulesets
  BY <1>1, <1>2 DEF NamesAreKeys
<1>3. ASSUME NEW rest \in SUBSET rulesets, NEW new, rulesets' = rest \cup {new},
             \A s \in rest : s.name # new.name \/ s.target # new.target,
             new.name = "tags" => new.target = "tag"
      PROVE  NamesAreKeys'
  BY <1>1, <1>3 DEF NamesAreKeys
<1>4. CASE SendRuleset
  <2>. DEFINE payload == RulesetFor(cmd.pc)
              old == {s \in rulesets : \E u \in cmd.update : s.name = u.name /\ s.target = u.target}
              new == Sent(payload)
  <2>1. /\ cmd.update = {} => Match(payload, rulesets) = {}
        /\ rulesets' = (rulesets \ old) \cup {new}
        /\ cmd.pc \in {"sendBranch", "sendTag"}
    BY <1>4 DEF SendRuleset
  <2>2. new.name = payload.name /\ new.target = payload.target
    BY RulesetType
  <2>3. payload.name = "tags" => payload.target = "tag"
    BY DEF RulesetFor, RenderBranch, RenderTag
  <2>4. \A u \in cmd.update : u.name = payload.name /\ u.target = payload.target
    BY <1>1, <2>1 DEF UpdatesThePayload
  <2>. HIDE DEF payload, new
  <2>5. \A s \in rulesets \ old : s.name # payload.name \/ s.target # payload.target
    <3>1. CASE cmd.update = {}
      BY <2>1, <3>1 DEF Match
    <3>2. CASE cmd.update # {}
      BY <2>4, <3>2
    <3>. QED
      BY <3>1, <3>2
  <2>6. PICK rest \in SUBSET rulesets :
           /\ rulesets' = rest \cup {new}
           /\ \A s \in rest : s.name # payload.name \/ s.target # payload.target
    BY <2>1, <2>5
  <2>. QED
    BY <1>3, <2>2, <2>3, <2>6
<1>5. CASE EditRuleset
  <2>1. PICK s \in rulesets : EditRuleset!2!(s)
    BY <1>5 DEF EditRuleset
  <2>2. s \in Ruleset
    BY <1>1 DEF TypeOK
  <2>. DEFINE off == [s EXCEPT !.active = FALSE]
              lax == [s EXCEPT !.bypass = TRUE]
              away == [s EXCEPT !.covers = FALSE]
              bare == [s EXCEPT !.checks = {}, !.reviews = {}]
  <2>3. \A new \in {off, lax, away, bare} : new.name = s.name /\ new.target = s.target
    BY <2>2 DEF Ruleset
  <2>4. \A x \in rulesets \ {s} : x.name # s.name \/ x.target # s.target
    BY <1>1 DEF NamesAreKeys
  <2>5. s.name = "tags" => s.target = "tag"
    BY <1>1 DEF NamesAreKeys
  <2>6. \/ rulesets' = rulesets \ {s}
        \/ \E new \in {off, lax, away, bare} : rulesets' = (rulesets \ {s}) \cup {new}
    BY <2>1
  <2>. HIDE DEF off, lax, away, bare
  <2>7. CASE rulesets' = rulesets \ {s}
    BY <1>1, <2>7 DEF NamesAreKeys
  <2>8. ASSUME NEW new \in {off, lax, away, bare}, rulesets' = (rulesets \ {s}) \cup {new}
        PROVE  NamesAreKeys'
    <3>1. new.name = s.name /\ new.target = s.target
      BY <2>3
    <3>2. PICK rest \in SUBSET rulesets :
             /\ rulesets' = rest \cup {new}
             /\ \A x \in rest : x.name # s.name \/ x.target # s.target
      BY <2>4, <2>8
    <3>. QED
      BY <1>3, <2>5, <3>1, <3>2
  <2>. QED
    BY <2>6, <2>7, <2>8
<1>6. CASE AddRuleset
  <2>1. PICK s \in Foreign : /\ \A x \in rulesets : x.name # s.name \/ x.target # s.target
                             /\ rulesets' = rulesets \cup {s}
    BY <1>6 DEF AddRuleset
  <2>2. s.name # "tags"
    BY ForeignType
  <2>. QED
    BY <1>3, <2>1, <2>2
<1>. QED
  BY <1>2, <1>4, <1>5, <1>6, OnlyTheseChangeRulesets

LEMMA UpdatesThePayloadStep == Keyed /\ [Next]_vars => UpdatesThePayload'
<1>. SUFFICES ASSUME Keyed, [Next]_vars PROVE UpdatesThePayload'
  OBVIOUS
<1>1. TypeOK /\ UpdatesThePayload
  BY DEF Keyed
<1>2. CASE UNCHANGED cmd
  BY <1>1, <1>2 DEF UpdatesThePayload
<1>3. CASE cmd'.pc \notin {"sendBranch", "sendTag"}
  BY <1>3 DEF UpdatesThePayload
<1>4. \A said : Ends(said) => cmd'.pc \notin {"sendBranch", "sendTag"}
  BY <1>1, CommandShape
<1>5. \A pc : GoesTo(pc) => cmd'.pc = pc
  BY <1>1, CommandShape
<1>6. CASE Step
  <2>1. CASE FindRuleset
    <3>1. /\ cmd'.update = Match(RulesetFor(cmd.pc), rulesets)
          /\ cmd.pc \in {"findBranch", "findTag"}
          /\ cmd'.pc = IF cmd.pc = "findBranch" THEN "sendBranch" ELSE "sendTag"
      BY <1>1, <2>1 DEF FindRuleset, TypeOK
    <3>2. RulesetFor(cmd'.pc) = RulesetFor(cmd.pc)
      BY <3>1 DEF RulesetFor
    <3>. QED
      BY <3>1, <3>2 DEF Match, UpdatesThePayload
  <2>2. CASE Create \/ ProtectBranch \/ ClearReviews
    BY <1>3, <1>4, <1>5, <2>2 DEF Create, ProtectBranch, ClearReviews, AnsweredOrNot, AfterBranch
  <2>3. CASE ReadClassic
    BY <1>1, <1>3, <2>3 DEF ReadClassic, TypeOK
  <2>4. CASE ReadRules
    BY <1>3, <1>4, <1>5, <2>4 DEF ReadRules, Refuses, AfterBranch
  <2>5. CASE WriteToggles \/ WriteSecurity
    BY <1>3, <1>4, <1>5, <2>5 DEF WriteToggles, WriteSecurity, AnsweredOrNot, Applied
  <2>6. CASE PushScaffold
    BY <1>1, <1>3, <1>4, <2>6 DEF PushScaffold, TypeOK
  <2>7. CASE SendRuleset
    BY <1>3, <1>4, <1>5, <2>7 DEF SendRuleset, AnsweredOrNot
  <2>8. CASE RequestFails \/ Killed
    BY <1>3, <1>4, <2>8 DEF RequestFails, Killed
  <2>. QED
    BY <1>6, <2>1, <2>2, <2>3, <2>4, <2>5, <2>6, <2>7, <2>8 DEF Step
<1>7. ASSUME NEW kind, NEW pc, NEW full, Starts(kind, pc, full), pc \notin {"sendBranch", "sendTag"}
      PROVE  cmd'.pc \notin {"sendBranch", "sendTag"}
  BY <1>7 DEF Starts, NoCommand
<1>8. CASE Provision \/ CompleteProtection \/ ApplyRulesets
  BY <1>3, <1>4, <1>7, <1>8 DEF Provision, CompleteProtection, ApplyRulesets
<1>9. CASE Clone \/ Others \/ UNCHANGED vars
  BY <1>2, <1>9 DEF Clone, Others, EditClassic, EditRuleset, AddRuleset, EditToggles,
                    MergeScaffold, Move, vars
<1>. QED
  BY <1>6, <1>8, <1>9 DEF Next

LEMMA KeyedStep == Keyed /\ [Next]_vars => Keyed'
BY TypeStep, NamesAreKeysStep, UpdatesThePayloadStep DEF Keyed

(* A repository whose flat settings are as desired and whose rulesets have *)
(* not drifted lets nobody past classic protection, nor past our ruleset   *)
(* unless that was re-scoped, which no reading shows: then the reviews are *)
(* asked for by classic protection or a ruleset of others.                 *)
THEOREM CleanReadingsVouch == Spec => []CleanReadingHidesNoBypass
<1>1. Keyed => CleanReadingHidesNoBypass
  <2>. SUFFICES ASSUME Keyed, AsDesired(Desired, classic, rulesets),
                       Drifted(DesiredRulesets, rulesets) = {}
                PROVE  /\ \A c \in classic : c.admins /\ \A r \in c.reviews : ~r.exempt
                       /\ GatedByOurs \/ (OursIsElsewhere /\ GatedByOthers)
    BY DEF CleanReadingHidesNoBypass
  <2>1. MapBranch(classic, rulesets).pr = TRUE /\ MapBranch(classic, rulesets).admins = TRUE
    BY DEF AsDesired, Desired
  <2>2. /\ ~\E r \in UNION {c.reviews : c \in classic} : r.exempt
        /\ PullRequestRules(rulesets) # {} \/ UNION {c.reviews : c \in classic} # {}
    BY <2>1 DEF MapBranch
  <2>3. \A c, d \in classic : c = d
    BY OptionalType DEF Keyed, TypeOK
  <2>4. \A c \in classic : c.admins
    BY <2>1, <2>3 DEF MapBranch, AdminsAreSubject
  <2>5. \A c \in classic : \A r \in c.reviews : ~r.exempt
    BY <2>2
  <2>6. BranchRuleset \in DesiredRulesets
    BY DEF DesiredRulesets, BranchRuleset
  <2>7. PICK s \in rulesets : /\ s.name = BranchRuleset.name /\ s.target = BranchRuleset.target
                              /\ ~ContentDrift(BranchRuleset, s)
    BY <2>6 DEF Drifted
  <2>8. /\ BranchRuleset.name = "protect" /\ BranchRuleset.target = "branch"
        /\ BranchRuleset.reviews # {} /\ BranchRuleset.blocks = Ops
        /\ Produced \subseteq BranchRuleset.checks
    BY DEF BranchRuleset, RenderBranch
  <2>9. /\ s.active /\ ~s.bypass /\ s.reviews # {} /\ Ops \subseteq s.blocks
        /\ Produced \subseteq s.checks
    BY <2>7, <2>8 DEF ContentDrift
  <2>10. s \in Ruleset /\ s.blocks \subseteq Ops
    BY DEF Keyed, TypeOK, Ruleset
  <2>11. CASE s.covers
    <3>1. s.blocks = Ops
      BY <2>9, <2>10
    <3>2. GatedByOurs
      BY <2>7, <2>8, <2>9, <2>11, <3>1 DEF GatedByOurs, ActiveRules
    <3>. QED
      BY <2>4, <2>5, <3>2
  <2>12. CASE ~s.covers
    <3>1. OursIsElsewhere
      BY <2>7, <2>8, <2>12 DEF OursIsElsewhere
    <3>2. ASSUME NEW t \in ActiveRules(rulesets)
          PROVE  t.name = "theirs"
      <4>1. t \in rulesets /\ t.target = "branch" /\ t.covers
        BY <3>2 DEF ActiveRules
      <4>2. t.name \in {"protect", "tags", "theirs"}
        BY <4>1 DEF Keyed, TypeOK, Ruleset
      <4>3. t.name # "tags"
        BY <4>1 DEF Keyed, NamesAreKeys
      <4>4. t.name # "protect"
        BY <2>7, <2>8, <2>12, <4>1 DEF Keyed, NamesAreKeys
      <4>. QED
        BY <4>2, <4>3, <4>4
    <3>3. GatedByOthers
      BY <2>2, <3>2 DEF GatedByOthers, PullRequestRules
    <3>. QED
      BY <2>4, <2>5, <3>1, <3>3
  <2>. QED
    BY <2>11, <2>12
<1>. QED
  BY <1>1, KeyedInit, KeyedStep, PTL DEF Spec

-----------------------------------------------------------------------------
(* What apply-rulesets does to a branch that has its desired protection.   *)

(* The rulesets of this repository ask for no other number of approvals    *)
(* than the profile's.                                                     *)
PlainReviews == \A s \in rulesets : s.reviews \subseteq {[count |-> Approvals]}

Settled == Staged /\ Careful /\ PlainReviews

LEMMA PlainReviewsStep == TypeOK /\ PlainReviews /\ [Next]_vars => PlainReviews'
<1>. SUFFICES ASSUME TypeOK, PlainReviews, [Next]_vars PROVE PlainReviews'
  OBVIOUS
<1>1. CASE UNCHANGED rulesets
  BY <1>1 DEF PlainReviews
<1>2. CASE SendRuleset
  <2>1. Sent(RulesetFor(cmd.pc)).reviews \subseteq {[count |-> Approvals]}
    <3>1. ASSUME NEW s \in Ruleset PROVE Degraded(s).reviews = s.reviews
      BY DEF Degraded, Ruleset
    <3>2. RenderBranch(Approvals, Template, Produced).reviews = {[count |-> Approvals]}
      BY DEF RenderBranch
    <3>3. Sent(RulesetFor(cmd.pc)) = RulesetFor(cmd.pc) \/ RulesetFor(cmd.pc) = RenderTag
      BY DEF Sent, RulesetFor, RenderBranch
    <3>4. RenderTag \in Ruleset /\ RenderTag.reviews = {}
      BY OptionalType DEF RenderTag, Ruleset, Ops
    <3>5. RulesetFor(cmd.pc) \in {RenderBranch(Approvals, Template, Produced), RenderTag}
      BY DEF RulesetFor
    <3>6. Sent(RenderTag).reviews = {}
      BY <3>1, <3>4 DEF Sent
    <3>. QED
      BY <3>2, <3>3, <3>4, <3>5, <3>6
  <2>2. rulesets' \subseteq rulesets \cup {Sent(RulesetFor(cmd.pc))}
    BY <1>2 DEF SendRuleset
  <2>. QED
    BY <2>1, <2>2 DEF PlainReviews
<1>3. CASE EditRuleset
  <2>1. PICK s \in rulesets : EditRuleset!2!(s)
    BY <1>3 DEF EditRuleset
  <2>2. s \in Ruleset
    BY DEF TypeOK
  <2>3. /\ [s EXCEPT !.active = FALSE].reviews = s.reviews
        /\ [s EXCEPT !.bypass = TRUE].reviews = s.reviews
        /\ [s EXCEPT !.covers = FALSE].reviews = s.reviews
        /\ [s EXCEPT !.checks = {}, !.reviews = {}].reviews = {}
    BY <2>2 DEF Ruleset
  <2>. QED
    BY <2>1, <2>3 DEF PlainReviews
<1>4. CASE AddRuleset
  <2>1. PICK s \in Foreign : rulesets' = rulesets \cup {s}
    BY <1>4 DEF AddRuleset
  <2>2. s.reviews \subseteq {[count |-> Approvals]}
    BY ForeignType
  <2>. QED
    BY <2>1, <2>2 DEF PlainReviews
<1>. QED
  BY <1>1, <1>2, <1>3, <1>4, OnlyTheseChangeRulesets

LEMMA SettledInit == Init => Settled
BY StagedInit, CarefulInit DEF Settled, Init, PlainReviews

LEMMA SettledStep == Settled /\ [Next]_vars => Settled'
BY StagedStep, CarefulStep, PlainReviewsStep DEF Settled, Staged

(* The flat settings depend on the active rules of the branch only.        *)
LEMMA OnlyActiveRulesCount ==
    ASSUME NEW X, NEW ours, NEW theirs, ActiveRules(ours) = ActiveRules(theirs),
           AsDesired(Desired, X, ours)
    PROVE  AsDesired(Desired, X, theirs)
<1>1. PullRequestRules(ours) = PullRequestRules(theirs)
  BY DEF PullRequestRules
<1>2. AdminsAreSubject(X, ours) = AdminsAreSubject(X, theirs)
  BY DEF AdminsAreSubject, HasModeledRule
<1>3. MapBranch(X, ours) = MapBranch(X, theirs)
  BY <1>1, <1>2 DEF MapBranch
<1>. QED
  BY <1>3 DEF AsDesired

(* The rendered ruleset only repeats what a branch requires that is as     *)
(* desired, as long as the template names no check of its own.             *)
LEMMA RenderedIsDesired ==
    ASSUME Template \subseteq Produced, NEW X \in Optional(Classic),
           NEW ours \in SUBSET Ruleset, NEW rest \in SUBSET ours,
           \A s \in ours : s.reviews \subseteq {[count |-> Approvals]},
           AsDesired(Desired, X, ours)
    PROVE  AsDesired(Desired, X, rest \cup {BranchRuleset})
<1>. DEFINE theirs == rest \cup {BranchRuleset}
            rule == PullRequestRules(theirs)
            own == BranchRuleset
<1>1. /\ MapBranch(X, ours).pr = TRUE
      /\ MapBranch(X, ours).admins = TRUE
      /\ MapBranch(X, ours).blocks = Ops
      /\ MapBranch(X, ours).checks = Produced
  BY DEF AsDesired, Desired
<1>2. /\ own.active /\ own.target = "branch" /\ own.covers /\ own.reviews = {[count |-> Approvals]}
      /\ own.blocks = Ops /\ own.checks = Produced
  BY DEF BranchRuleset, RenderBranch
<1>. HIDE DEF own
<1>3. own \in ActiveRules(theirs)
      /\ \A s \in ActiveRules(theirs) : s = own \/ (s \in ActiveRules(ours) /\ s \in ours)
  BY <1>2 DEF ActiveRules, own
<1>. HIDE DEF theirs
<1>4. rule = {[count |-> Approvals]}
  BY <1>2, <1>3 DEF PullRequestRules
<1>5. (CHOOSE r \in rule : TRUE).count = Approvals
  <2>1. (CHOOSE r \in rule : TRUE) \in rule
    BY <1>4
  <2>. QED
    BY <1>4, <2>1
<1>6. ~(\E r \in UNION {c.reviews : c \in X} : r.exempt)
  BY <1>1 DEF MapBranch
<1>7. /\ MapBranch(X, theirs).pr = TRUE
      /\ MapBranch(X, theirs).reviews = Approvals
      /\ MapBranch(X, theirs).stale = TRUE
      /\ MapBranch(X, theirs).threads = TRUE
  BY <1>4, <1>5, <1>6 DEF MapBranch, rule
<1>8. UNION ({c.blocks : c \in X} \cup {s.blocks : s \in ActiveRules(ours)}) = Ops
  BY <1>1 DEF MapBranch
<1>9. UNION ({c.checks : c \in X} \cup {s.checks : s \in ActiveRules(ours)}) = Produced
  BY <1>1 DEF MapBranch
<1>10. UNION ({c.blocks : c \in X} \cup {s.blocks : s \in ActiveRules(theirs)}) = Ops
  <2>. DEFINE now == {c.blocks : c \in X} \cup {s.blocks : s \in ActiveRules(ours)}
              then == {c.blocks : c \in X} \cup {s.blocks : s \in ActiveRules(theirs)}
  <2>1. own.blocks \in then /\ \A y \in then : y = own.blocks \/ y \in now
    BY <1>3
  <2>2. UNION now = Ops /\ own.blocks = Ops
    BY <1>2, <1>8
  <2>. HIDE DEF now, then
  <2>3. \A y \in then : y \subseteq Ops
    BY <2>1, <2>2
  <2>4. UNION then = Ops
    BY <2>1, <2>2, <2>3
  <2>. QED
    BY <2>4 DEF then
<1>11. UNION ({c.checks : c \in X} \cup {s.checks : s \in ActiveRules(theirs)}) = Produced
  <2>. DEFINE now == {c.checks : c \in X} \cup {s.checks : s \in ActiveRules(ours)}
              then == {c.checks : c \in X} \cup {s.checks : s \in ActiveRules(theirs)}
  <2>1. own.checks \in then /\ \A y \in then : y = own.checks \/ y \in now
    BY <1>3
  <2>2. UNION now = Produced /\ own.checks = Produced
    BY <1>2, <1>9
  <2>. HIDE DEF now, then
  <2>3. \A y \in then : y \subseteq Produced
    BY <2>1, <2>2
  <2>4. UNION then = Produced
    BY <2>1, <2>2, <2>3
  <2>. QED
    BY <2>4 DEF then
<1>12. AdminsAreSubject(X, theirs) = TRUE
  <2>1. AdminsAreSubject(X, ours)
    BY <1>1 DEF MapBranch
  <2>2. HasModeledRule(theirs)
    BY <1>2, <1>3 DEF HasModeledRule
  <2>. QED
    BY <2>1, <2>2 DEF AdminsAreSubject
<1>13. /\ MapBranch(X, theirs).admins = TRUE
       /\ MapBranch(X, theirs).blocks = Ops
       /\ MapBranch(X, theirs).checks = Produced
  BY <1>10, <1>11, <1>12 DEF MapBranch
<1>. QED
  BY <1>7, <1>13, EveryKey DEF theirs

(* A branch without any protection is not as desired.                      *)
LEMMA BareIsNotDesired == ~AsDesired(Desired, {}, {})
<1>1. MapBranch({}, {}).pr = FALSE
  BY DEF MapBranch, PullRequestRules, ActiveRules
<1>2. "pr" \in DOMAIN Desired /\ Desired.pr = TRUE
  BY DEF Desired
<1>. QED
  BY <1>1, <1>2 DEF AsDesired

(* No request of any command takes its desired protection from a branch,   *)
(* between whichever surfaces it is divided; where the template names only *)
(* checks that the profile's pipelines produce.                            *)
THEOREM ProtectionStays ==
    ASSUME Template \subseteq Produced
    PROVE  Spec => SettledStaysSettled
<1>. DEFINE Stays == ~touched' /\ AsDesired(Desired, classic, rulesets)
                       => AsDesired(Desired, classic', rulesets')
<1>1. Init => Settled
  BY SettledInit
<1>2. Settled /\ [Next]_vars => Settled'
  BY SettledStep
<1>3. Settled /\ [Next]_vars => [Stays]_vars
  <2>. SUFFICES ASSUME Settled, Next, ~touched', AsDesired(Desired, classic, rulesets)
                PROVE  AsDesired(Desired, classic', rulesets')
    OBVIOUS
  <2>1. TypeOK /\ InPlace /\ Undisturbed /\ UpdatesItsOwn /\ PlainReviews
    BY DEF Settled, Staged, Careful
  <2>2. CASE UNCHANGED <<classic, rulesets>>
    BY <2>2
  <2>3. CASE ProtectBranch /\ ~touched
    <3>1. /\ ~HasModeledRule(rulesets) /\ classic' = Put(Payload(cmd)) /\ rulesets' = rulesets
          /\ ~cmd.full => classic = {} /\ rulesets = {}
      BY <2>1, <2>3 DEF ProtectBranch, Undisturbed, ReadingHolds, ProvisionInPlace
    <3>2. cmd.full
      BY <3>1, BareIsNotDesired
    <3>. QED
      BY <3>1, <3>2, PutIsDesired DEF Payload
  <2>4. CASE ClearReviews /\ ~touched
    <3>1. /\ PullRequestRules(rulesets) # {} /\ rulesets' = rulesets
          /\ classic' = {[c EXCEPT !.reviews = {}] : c \in classic}
      BY <2>1, <2>4 DEF ClearReviews, Undisturbed, ReadingHolds
    <3>2. \A c \in classic : c \in Classic
      BY <2>1, OptionalType DEF TypeOK
    <3>. QED
      BY <3>1, <3>2, ClearedIsDesired
  <2>5. CASE SendRuleset
    <3>. DEFINE old == {s \in rulesets : \E u \in cmd.update : s.name = u.name /\ s.target = u.target}
    <3>1. rulesets' = (rulesets \ old) \cup {Sent(RulesetFor(cmd.pc))} /\ classic' = classic
      BY <2>5 DEF SendRuleset
    <3>2. CASE cmd.pc = "sendBranch"
      <4>1. Sent(RulesetFor(cmd.pc)) = BranchRuleset
        BY <3>2 DEF Sent, RulesetFor, BranchRuleset, RenderBranch
      <4>2. classic \in Optional(Classic) /\ rulesets \in SUBSET Ruleset
        BY <2>1 DEF TypeOK
      <4>3. \A s \in rulesets : s.reviews \subseteq {[count |-> Approvals]}
        BY <2>1 DEF PlainReviews
      <4>4. rulesets \ old \in SUBSET rulesets
        OBVIOUS
      <4>. HIDE DEF old
      <4>. QED
        BY <3>1, <4>1, <4>2, <4>3, <4>4, RenderedIsDesired
    <3>3. CASE cmd.pc = "sendTag"
      <4>1. \A s \in old : s.target = "tag"
        BY <2>1, <3>3 DEF InPlace
      <4>2. Sent(RulesetFor(cmd.pc)).target = "tag"
        BY <3>3, RulesetType DEF RulesetFor, RenderTag
      <4>3. ActiveRules(rulesets) = ActiveRules(rulesets')
        BY <3>1, <4>1, <4>2 DEF ActiveRules
      <4>. QED
        BY <3>1, <4>3, OnlyActiveRulesCount
    <3>. QED
      BY <2>5, <3>2, <3>3 DEF SendRuleset
  <2>6. \/ UNCHANGED <<classic, rulesets>> \/ SendRuleset
        \/ (ProtectBranch \/ ClearReviews) /\ ~touched
    <3>1. CASE Step
      BY <3>1 DEF Step, Create, ReadClassic, ReadRules, WriteToggles, WriteSecurity, PushScaffold,
                  FindRuleset, RequestFails, Killed, remote
    <3>2. ~Others
      BY DEF Others, EditClassic, EditRuleset, AddRuleset, EditToggles, MergeScaffold, Move
    <3>. QED
      BY <3>1, <3>2 DEF Next, Provision, CompleteProtection, ApplyRulesets, Starts, Clone, remote
  <2>. QED
    BY <2>2, <2>3, <2>4, <2>5, <2>6
<1>. QED
  BY <1>1, <1>2, <1>3, PTL DEF Spec, SettledStaysSettled

=============================================================================
