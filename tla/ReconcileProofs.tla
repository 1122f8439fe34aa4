--------------------------- MODULE ReconcileProofs ---------------------------
(***************************************************************************)
(* Type correctness of consent-gated reconciliation, for any number of     *)
(* operators, detectors, issues, accounts, settings surfaces and           *)
(* declarations, and the single tracking issue of a scheduled detector.    *)
(***************************************************************************)
EXTENDS Reconcile, TLAPS, WellFoundedInduction, SequenceTheorems

-----------------------------------------------------------------------------
(* Facts about the issue channel.                                          *)

(* A non-empty set of issue numbers has an oldest issue.                   *)
LEMMA OldestIsMember ==
    ASSUME NEW S \in SUBSET IssueNumbers, S # {}
    PROVE  Oldest(S) \in S
<1>1. S \in SUBSET Nat
  BY IssueAssumption
<1>. DEFINE Less == OpToRel(<, Nat)
<1>2. \A m, n \in Nat : m < n => <<m, n>> \in Less
  BY DEF OpToRel
<1>3. IsWellFoundedOn(Less, Nat)
  BY NatLessThanWellFounded
<1>. HIDE DEF Less
<1>4. PICK n \in S : \A m \in S : ~ (<<m, n>> \in Less)
  BY <1>1, <1>3, WFMin
<1>5. ASSUME NEW m \in S PROVE n <= m
  <2>1. m \in Nat /\ n \in Nat
    BY <1>1
  <2>2. ~ (m < n)
    BY <1>2, <1>4, <2>1, Zenon
  <2>. QED
    BY <2>1, <2>2
<1>. QED
  BY <1>5 DEF Oldest

(* The binding acts on an issue of the list it was given.                  *)
LEMMA SelectIsMember ==
    ASSUME NEW S \in SUBSET IssueNumbers, S # {}
    PROVE  SelectIssue(S) \in S
<1>1. CASE S \cap OpenIssues # {}
  <2>1. Oldest(S \cap OpenIssues) \in S \cap OpenIssues
    BY <1>1, OldestIsMember
  <2>. QED
    BY <1>1, <2>1 DEF SelectIssue
<1>2. CASE S \cap OpenIssues = {}
  BY <1>2, OldestIsMember DEF SelectIssue
<1>. QED
  BY <1>1, <1>2

(* Removing a grant leaves a list of grants.                               *)
LEMMA WithoutType ==
    ASSUME NEW grants \in Seq(Grant), NEW id
    PROVE  Without(grants, id) \in Seq(Grant)
<1>1. CASE \E i \in 1..Len(grants) : grants[i].id = id
  <2>. DEFINE i == CHOOSE j \in 1..Len(grants) : grants[j].id = id
  <2>1. i \in 1..Len(grants)
    BY <1>1
  <2>2. Len(grants) \in Nat /\ \A j \in 1..Len(grants) : grants[j] \in Grant
    BY LenProperties, ElementOfSeq
  <2>. HIDE DEF i
  <2>3. SubSeq(grants, 1, i - 1) \in Seq(Grant)
    <3>1. \A j \in 1..i - 1 : grants[j] \in Grant
      BY <2>1, <2>2
    <3>. QED
      BY <2>1, <2>2, <3>1, SubSeqProperties
  <2>4. SubSeq(grants, i + 1, Len(grants)) \in Seq(Grant)
    <3>1. \A j \in i + 1..Len(grants) : grants[j] \in Grant
      BY <2>1, <2>2
    <3>. QED
      BY <2>1, <2>2, <3>1, SubSeqProperties
  <2>5. SubSeq(grants, 1, i - 1) \o SubSeq(grants, i + 1, Len(grants)) \in Seq(Grant)
    BY <2>3, <2>4, ConcatProperties
  <2>. QED
    BY <1>1, <2>5 DEF Without, i
<1>2. CASE ~ \E i \in 1..Len(grants) : grants[i].id = id
  BY <1>2 DEF Without
<1>. QED
  BY <1>1, <1>2

(* The active consent labels of an issue name diffs.                       *)
LEMMA ActiveIdsType ==
    ASSUME NEW grants \in Seq(Grant)
    PROVE  ActiveIds(grants) \subseteq DiffIds
<1>1. \A i \in 1..Len(grants) : grants[i] \in Grant
  BY ElementOfSeq
<1>. QED
  BY <1>1 DEF ActiveIds, Grant

(* The grant that get_issue reports is one of the issue's.                 *)
LEMMA CurrentConsentType ==
    ASSUME NEW i \in Issue, HasConsent(i)
    PROVE  CurrentConsent(i) \in Grant
<1>1. i.grants \in Seq(Grant) /\ i.grants # <<>>
  BY DEF HasConsent, Issue
<1>2. Len(i.grants) \in 1..Len(i.grants)
  BY <1>1, EmptySeq, LenProperties
<1>. QED
  BY <1>1, <1>2, ElementOfSeq DEF CurrentConsent

(* Every timeline entry turns an issue into an issue.                      *)
LEMMA EntryType ==
    ASSUME NEW i \in Issue
    PROVE  /\ \A id \in DiffIds, who \in Humans \cup Bots : Labeled(i, id, who) \in Issue
           /\ \A id, human : Unlabeled(i, id, human) \in Issue
           /\ EditedByNonHuman(i) \in Issue
<1>0. /\ i.grants \in Seq(Grant)
      /\ i.edited \in SUBSET DiffIds
      /\ ActiveIds(i.grants) \subseteq DiffIds
  BY ActiveIdsType DEF Issue
<1>1. ASSUME NEW id \in DiffIds, NEW who \in Humans \cup Bots
      PROVE  Labeled(i, id, who) \in Issue
  <2>1. [id |-> id, by |-> who] \in Grant
    BY DEF Grant
  <2>2. Append(Without(i.grants, id), [id |-> id, by |-> who]) \in Seq(Grant)
    BY <1>0, <2>1, WithoutType
  <2>. QED
    BY <1>0, <2>2 DEF Labeled, Issue
<1>2. ASSUME NEW id, NEW human
      PROVE  Unlabeled(i, id, human) \in Issue
  <2>1. Without(i.grants, id) \in Seq(Grant)
    BY <1>0, WithoutType
  <2>. QED
    BY <1>0, <2>1 DEF Unlabeled, Issue
<1>3. EditedByNonHuman(i) \in Issue
  BY <1>0 DEF EditedByNonHuman, Issue
<1>. QED
  BY <1>1, <1>2, <1>3

-----------------------------------------------------------------------------
(* TypeOK is not inductive: a step that reads an issue or a surface must   *)
(* know that its number or its index is one.                               *)

RunLocated(r) ==
    /\ r.pc = "timeline" => r.seen \in IssueNumbers
    /\ r.pc = "settings" => r.k \in 1..Len(ReadOrder)
    /\ r.pc = "write" => r.k \in 1..Len(WriteOrder)

DetLocated(d) ==
    /\ d.pc = "timeline" => d.seen \in IssueNumbers
    /\ d.pc = "settings" => d.k \in 1..Len(ReadOrder)

Located ==
    /\ \A r \in Runs : RunLocated(run[r])
    /\ \A d \in Detectors : DetLocated(det[d])

TypeInv == TypeOK /\ Located

-----------------------------------------------------------------------------
(* The constants.                                                          *)

(* There is at least one surface to read and one to write.                 *)
LEMMA OrderFacts ==
    /\ Len(ReadOrder) \in Nat \ {0}
    /\ Len(WriteOrder) \in Nat \ {0}
    /\ \A i \in 1..Len(ReadOrder) : ReadOrder[i] \in Surfaces
    /\ \A i \in 1..Len(WriteOrder) : WriteOrder[i] \in Surfaces
<1>1. ASSUME NEW order, Permutes(order)
      PROVE  /\ Len(order) \in Nat \ {0}
             /\ \A i \in 1..Len(order) : order[i] \in Surfaces
  <2>1. order \in Seq(Surfaces) /\ \E i \in 1..Len(order) : order[i] = Branch
    BY <1>1, ReconcileAssumption DEF Permutes
  <2>2. Len(order) \in Nat
    BY <2>1, LenProperties
  <2>3. Len(order) # 0
    BY <2>1, <2>2
  <2>. QED
    BY <2>1, <2>2, <2>3, ElementOfSeq
<1>. QED
  BY <1>1, ReconcileAssumption

(* Some declaration is in use, and a declaration is a map of settings.     *)
LEMMA DeclaredFacts ==
    /\ Anything \in Declared
    /\ Declared \subseteq SettingsMap
BY DeclaredAssumption DEF Anything, SettingsMap

(* The diff of two settings maps is empty or one a label can name.         *)
LEMMA DiffType ==
    ASSUME NEW d \in Declared, NEW l \in SettingsMap
    PROVE  Diff(d, l) \in DiffIds \cup {NoDiff}
BY DEF DiffIds

(* A process starts as, and ends up as, one of its kind.                   *)
LEMMA IdleType ==
    /\ IdleRun \in Run
    /\ IdleDet \in Detector
BY DeclaredFacts DEF IdleRun, Run, IdleDet, Detector, NoConsent, Consent

(* What remains of a run that ends is a run.                               *)
LEMMA EndedType ==
    ASSUME NEW r \in Run,
           NEW outcome \in {"none", "refuse", "noop", "abort", "apply", "error"}
    PROVE  Ended(r, outcome) \in Run /\ RunLocated(Ended(r, outcome))
<1>1. Ended(r, outcome) = [IdleRun EXCEPT !.pc = "done", !.outcome = outcome,
           !.pass = r.pass, !.desired = r.desired, !.skipped = r.skipped]
  BY DEF Ended
<1>. QED
  BY <1>1, IdleType, ZenonT(60) DEF Run, RunLocated

(* A decision is one of four words.                                        *)
LEMMA DecisionType ==
    ASSUME NEW r
    PROVE  ReconcileDecision(r) \in {"refuse", "noop", "abort", "apply"}
BY DEF ReconcileDecision

-----------------------------------------------------------------------------
(* One process moves at a time.                                            *)

(* A step of a run that leaves a well-typed run behind.                    *)
LEMMA SetRunType ==
    ASSUME TypeInv, NEW r \in Runs, NEW value \in Run, RunLocated(value),
           SetRun(r, value),
           issue' \in [IssueNumbers -> Issue], live' \in SettingsMap
    PROVE  TypeInv'
<1>1. run' \in [Runs -> Run] /\ \A q \in Runs : RunLocated(run'[q])
  BY DEF SetRun, TypeInv, TypeOK, Located
<1>. QED
  BY <1>1 DEF SetRun, TypeInv, TypeOK, Located, IssueTypeOK

(* A step of a detector that leaves a well-typed detector behind.          *)
LEMMA SetDetType ==
    ASSUME TypeInv, NEW d \in Detectors, NEW value \in Detector, DetLocated(value),
           SetDet(d, value),
           issue' \in [IssueNumbers -> Issue]
    PROVE  TypeInv'
<1>1. det' \in [Detectors -> Detector] /\ \A q \in Detectors : DetLocated(det'[q])
  BY DEF SetDet, TypeInv, TypeOK, Located
<1>. QED
  BY <1>1 DEF SetDet, TypeInv, TypeOK, Located, IssueTypeOK

(* An entry in the timeline of one issue keeps the channel well-typed.     *)
LEMMA IssueEntryType ==
    ASSUME IssueTypeOK, NEW n
    PROVE  /\ \A id, human :
                 [issue EXCEPT ![n] = Unlabeled(@, id, human)] \in [IssueNumbers -> Issue]
           /\ [issue EXCEPT ![n] = EditedByNonHuman(@)] \in [IssueNumbers -> Issue]
<1>1. issue \in [IssueNumbers -> Issue]
  BY DEF IssueTypeOK
<1>2. \A m \in IssueNumbers :
          /\ \A id, human : Unlabeled(issue[m], id, human) \in Issue
          /\ EditedByNonHuman(issue[m]) \in Issue
  BY <1>1, EntryType
<1>. QED
  BY <1>1, <1>2

-----------------------------------------------------------------------------
(* The steps of a run.                                                     *)

(* Each step of run_reconcile keeps the types.                             *)
LEMMA ReadingKeepsTypes ==
    ASSUME TypeInv, NEW r \in Runs,
           Start(r) \/ ReadIssue(r) \/ ReadTimeline(r) \/ ReadRole(r) \/ ReadSettings(r)
    PROVE  TypeInv'
<1>. USE DEF TypeInv
<1>0. /\ run[r] \in Run
      /\ RunLocated(run[r])
      /\ issue \in [IssueNumbers -> Issue]
      /\ live \in SettingsMap
      /\ admins \subseteq Humans \cup Bots
  BY DEF TypeOK, IssueTypeOK, Located
<1>1. CASE Start(r)
  <2>1. PICK d \in Declared, c \in DiffIds \cup {NoDiff}, p \in BOOLEAN :
           SetRun(r, [IdleRun EXCEPT !.pc = "issue", !.desired = d,
                                     !.confirm = c, !.pinOk = p])
    BY <1>1 DEF Start, Possibly
  <2>2. [IdleRun EXCEPT !.pc = "issue", !.desired = d, !.confirm = c, !.pinOk = p] \in Run
    BY IdleType DEF Run
  <2>3. RunLocated([IdleRun EXCEPT !.pc = "issue", !.desired = d,
                                   !.confirm = c, !.pinOk = p])
    BY IdleType DEF Run, RunLocated
  <2>. QED
    BY <1>0, <1>1, <2>1, <2>2, <2>3, SetRunType DEF Start
<1>2. CASE ReadIssue(r)
  <2>1. CASE OpenIssues = {}
    BY <1>0, <1>2, <2>1, EndedType, SetRunType DEF ReadIssue
  <2>2. CASE OpenIssues # {}
    <3>. DEFINE value == [run[r] EXCEPT !.pc = "timeline", !.seen = SelectIssue(Existing),
                                        !.ambiguous = Ambiguous]
    <3>1. Existing \subseteq IssueNumbers /\ Existing # {}
      BY <2>2 DEF Existing, OpenIssues
    <3>2. SelectIssue(Existing) \in IssueNumbers
      BY <3>1, SelectIsMember
    <3>3. Ambiguous \in BOOLEAN
      BY DEF Ambiguous
    <3>4. value \in Run /\ RunLocated(value)
      BY <1>0, <3>2, <3>3 DEF Run, RunLocated
    <3>. QED
      BY <1>0, <1>2, <2>2, <3>4, SetRunType DEF ReadIssue
  <2>. QED
    BY <2>1, <2>2
<1>3. CASE ReadTimeline(r)
  <2>. DEFINE i == issue[run[r].seen]
  <2>1. i \in Issue
    BY <1>0, <1>3 DEF ReadTimeline, RunLocated
  <2>2. 1 \in 1..Len(ReadOrder)
    BY OrderFacts
  <2>3. CASE HasConsent(i)
    <3>. DEFINE who == {CurrentConsent(i).by}
                c == [id |-> CurrentConsent(i).id,
                      granted |-> CurrentConsent(i).by \in Humans,
                      edited |-> NonHumanEditAfterGrant(i)]
                value == [run[r] EXCEPT !.pc = "role", !.seen = 0,
                                        !.giver = who, !.consent = c]
    <3>1. CurrentConsent(i) \in Grant
      BY <2>1, <2>3, CurrentConsentType
    <3>2. c \in Consent /\ who \subseteq Humans \cup Bots
      BY <3>1 DEF Grant, Consent, NonHumanEditAfterGrant
    <3>3. SetRun(r, value)
      BY <1>3, <2>3 DEF ReadTimeline
    <3>. HIDE DEF c, who
    <3>4. value \in Run
      BY <1>0, <3>2 DEF Run
    <3>5. RunLocated(value)
      BY <1>0 DEF Run, RunLocated
    <3>. QED
      BY <1>0, <1>3, <3>3, <3>4, <3>5, SetRunType DEF ReadTimeline
  <2>4. CASE ~HasConsent(i)
    <3>. DEFINE value == [run[r] EXCEPT !.pc = "settings", !.seen = 0, !.k = 1,
                               !.ambiguous = FALSE, !.consent = NoConsent]
    <3>1. value \in Run
      BY <1>0, IdleType DEF Run, IdleRun
    <3>2. RunLocated(value)
      BY <1>0, <2>2 DEF Run, RunLocated
    <3>. QED
      BY <1>0, <1>3, <2>4, <3>1, <3>2, SetRunType DEF ReadTimeline
  <2>. QED
    BY <2>3, <2>4
<1>4. CASE ReadRole(r)
  <2>1. PICK lookupOk \in BOOLEAN :
           SetRun(r, [run[r] EXCEPT !.pc = "settings", !.k = 1, !.giver = {},
              !.consent.granted = @ /\ lookupOk /\ run[r].giver \subseteq admins])
    BY <1>4 DEF ReadRole, Possibly
  <2>. DEFINE c == [run[r].consent EXCEPT
                       !.granted = @ /\ lookupOk /\ run[r].giver \subseteq admins]
              value == [run[r] EXCEPT !.pc = "settings", !.k = 1, !.giver = {},
                                      !.consent = c]
  <2>2. 1 \in 1..Len(ReadOrder)
    BY OrderFacts
  <2>3. run[r].consent \in Consent
    BY <1>0 DEF Run
  <2>4. c \in Consent
    BY <2>3 DEF Consent
  <2>5. SetRun(r, value)
    BY <1>0, <2>1 DEF Run
  <2>. HIDE DEF c
  <2>6. value \in Run
    BY <1>0, <2>4 DEF Run
  <2>7. RunLocated(value)
    BY <1>0, <2>2 DEF Run, RunLocated
  <2>. QED
    BY <1>0, <1>4, <2>5, <2>6, <2>7, SetRunType DEF ReadRole
<1>5. CASE ReadSettings(r)
  <2>. DEFINE s == ReadOrder[run[r].k]
              snap == [run[r].snap EXCEPT ![s] = live[s]]
              next == run[r].k + 1
              pc == IF run[r].k = Len(ReadOrder) THEN "decide" ELSE "settings"
              value == [run[r] EXCEPT !.snap = snap, !.k = next, !.pc = pc]
  <2>1. run[r].k \in 1..Len(ReadOrder)
    BY <1>0, <1>5 DEF ReadSettings, RunLocated
  <2>2. s \in Surfaces /\ Len(ReadOrder) \in Nat
    BY <2>1, OrderFacts
  <2>3. run[r].snap \in SettingsMap
    BY <1>0 DEF Run
  <2>4. snap \in SettingsMap
    BY <1>0, <2>2, <2>3 DEF SettingsMap
  <2>5. SetRun(r, value)
    BY <1>0, <1>5 DEF ReadSettings, Run
  <2>6. next \in Nat /\ pc \in {"decide", "settings"}
    BY <2>1, <2>2
  <2>7. pc = "settings" => next \in 1..Len(ReadOrder)
    BY <2>1, <2>2
  <2>. HIDE DEF snap, next, pc
  <2>8. value \in Run
    BY <1>0, <2>4, <2>6 DEF Run
  <2>9. RunLocated(value)
    BY <1>0, <2>6, <2>7 DEF Run, RunLocated
  <2>. QED
    BY <1>0, <1>5, <2>5, <2>8, <2>9, SetRunType DEF ReadSettings
<1>. QED
  BY <1>1, <1>2, <1>3, <1>4, <1>5

(* So does each step from a decision to the last write.                    *)
LEMMA ActingKeepsTypes ==
    ASSUME TypeInv, NEW r \in Runs,
           Decide(r) \/ VoidConsent(r) \/ DecideAgain(r) \/ ApplyGuard(r)
           \/ WriteSurface(r) \/ SkipSecurity(r) \/ Fail(r)
    PROVE  TypeInv'
<1>. USE DEF TypeInv
<1>0. /\ run[r] \in Run
      /\ RunLocated(run[r])
      /\ issue \in [IssueNumbers -> Issue]
      /\ live \in SettingsMap
      /\ IssueTypeOK
  BY DEF TypeOK, IssueTypeOK, Located
<1>1. CASE Decide(r)
  <2>0. NoConsent \in Consent /\ Anything \in SettingsMap
    BY DeclaredFacts DEF Consent, NoConsent
  <2>1. ReadAgain(run[r]) \in Run /\ RunLocated(ReadAgain(run[r]))
    BY <1>0, <2>0, ZenonT(60) DEF ReadAgain, Run, RunLocated
  <2>2. /\ Ended(run[r], ReconcileDecision(run[r])) \in Run
        /\ RunLocated(Ended(run[r], ReconcileDecision(run[r])))
    BY <1>0, DecisionType, EndedType
  <2>. DEFINE void == [run[r] EXCEPT !.pc = "void", !.outcome = ReconcileDecision(run[r])]
  <2>3. void \in Run /\ RunLocated(void)
    BY <1>0, DecisionType DEF Run, RunLocated
  <2>. QED
    BY <1>0, <1>1, <2>1, <2>2, <2>3, SetRunType DEF Decide
<1>2. CASE VoidConsent(r)
  <2>1. issue' \in [IssueNumbers -> Issue]
    <3>1. CASE UNCHANGED issue
      BY <1>0, <3>1
    <3>2. CASE ~ UNCHANGED issue
      <4>. DEFINE n == SelectIssue(Existing)
                  id == run[r].consent.id
      <4>1. issue' = [issue EXCEPT ![n] = Unlabeled(@, id, TRUE)]
        BY <1>2, <3>2 DEF VoidConsent
      <4>. HIDE DEF n, id
      <4>. QED
        BY <1>0, <4>1, IssueEntryType
    <3>. QED
      BY <3>1, <3>2
  <2>2. run[r].outcome \in {"none", "refuse", "noop", "abort", "apply", "error"}
    BY <1>0 DEF Run
  <2>. QED
    BY <1>0, <1>2, <2>1, <2>2, EndedType, SetRunType DEF VoidConsent
<1>3. CASE DecideAgain(r)
  <2>1. /\ Ended(run[r], ReconcileDecision(run[r])) \in Run
        /\ RunLocated(Ended(run[r], ReconcileDecision(run[r])))
    BY <1>0, DecisionType, EndedType
  <2>. DEFINE guard == [run[r] EXCEPT !.pc = "guard", !.k = 1]
  <2>2. guard \in Run /\ RunLocated(guard)
    BY <1>0 DEF Run, RunLocated
  <2>. QED
    BY <1>0, <1>3, <2>1, <2>2, SetRunType DEF DecideAgain
<1>4. CASE ApplyGuard(r)
  <2>1. Ended(run[r], "error") \in Run /\ RunLocated(Ended(run[r], "error"))
    BY <1>0, EndedType
  <2>. DEFINE write == [run[r] EXCEPT !.pc = "write", !.k = 1]
  <2>0. 1 \in 1..Len(WriteOrder)
    BY OrderFacts
  <2>2. write \in Run /\ RunLocated(write)
    BY <1>0, <2>0 DEF Run, RunLocated
  <2>. QED
    BY <1>0, <1>4, <2>1, <2>2, SetRunType DEF ApplyGuard
<1>5. ASSUME NEW skip \in SUBSET Surfaces, run[r].pc = "write"
      PROVE  AfterWrite(r, skip) \in Run /\ RunLocated(AfterWrite(r, skip))
  <2>. DEFINE all == run[r].skipped \cup skip
              next == run[r].k + 1
              done == [run[r] EXCEPT !.skipped = all, !.k = next]
  <2>1. run[r].k \in 1..Len(WriteOrder) /\ Len(WriteOrder) \in Nat
    BY <1>0, <1>5, OrderFacts DEF RunLocated
  <2>2. all \in SUBSET Surfaces /\ next \in Nat
    BY <1>0, <2>1 DEF Run
  <2>3. run[r].k # Len(WriteOrder) => next \in 1..Len(WriteOrder)
    BY <2>1
  <2>4. AfterWrite(r, skip) =
          IF run[r].k = Len(WriteOrder) THEN Ended(done, "apply") ELSE done
    BY DEF AfterWrite
  <2>. HIDE DEF all, next
  <2>5. done \in Run
    BY <1>0, <2>2 DEF Run
  <2>6. run[r].k # Len(WriteOrder) => RunLocated(done)
    BY <1>0, <1>5, <2>3 DEF Run, RunLocated
  <2>7. Ended(done, "apply") \in Run /\ RunLocated(Ended(done, "apply"))
    BY <2>5, EndedType
  <2>. QED
    BY <2>4, <2>5, <2>6, <2>7
<1>6. CASE WriteSurface(r)
  <2>. DEFINE s == WriteOrder[run[r].k]
  <2>1. s \in Surfaces
    BY <1>0, <1>6, OrderFacts DEF WriteSurface, RunLocated
  <2>2. Payload(run[r], s) \in Values
    BY <1>0, <2>1, DeclaredFacts DEF Payload, Run, SettingsMap
  <2>3. live' \in SettingsMap
    BY <1>0, <1>6, <2>1, <2>2 DEF WriteSurface, SettingsMap
  <2>4. AfterWrite(r, {}) \in Run /\ RunLocated(AfterWrite(r, {}))
    BY <1>5, <1>6 DEF WriteSurface
  <2>. QED
    BY <1>0, <1>6, <2>3, <2>4, SetRunType DEF WriteSurface
<1>7. CASE SkipSecurity(r)
  <2>1. {Security} \subseteq Surfaces
    BY <1>0, <1>7, OrderFacts DEF SkipSecurity, RunLocated
  <2>2. AfterWrite(r, {Security}) \in Run /\ RunLocated(AfterWrite(r, {Security}))
    BY <1>5, <1>7, <2>1 DEF SkipSecurity
  <2>. QED
    BY <1>0, <1>7, <2>2, SetRunType DEF SkipSecurity
<1>8. CASE Fail(r)
  BY <1>0, <1>8, EndedType, SetRunType DEF Fail
<1>. QED
  BY <1>1, <1>2, <1>3, <1>4, <1>6, <1>7, <1>8

-----------------------------------------------------------------------------
(* The steps of a detector, and of the world.                              *)

(* Each step of run_settings_drift keeps the types.                        *)
LEMMA DetectingKeepsTypes ==
    ASSUME TypeInv, NEW d \in Detectors, DetStart(d) \/ DetStep(d) \/ DetFail(d)
    PROVE  TypeInv'
<1>. USE DEF TypeInv
<1>0. /\ det[d] \in Detector
      /\ DetLocated(det[d])
      /\ issue \in [IssueNumbers -> Issue]
      /\ live \in SettingsMap
      /\ IssueTypeOK
  BY DEF TypeOK, IssueTypeOK, Located
<1>idle. IdleDet \in Detector /\ DetLocated(IdleDet)
  BY IdleType DEF IdleDet, DetLocated
<1>1. CASE DetStart(d)
  <2>1. PICK m \in Declared, b \in BOOLEAN :
           SetDet(d, [IdleDet EXCEPT !.pc = "settings", !.desired = m, !.rulesets = b])
    BY <1>1 DEF DetStart, Possibly
  <2>. DEFINE value == [IdleDet EXCEPT !.pc = "settings", !.desired = m, !.rulesets = b]
  <2>2. value \in Detector
    BY <1>idle DEF Detector
  <2>3. IdleDet.k = 1 /\ 1 \in 1..Len(ReadOrder)
    BY OrderFacts DEF IdleDet
  <2>4. DetLocated(value)
    BY <1>idle, <2>3 DEF Detector, DetLocated
  <2>. QED
    BY <1>0, <1>1, <2>1, <2>2, <2>4, SetDetType DEF DetStart
<1>2. CASE DetReadSettings(d)
  <2>. DEFINE s == ReadOrder[det[d].k]
              snap == [det[d].snap EXCEPT ![s] = live[s]]
              next == det[d].k + 1
              pc == IF det[d].k = Len(ReadOrder) THEN "issue" ELSE "settings"
              value == [det[d] EXCEPT !.snap = snap, !.k = next, !.pc = pc]
  <2>1. det[d].k \in 1..Len(ReadOrder)
    BY <1>0, <1>2 DEF DetReadSettings, DetLocated
  <2>2. s \in Surfaces /\ Len(ReadOrder) \in Nat
    BY <2>1, OrderFacts
  <2>3. det[d].snap \in SettingsMap
    BY <1>0 DEF Detector
  <2>4. snap \in SettingsMap
    BY <1>0, <2>2, <2>3 DEF SettingsMap
  <2>5. SetDet(d, value)
    BY <1>0, <1>2 DEF DetReadSettings, Detector
  <2>6. next \in Nat /\ pc \in {"issue", "settings"}
    BY <2>1, <2>2
  <2>7. pc = "settings" => next \in 1..Len(ReadOrder)
    BY <2>1, <2>2
  <2>. HIDE DEF snap, next, pc
  <2>8. value \in Detector
    BY <1>0, <2>4, <2>6 DEF Detector
  <2>9. DetLocated(value)
    BY <1>0, <2>6, <2>7 DEF Detector, DetLocated
  <2>. QED
    BY <1>0, <1>2, <2>5, <2>8, <2>9, SetDetType DEF DetReadSettings
<1>3. CASE DetReadIssue(d)
  <2>1. CASE Existing = {}
    <3>. DEFINE value == [det[d] EXCEPT !.pc = "comment"]
    <3>1. value \in Detector /\ DetLocated(value)
      BY <1>0 DEF Detector, DetLocated
    <3>. QED
      BY <1>0, <1>3, <2>1, <3>1, SetDetType DEF DetReadIssue
  <2>2. CASE Existing # {}
    <3>. DEFINE n == SelectIssue(Existing)
                open == OpenIssues # {}
                value == [det[d] EXCEPT !.pc = "timeline", !.seen = n, !.open = open]
    <3>1. n \in IssueNumbers
      BY <2>2, SelectIsMember DEF Existing
    <3>2. SetDet(d, value)
      BY <1>3, <2>2 DEF DetReadIssue
    <3>. HIDE DEF n
    <3>3. value \in Detector
      BY <1>0, <3>1 DEF Detector
    <3>4. DetLocated(value)
      BY <1>0, <3>1 DEF Detector, DetLocated
    <3>. QED
      BY <1>0, <1>3, <3>2, <3>3, <3>4, SetDetType DEF DetReadIssue
  <2>. QED
    BY <2>1, <2>2
<1>4. CASE DetReadTimeline(d)
  <2>. DEFINE c == GrantedDiff(issue[det[d].seen])
              stale == Stale(c, Diff(det[d].desired, det[d].snap))
              pc == IF stale THEN "revoke" ELSE "comment"
              kept == IF stale THEN c ELSE NoDiff
              value == [det[d] EXCEPT !.pc = pc, !.seen = 0, !.voided = stale,
                                      !.consent = kept]
  <2>1. issue[det[d].seen] \in Issue
    BY <1>0, <1>4 DEF DetReadTimeline, DetLocated
  <2>2. c \in DiffIds \cup {NoDiff}
    BY <2>1, CurrentConsentType DEF GrantedDiff, Grant
  <2>3. stale \in BOOLEAN
    BY DEF Stale
  <2>4. SetDet(d, value)
    BY <1>4 DEF DetReadTimeline
  <2>5. pc \in {"revoke", "comment"} /\ kept \in DiffIds \cup {NoDiff}
    BY <2>2
  <2>. HIDE DEF stale, pc, kept
  <2>6. value \in Detector
    BY <1>0, <2>3, <2>5 DEF Detector
  <2>7. DetLocated(value)
    BY <1>0, <2>5 DEF Detector, DetLocated
  <2>. QED
    BY <1>0, <1>4, <2>4, <2>6, <2>7, SetDetType DEF DetReadTimeline
<1>5. CASE DetRevoke(d)
  <2>. DEFINE value == [det[d] EXCEPT !.pc = "comment", !.consent = NoDiff]
  <2>1. issue' \in [IssueNumbers -> Issue]
    <3>. DEFINE n == SelectIssue(Existing)
                id == det[d].consent
    <3>1. issue' = issue \/ issue' = [issue EXCEPT ![n] = Unlabeled(@, id, FALSE)]
      BY <1>5 DEF DetRevoke
    <3>. HIDE DEF n, id
    <3>2. [issue EXCEPT ![n] = Unlabeled(@, id, FALSE)] \in [IssueNumbers -> Issue]
      BY <1>0, IssueEntryType
    <3>. QED
      BY <1>0, <3>1, <3>2
  <2>2. value \in Detector /\ DetLocated(value)
    BY <1>0 DEF Detector, DetLocated
  <2>. QED
    BY <1>0, <1>5, <2>1, <2>2, SetDetType DEF DetRevoke
<1>6. CASE DetComment(d)
  <2>. DEFINE value == [det[d] EXCEPT !.pc = "list"]
  <2>1. issue' \in [IssueNumbers -> Issue]
    <3>1. issue' = issue \/ \E n : issue' = [issue EXCEPT ![n] = EditedByNonHuman(@)]
      BY <1>6 DEF DetComment
    <3>. QED
      BY <1>0, <3>1, IssueEntryType
  <2>2. value \in Detector /\ DetLocated(value)
    BY <1>0 DEF Detector, DetLocated
  <2>3. SetDet(d, IdleDet) \/ SetDet(d, value)
    BY <1>6 DEF DetComment
  <2>. QED
    BY <1>0, <1>idle, <2>1, <2>2, <2>3, SetDetType
<1>7. CASE DetList(d)
  <2>. DEFINE value == [det[d] EXCEPT !.pc = "post"]
  <2>1. value \in Detector /\ DetLocated(value)
    BY <1>0 DEF Detector, DetLocated
  <2>2. SetDet(d, IdleDet) \/ SetDet(d, value)
    BY <1>7 DEF DetList
  <2>. QED
    BY <1>0, <1>7, <1>idle, <2>1, <2>2, SetDetType DEF DetList
<1>8. CASE DetPost(d)
  <2>1. NewIssue \in Issue
    BY EmptySeq DEF NewIssue, Issue
  <2>2. issue' \in [IssueNumbers -> Issue]
    <3>1. issue' = issue \/ \E n : issue' = [issue EXCEPT ![n] = NewIssue]
      BY <1>8 DEF DetPost
    <3>. QED
      BY <1>0, <2>1, <3>1
  <2>. QED
    BY <1>0, <1>8, <1>idle, <2>2, SetDetType DEF DetPost
<1>9. CASE DetFail(d)
  BY <1>0, <1>9, <1>idle, SetDetType DEF DetFail, FailsLoud
<1>. QED
  BY <1>1, <1>2, <1>3, <1>4, <1>5, <1>6, <1>7, <1>8, <1>9 DEF DetStep

(* What others do to the settings, the issues and the roles keeps them.    *)
LEMMA EnvironmentKeepsTypes ==
    ASSUME TypeInv, Environment
    PROVE  TypeInv'
<1>. USE DEF TypeInv
<1>0. /\ issue \in [IssueNumbers -> Issue]
      /\ IssueTypeOK
      /\ NewIssue \in Issue
  BY EmptySeq DEF TypeOK, IssueTypeOK, NewIssue, Issue
<1>1. CASE \E s \in Surfaces, v \in Values : ChangeSetting(s, v)
  <2>1. live' \in SettingsMap
    BY <1>1 DEF ChangeSetting, TypeOK, SettingsMap
  <2>. QED
    BY <1>1, <2>1 DEF ChangeSetting, TypeOK, IssueTypeOK, Located
<1>2. CASE IssueEvent /\ UNCHANGED <<live, owner, run, det>>
  <2>1. issue' \in [IssueNumbers -> Issue] /\ admins' \subseteq Humans \cup Bots
    <3>1. ASSUME NEW n \in IssueNumbers, NEW who \in Humans \cup Bots, NEW id \in DiffIds,
                 AddLabel(n, who, id)
          PROVE  issue' \in [IssueNumbers -> Issue] /\ admins' = admins
      BY <1>0, <3>1, EntryType DEF AddLabel
    <3>2. ASSUME NEW n \in IssueNumbers, NEW id \in DiffIds, RemoveLabel(n, id)
          PROVE  issue' \in [IssueNumbers -> Issue] /\ admins' = admins
      BY <1>0, <3>2, EntryType DEF RemoveLabel
    <3>3. ASSUME NEW n \in IssueNumbers, BotEdit(n)
          PROVE  issue' \in [IssueNumbers -> Issue] /\ admins' = admins
      BY <1>0, <3>3, EntryType DEF BotEdit
    <3>4. ASSUME NEW n \in IssueNumbers, CloseIssue(n) \/ ReopenIssue(n)
          PROVE  issue' \in [IssueNumbers -> Issue] /\ admins' = admins
      <4>1. issue[n] \in Issue
        BY <1>0
      <4>2. [issue[n] EXCEPT !.state = "closed"] \in Issue
        BY <4>1 DEF Issue
      <4>3. [issue[n] EXCEPT !.state = "open"] \in Issue
        BY <4>1 DEF Issue
      <4>. QED
        BY <1>0, <3>4, <4>2, <4>3 DEF CloseIssue, ReopenIssue
    <3>5. ASSUME OpenIssue
          PROVE  issue' \in [IssueNumbers -> Issue] /\ admins' = admins
      BY <1>0, <3>5 DEF OpenIssue
    <3>6. ASSUME NEW h \in Humans, ChangeRole(h)
          PROVE  issue' = issue /\ admins' \subseteq Humans \cup Bots
      BY <1>0, <3>6 DEF ChangeRole, IssueTypeOK
    <3>. QED
      BY <1>0, <1>2, <3>1, <3>2, <3>3, <3>4, <3>5, <3>6 DEF IssueEvent, IssueTypeOK
  <2>. QED
    BY <1>2, <2>1 DEF TypeOK, IssueTypeOK, Located
<1>. QED
  BY <1>1, <1>2 DEF Environment

-----------------------------------------------------------------------------
(* The initial state has the types.                                        *)
LEMMA InitHasTypes == Init => TypeInv
<1>. SUFFICES ASSUME Init PROVE TypeInv
  OBVIOUS
<1>1. AbsentIssue \in Issue
  BY EmptySeq DEF AbsentIssue, NewIssue, Issue
<1>2. IssueTypeOK
  BY <1>1 DEF Init, IssueInit, IssueTypeOK
<1>3. RunLocated(IdleRun) /\ DetLocated(IdleDet)
  BY DEF RunLocated, IdleRun, DetLocated, IdleDet
<1>. QED
  BY <1>2, <1>3, IdleType DEF Init, TypeInv, TypeOK, Located, Possibly

(* And every step keeps them.                                              *)
LEMMA NextKeepsTypes == TypeInv /\ [Next]_vars => TypeInv'
<1>. SUFFICES ASSUME TypeInv, [Next]_vars PROVE TypeInv'
  OBVIOUS
<1>1. CASE Next
  BY <1>1, ReadingKeepsTypes, ActingKeepsTypes, DetectingKeepsTypes,
     EnvironmentKeepsTypes DEF Next, RunStep
<1>2. CASE UNCHANGED vars
  BY <1>2 DEF vars, TypeInv, TypeOK, IssueTypeOK, Located
<1>. QED
  BY <1>1, <1>2

(* Whatever happens, the processes and the issue channel keep their types. *)
THEOREM TypeCorrect == Spec => []TypeOK
<1>1. TypeInv => TypeOK
  BY DEF TypeInv
<1>. QED
  BY <1>1, InitHasTypes, NextKeepsTypes, PTL DEF Spec

-----------------------------------------------------------------------------
(* The one tracking issue.                                                 *)

(* What the detector found when it listed the issues is still so when it   *)
(* posts one: only its own post adds an open issue.                        *)
ListingHolds == \A d \in Detectors : det[d].pc = "post" => OpenIssues = {}

IssueInv == TypeInv /\ OneTrackingIssue /\ ListingHolds

(* People and bots who leave an issue open or closed as it is, or close    *)
(* it, add no open issue.                                                  *)
LEMMA EntryOpensNothing ==
    ASSUME issue \in [IssueNumbers -> Issue], NEW n, NEW new,
           n \in IssueNumbers => new.state \in {issue[n].state, "closed"},
           issue' = [issue EXCEPT ![n] = new]
    PROVE  OpenIssues' \subseteq OpenIssues
BY DEF OpenIssues

(* An entry that takes a label away or comments leaves an issue open or    *)
(* closed as it is.                                                        *)
LEMMA EntryKeepsState ==
    ASSUME NEW i \in Issue
    PROVE  /\ \A id : Unlabeled(i, id, TRUE).state = i.state
           /\ \A id : Unlabeled(i, id, FALSE).state = i.state
           /\ EditedByNonHuman(i).state = i.state
BY DEF Issue, Unlabeled, EditedByNonHuman

(* A reconcile run opens no issue.                                         *)
LEMMA RunOpensNothing ==
    ASSUME TypeInv, NEW r \in Runs, Start(r) \/ RunStep(r) \/ Fail(r)
    PROVE  OpenIssues' \subseteq OpenIssues /\ det' = det
<1>0. issue \in [IssueNumbers -> Issue]
  BY DEF TypeInv, TypeOK, IssueTypeOK
<1>1. CASE VoidConsent(r)
  <2>1. CASE UNCHANGED issue
    BY <1>1, <2>1 DEF VoidConsent, SetRun, OpenIssues
  <2>2. CASE ~ UNCHANGED issue
    <3>. DEFINE n == SelectIssue(Existing)
                id == run[r].consent.id
    <3>1. issue' = [issue EXCEPT ![n] = Unlabeled(issue[n], id, TRUE)] /\ det' = det
      BY <1>1, <2>2 DEF VoidConsent, SetRun
    <3>. HIDE DEF n, id
    <3>2. n \in IssueNumbers => Unlabeled(issue[n], id, TRUE).state = issue[n].state
      BY <1>0, EntryKeepsState
    <3>. QED
      BY <1>0, <3>1, <3>2, EntryOpensNothing
  <2>. QED
    BY <2>1, <2>2
<1>2. CASE ~ VoidConsent(r)
  <2>1. issue' = issue /\ det' = det
    BY <1>2 DEF Start, RunStep, Fail, ReadIssue, ReadTimeline, ReadRole, ReadSettings,
       Decide, DecideAgain, ApplyGuard, WriteSurface, SkipSecurity, SetRun
  <2>. QED
    BY <2>1 DEF OpenIssues
<1>. QED
  BY <1>1, <1>2

(* Neither does the world, where people do not.                            *)
LEMMA WorldOpensNothing ==
    ASSUME TypeInv, Environment, World \cap {"open", "reopen"} = {}
    PROVE  OpenIssues' \subseteq OpenIssues /\ det' = det
<1>0. issue \in [IssueNumbers -> Issue]
  BY DEF TypeInv, TypeOK, IssueTypeOK
<1>1. det' = det
  BY DEF Environment, ChangeSetting
<1>2. CASE UNCHANGED issue
  BY <1>1, <1>2 DEF OpenIssues
<1>3. ASSUME NEW n \in IssueNumbers, NEW who, NEW id, AddLabel(n, who, id)
      PROVE  OpenIssues' \subseteq OpenIssues
  <2>1. issue' = [issue EXCEPT ![n] = Labeled(issue[n], id, who)]
    BY <1>3 DEF AddLabel
  <2>2. Labeled(issue[n], id, who).state = issue[n].state
    BY <1>0 DEF Labeled, Issue
  <2>. QED
    BY <1>0, <2>1, <2>2, EntryOpensNothing
<1>4. ASSUME NEW n \in IssueNumbers, NEW id, RemoveLabel(n, id)
      PROVE  OpenIssues' \subseteq OpenIssues
  <2>1. issue' = [issue EXCEPT ![n] = Unlabeled(issue[n], id, TRUE)]
    BY <1>4 DEF RemoveLabel
  <2>2. Unlabeled(issue[n], id, TRUE).state = issue[n].state
    BY <1>0, EntryKeepsState
  <2>. QED
    BY <1>0, <2>1, <2>2, EntryOpensNothing
<1>5. ASSUME NEW n \in IssueNumbers, BotEdit(n)
      PROVE  OpenIssues' \subseteq OpenIssues
  BY <1>0, <1>5, EntryKeepsState, EntryOpensNothing DEF BotEdit
<1>6. ASSUME NEW n \in IssueNumbers, CloseIssue(n)
      PROVE  OpenIssues' \subseteq OpenIssues
  BY <1>0, <1>6 DEF CloseIssue, OpenIssues, Issue
<1>. QED
  BY <1>1, <1>2, <1>3, <1>4, <1>5, <1>6
     DEF Environment, ChangeSetting, IssueEvent, ChangeRole

(* The detector opens one only with its post.                              *)
LEMMA DetectorOpensOne ==
    ASSUME TypeInv, NEW d \in Detectors, DetStart(d) \/ DetStep(d) \/ DetFail(d)
    PROVE  \/ /\ OpenIssues' \subseteq OpenIssues
              /\ det'[d].pc = "post" => OpenIssues = {}
           \/ /\ det[d].pc = "post" /\ det'[d].pc = "idle"
              /\ \E n \in IssueNumbers : OpenIssues' = OpenIssues \cup {n}
<1>0. /\ issue \in [IssueNumbers -> Issue]
      /\ det \in [Detectors -> Detector]
      /\ det[d] \in Detector
  BY DEF TypeInv, TypeOK, IssueTypeOK
<1>set. ASSUME NEW value, SetDet(d, value)
        PROVE  det'[d] = value
  BY <1>0, <1>set DEF SetDet
<1>idle. IdleDet.pc = "idle"
  BY DEF IdleDet
<1>1. CASE DetStart(d)
  <2>1. PICK m \in Declared, b \in BOOLEAN :
           SetDet(d, [IdleDet EXCEPT !.pc = "settings", !.desired = m, !.rulesets = b])
    BY <1>1 DEF DetStart, Possibly
  <2>2. det'[d] = [IdleDet EXCEPT !.pc = "settings", !.desired = m, !.rulesets = b]
    BY <1>set, <2>1
  <2>3. det'[d].pc = "settings"
    BY <2>2 DEF IdleDet
  <2>. QED
    BY <1>1, <2>3 DEF DetStart, OpenIssues
<1>2. CASE DetReadSettings(d)
  <2>1. det'[d].pc \in {"settings", "issue"}
    BY <1>0, <1>2 DEF DetReadSettings, SetDet, Detector
  <2>. QED
    BY <1>2, <2>1 DEF DetReadSettings, OpenIssues
<1>3. CASE DetReadIssue(d)
  <2>1. det'[d].pc \in {"comment", "timeline"}
    BY <1>0, <1>3 DEF DetReadIssue, SetDet, Detector
  <2>. QED
    BY <1>3, <2>1 DEF DetReadIssue, OpenIssues
<1>4. CASE DetReadTimeline(d)
  <2>1. det'[d].pc \in {"revoke", "comment"}
    <3>. DEFINE c == GrantedDiff(issue[det[d].seen])
                stale == Stale(c, Diff(det[d].desired, det[d].snap))
                pc == IF stale THEN "revoke" ELSE "comment"
                kept == IF stale THEN c ELSE NoDiff
    <3>1. det'[d] = [det[d] EXCEPT !.pc = pc, !.seen = 0, !.voided = stale, !.consent = kept]
      BY <1>4, <1>set DEF DetReadTimeline
    <3>2. pc \in {"revoke", "comment"}
      OBVIOUS
    <3>. HIDE DEF stale, pc, kept
    <3>. QED
      BY <1>0, <3>1, <3>2 DEF Detector
  <2>. QED
    BY <1>4, <2>1 DEF DetReadTimeline, OpenIssues
<1>5. CASE DetRevoke(d)
  <2>1. det'[d].pc = "comment"
    BY <1>0, <1>5 DEF DetRevoke, SetDet, Detector
  <2>2. OpenIssues' \subseteq OpenIssues
    <3>. DEFINE n == SelectIssue(Existing)
                id == det[d].consent
    <3>1. issue' = issue \/ issue' = [issue EXCEPT ![n] = Unlabeled(issue[n], id, FALSE)]
      BY <1>5 DEF DetRevoke
    <3>. HIDE DEF n, id
    <3>2. n \in IssueNumbers => Unlabeled(issue[n], id, FALSE).state = issue[n].state
      BY <1>0, EntryKeepsState
    <3>3. CASE issue' = issue
      BY <3>3 DEF OpenIssues
    <3>. QED
      BY <1>0, <3>1, <3>2, <3>3, EntryOpensNothing
  <2>. QED
    BY <2>1, <2>2
<1>6. CASE DetComment(d)
  <2>1. det'[d].pc \in {"list", "idle"}
    BY <1>0, <1>6, <1>idle DEF DetComment, SetDet, Detector
  <2>2. OpenIssues' \subseteq OpenIssues
    <3>. DEFINE n == SelectIssue(Existing)
    <3>1. issue' = issue \/ issue' = [issue EXCEPT ![n] = EditedByNonHuman(issue[n])]
      BY <1>6 DEF DetComment
    <3>. HIDE DEF n
    <3>2. n \in IssueNumbers => EditedByNonHuman(issue[n]).state = issue[n].state
      BY <1>0, EntryKeepsState
    <3>3. CASE issue' = issue
      BY <3>3 DEF OpenIssues
    <3>. QED
      BY <1>0, <3>1, <3>2, <3>3, EntryOpensNothing
  <2>. QED
    BY <2>1, <2>2
<1>7. CASE DetList(d)
  <2>1. IF OpenIssues # {} THEN det'[d] = IdleDet
        ELSE det'[d] = [det[d] EXCEPT !.pc = "post"]
    BY <1>7, <1>set DEF DetList, Updatable
  <2>2. OpenIssues' = OpenIssues
    BY <1>7 DEF DetList, OpenIssues
  <2>. QED
    BY <1>idle, <2>1, <2>2
<1>8. CASE DetPost(d)
  <2>1. det[d].pc = "post" /\ det'[d].pc = "idle"
    BY <1>8, <1>set, <1>idle DEF DetPost
  <2>2. CASE issue' = issue
    BY <2>1, <2>2 DEF OpenIssues
  <2>3. CASE issue' # issue
    <3>. DEFINE n == Oldest(IssueNumbers \ Existing)
    <3>1. Existing # IssueNumbers /\ issue' = [issue EXCEPT ![n] = NewIssue]
      BY <1>8, <2>3 DEF DetPost
    <3>2. n \in IssueNumbers
      BY <3>1, OldestIsMember DEF Existing
    <3>. HIDE DEF n
    <3>3. OpenIssues' = OpenIssues \cup {n}
      BY <1>0, <3>1, <3>2 DEF OpenIssues, NewIssue
    <3>. QED
      BY <2>1, <3>2, <3>3
  <2>. QED
    BY <2>2, <2>3
<1>9. CASE DetFail(d)
  BY <1>9, <1>set, <1>idle DEF DetFail, FailsLoud, OpenIssues
<1>. QED
  BY <1>1, <1>2, <1>3, <1>4, <1>5, <1>6, <1>7, <1>8, <1>9 DEF DetStep

(* One detector that lists before it posts keeps a single open issue.      *)
LEMMA NextKeepsOneIssue ==
    ASSUME World \cap {"open", "reopen"} = {}, \A d, e \in Detectors : d = e
    PROVE  IssueInv /\ [Next]_vars => IssueInv'
<1>. SUFFICES ASSUME IssueInv, [Next]_vars PROVE IssueInv'
  OBVIOUS
<1>0. TypeInv /\ TypeInv'
  BY NextKeepsTypes DEF IssueInv
<1>1. ASSUME OpenIssues' \subseteq OpenIssues, det' = det
      PROVE  IssueInv'
  BY <1>0, <1>1 DEF IssueInv, OneTrackingIssue, ListingHolds
<1>2. ASSUME NEW r \in Runs, Start(r) \/ RunStep(r) \/ Fail(r)
      PROVE  IssueInv'
  BY <1>0, <1>1, <1>2, RunOpensNothing
<1>3. ASSUME NEW d \in Detectors, DetStart(d) \/ DetStep(d) \/ DetFail(d)
      PROVE  IssueInv'
  <2>1. CASE /\ OpenIssues' \subseteq OpenIssues
             /\ det'[d].pc = "post" => OpenIssues = {}
    BY <1>0, <2>1 DEF IssueInv, OneTrackingIssue, ListingHolds
  <2>2. CASE /\ det[d].pc = "post" /\ det'[d].pc = "idle"
             /\ \E n \in IssueNumbers : OpenIssues' = OpenIssues \cup {n}
    BY <1>0, <2>2 DEF IssueInv, OneTrackingIssue, ListingHolds
  <2>. QED
    BY <1>0, <1>3, <2>1, <2>2, DetectorOpensOne
<1>4. CASE Environment
  BY <1>0, <1>1, <1>4, WorldOpensNothing
<1>5. CASE UNCHANGED vars
  BY <1>1, <1>5 DEF vars, OpenIssues
<1>. QED
  BY <1>2, <1>3, <1>4, <1>5 DEF Next

(* Where people neither open nor reopen tracking issues, the one scheduled *)
(* detector keeps at most one open, however often its runs fail.           *)
THEOREM DetectorKeepsOneIssue ==
    ASSUME World \cap {"open", "reopen"} = {}, \A d, e \in Detectors : d = e
    PROVE  Spec => []OneTrackingIssue
<1>1. Init => IssueInv
  <2>. SUFFICES ASSUME Init PROVE IssueInv
    OBVIOUS
  <2>1. OpenIssues = {}
    BY DEF Init, IssueInit, OpenIssues, AbsentIssue, NewIssue
  <2>2. \A d \in Detectors : det[d].pc = "idle"
    BY DEF Init, IdleDet
  <2>. QED
    BY <2>1, <2>2, InitHasTypes DEF IssueInv, OneTrackingIssue, ListingHolds
<1>2. IssueInv => OneTrackingIssue
  BY DEF IssueInv
<1>. QED
  BY <1>1, <1>2, NextKeepsOneIssue, PTL DEF Spec

=============================================================================
