---------------------- MODULE ReconcileRefinementProofs ----------------------
(***************************************************************************)
(* Proof that one operator's reconciliation of a repository whose settings *)
(* others leave alone implements the abstract gate, whatever issues,       *)
(* labels, roles, detectors, surfaces and declarations there are.          *)
(***************************************************************************)
EXTENDS ReconcileRefinement, ReconcileProofs

(* What a run has read is still true.                                      *)
ReadingHolds(r, l) ==
    /\ r.pc = "settings" =>
          \A i \in 1..r.k - 1 : r.snap[ReadOrder[i]] = l[ReadOrder[i]]
    /\ r.pc \in {"decide", "guard"} => r.snap = l

(* The second pass works on the diff that the first one confirmed, and     *)
(* nothing is written before it ends.                                      *)
ConfirmedHolds(r, l) ==
    r.pass = 2 /\ r.pc \in {"issue", "timeline", "role", "settings", "decide", "guard"} =>
        Diff(r.desired, l) = r.confirm

(* The writes have landed entries of the confirmed diff at most.           *)
WritingHolds(r, l, o) ==
    /\ r.pc \in {"guard", "write"} => Entitled(r)
    /\ r.pc = "write" =>
          /\ o = "ruleset" => l[Branch] = r.desired[Branch]
          /\ \A s \in Surfaces :
                IF s \in DOMAIN r.confirm THEN r.confirm[s][1] = r.desired[s]
                ELSE l[s] = r.desired[s]

Undisturbed(r, l, o) == ReadingHolds(r, l) /\ ConfirmedHolds(r, l) /\ WritingHolds(r, l, o)

UndisturbedInv == TypeInv /\ \A r \in Runs : Undisturbed(run[r], live, owner)

-----------------------------------------------------------------------------
(* How the steps of the protocol look from the gate.                       *)

(* The gate and the protocol talk about the same settings and diffs.       *)
LEMMA SameSettings ==
    /\ Gated!SettingsMap = SettingsMap
    /\ Gated!NoDiff = NoDiff
    /\ Gated!DiffIds = DiffIds
BY DEF Gated!SettingsMap, SettingsMap, Gated!NoDiff, NoDiff, Gated!DiffIds, DiffIds,
       Gated!Diff, Diff

(* What a run is entitled to concerns that run only.                       *)
LEMMA TicketMoves ==
    ASSUME run \in [Runs -> Run], NEW r \in Runs, NEW value,
           run' = [run EXCEPT ![r] = value]
    PROVE  Ticket' = [Ticket EXCEPT ![r] = EntitledTo(value)]
<1>1. run'[r] = value /\ \A q \in Runs : q # r => run'[q] = run[q]
  OBVIOUS
<1>2. Ticket' = [q \in Runs |-> EntitledTo(run'[q])]
  BY DEF Ticket
<1>. QED
  BY <1>1, <1>2 DEF Ticket

(* Consents are consents to diffs.                                         *)
LEMMA ConsentedType == Consented \subseteq DiffIds /\ Consented' \subseteq DiffIds
BY DEF Consented

(* A step that leaves the settings and the entitlements alone concerns the *)
(* consents at most.                                                       *)
LEMMA Reconsiders ==
    ASSUME live' = live, Ticket' = Ticket
    PROVE  Gated!GatedNext
BY ConsentedType, SameSettings DEF Gated!GatedNext, Gated!Reconsider

(* A run that reads on, or ends, keeps its entitlement or gives it up.     *)
LEMMA KeepsOrGivesUp ==
    ASSUME run \in [Runs -> Run], NEW r \in Runs, NEW value,
           run' = [run EXCEPT ![r] = value],
           live' = live, issue' = issue,
           Entitled(value) => Entitled(run[r]) /\ value.confirm = run[r].confirm
    PROVE  Gated!GatedNext
<1>1. Ticket' = [Ticket EXCEPT ![r] = EntitledTo(value)]
  BY TicketMoves
<1>2. Consented' = Consented
  BY DEF Consented
<1>3. CASE Entitled(value)
  <2>1. EntitledTo(value) = EntitledTo(run[r])
    BY <1>3 DEF EntitledTo
  <2>2. Ticket' = Ticket
    BY <1>1, <2>1 DEF Ticket
  <2>. QED
    BY <2>2, Reconsiders
<1>4. CASE ~ Entitled(value)
  <2>1. Gated!GiveUp(r)
    BY <1>1, <1>2, <1>4, SameSettings DEF EntitledTo, Gated!GiveUp
  <2>. QED
    BY <2>1 DEF Gated!GatedNext
<1>. QED
  BY <1>3, <1>4

(* An operator takes the diff the second pass has found consented to.      *)
LEMMA TakesTheDiff ==
    ASSUME run \in [Runs -> Run], NEW r \in Runs, NEW value,
           run' = [run EXCEPT ![r] = value],
           live' = live, issue' = issue,
           ~ Entitled(run[r]), Entitled(value), value.confirm \in Consented,
           \A s \in DOMAIN value.confirm : live[s] = value.confirm[s][2]
    PROVE  Gated!GatedNext
<1>1. Ticket' = [Ticket EXCEPT ![r] = value.confirm]
  BY TicketMoves DEF EntitledTo
<1>2. Ticket[r] = NoDiff
  BY DEF Ticket, EntitledTo
<1>3. Consented' = Consented
  BY DEF Consented
<1>4. Gated!Authorize(r)
  BY <1>1, <1>2, <1>3, SameSettings DEF Gated!Authorize
<1>. QED
  BY <1>4 DEF Gated!GatedNext

(* It lands an entry of the diff.                                          *)
LEMMA LandsAnEntry ==
    ASSUME run \in [Runs -> Run], NEW r \in Runs, NEW value,
           run' = [run EXCEPT ![r] = value],
           issue' = issue, Entitled(run[r]),
           Entitled(value) => value.confirm = run[r].confirm,
           NEW s \in DOMAIN run[r].confirm,
           live' = [live EXCEPT ![s] = run[r].confirm[s][1]]
    PROVE  Gated!GatedNext
<1>1. Ticket' = [Ticket EXCEPT ![r] = EntitledTo(value)]
  BY TicketMoves
<1>2. Ticket[r] = run[r].confirm
  BY DEF Ticket, EntitledTo
<1>3. Consented' = Consented
  BY DEF Consented
<1>4. Ticket' \in {Ticket, [Ticket EXCEPT ![r] = NoDiff]}
  <2>1. EntitledTo(value) \in {Ticket[r], NoDiff}
    BY <1>2 DEF EntitledTo
  <2>. QED
    BY <1>1, <2>1 DEF Ticket
<1>5. Gated!Land(r)
  BY <1>2, <1>3, <1>4, SameSettings DEF Gated!Land
<1>. QED
  BY <1>5 DEF Gated!GatedNext

-----------------------------------------------------------------------------
(* The steps of a run.                                                     *)

(* Nothing holds, or need hold, of a run that has ended or not begun.      *)
LEMMA EndedIsUndisturbed ==
    ASSUME NEW r, NEW outcome, NEW l, NEW o
    PROVE  /\ Undisturbed(Ended(r, outcome), l, o)
           /\ ~ Entitled(Ended(r, outcome))
<1>1. Ended(r, outcome).pc = "done"
  BY DEF Ended, IdleRun
<1>. QED
  BY <1>1 DEF Undisturbed, ReadingHolds, ConfirmedHolds, WritingHolds, Entitled

(* A diff says of each surface that differs what is desired and what is    *)
(* live.                                                                   *)
LEMMA DiffFacts ==
    ASSUME NEW d, NEW l
    PROVE  \A s \in Surfaces :
              IF s \in DOMAIN Diff(d, l) THEN Diff(d, l)[s] = <<d[s], l[s]>>
              ELSE d[s] = l[s]
BY DEF Diff

(* It is a diff of surfaces.                                               *)
LEMMA DiffDomain ==
    ASSUME NEW d, NEW l
    PROVE  DOMAIN Diff(d, l) \subseteq Surfaces
BY DEF Diff

(* Reading and deciding: the gate sees an operator take the diff when the  *)
(* second pass reads the grant, and give it up when that pass ends.        *)
LEMMA ReadingImplements ==
    ASSUME UndisturbedInv, NEW r \in Runs,
           \/ Start(r) \/ ReadIssue(r) \/ ReadTimeline(r) \/ ReadRole(r) \/ ReadSettings(r)
    PROVE  Undisturbed(run'[r], live', owner') /\ Gated!GatedNext
<1>. DEFINE x == run[r]
<1>0. /\ x \in Run
      /\ run \in [Runs -> Run]
      /\ RunLocated(x)
      /\ issue \in [IssueNumbers -> Issue]
      /\ live \in SettingsMap
      /\ Undisturbed(x, live, owner)
  BY DEF UndisturbedInv, TypeInv, TypeOK, IssueTypeOK, Located
<1>same. live' = live /\ issue' = issue /\ owner' = owner
  BY DEF Start, ReadIssue, ReadTimeline, ReadRole, ReadSettings, SetRun
<1>set. ASSUME NEW value, SetRun(r, value)
        PROVE  run' = [run EXCEPT ![r] = value] /\ run'[r] = value
  BY <1>0, <1>set DEF SetRun
<1>1. CASE Start(r)
  <2>1. PICK d \in Declared, c \in DiffIds \cup {NoDiff}, p \in BOOLEAN :
           SetRun(r, [IdleRun EXCEPT !.pc = "issue", !.desired = d,
                                     !.confirm = c, !.pinOk = p])
    BY <1>1 DEF Start, Possibly
  <2>. DEFINE value == [IdleRun EXCEPT !.pc = "issue", !.desired = d,
                                       !.confirm = c, !.pinOk = p]
  <2>2. run' = [run EXCEPT ![r] = value] /\ run'[r] = value
    BY <1>set, <2>1
  <2>3. value.pc = "issue" /\ value.pass = 1
    BY DEF IdleRun
  <2>. HIDE DEF value
  <2>4. Gated!GatedNext
    BY <1>0, <1>same, <2>2, <2>3, KeepsOrGivesUp DEF Entitled
  <2>. QED
    BY <2>2, <2>3, <2>4 DEF Undisturbed, ReadingHolds, ConfirmedHolds, WritingHolds
<1>2. CASE ReadIssue(r)
  <2>1. CASE OpenIssues = {}
    <3>1. run' = [run EXCEPT ![r] = Ended(x, "refuse")] /\ run'[r] = Ended(x, "refuse")
      BY <1>2, <1>set, <2>1 DEF ReadIssue
    <3>. QED
      BY <1>0, <1>same, <3>1, EndedIsUndisturbed, KeepsOrGivesUp
  <2>2. CASE OpenIssues # {}
    <3>. DEFINE value == [x EXCEPT !.pc = "timeline", !.seen = SelectIssue(Existing),
                                   !.ambiguous = Ambiguous]
    <3>1. run' = [run EXCEPT ![r] = value] /\ run'[r] = value
      BY <1>2, <1>set, <2>2 DEF ReadIssue
    <3>2. /\ value.pc = "timeline" /\ value.pass = x.pass
          /\ value.desired = x.desired /\ value.confirm = x.confirm
      BY <1>0 DEF Run
    <3>. HIDE DEF value
    <3>3. Gated!GatedNext
      BY <1>0, <1>same, <3>1, <3>2, KeepsOrGivesUp DEF Entitled
    <3>. QED
      BY <1>0, <1>2, <1>same, <3>1, <3>2, <3>3
         DEF ReadIssue, Undisturbed, ReadingHolds, ConfirmedHolds, WritingHolds
  <2>. QED
    BY <2>1, <2>2
<1>3. CASE ReadTimeline(r)
  <2>. DEFINE i == issue[x.seen]
  <2>0. x.pc = "timeline" /\ x.seen \in IssueNumbers /\ i \in Issue
    BY <1>0, <1>3 DEF ReadTimeline, RunLocated
  <2>1. CASE ~ HasConsent(i)
    <3>. DEFINE value == [x EXCEPT !.pc = "settings", !.seen = 0, !.k = 1,
                                   !.ambiguous = FALSE, !.consent = NoConsent]
    <3>1. run' = [run EXCEPT ![r] = value] /\ run'[r] = value
      BY <1>3, <1>set, <2>1 DEF ReadTimeline
    <3>2. /\ value.pc = "settings" /\ value.pass = x.pass /\ value.k = 1
          /\ value.desired = x.desired /\ value.confirm = x.confirm
          /\ value.consent = NoConsent
      BY <1>0 DEF Run
    <3>3. ~ NoConsent.granted
      BY DEF NoConsent
    <3>. HIDE DEF value
    <3>4. Gated!GatedNext
      BY <1>0, <1>same, <3>1, <3>2, <3>3, KeepsOrGivesUp DEF Entitled
    <3>. QED
      BY <1>0, <1>same, <2>0, <3>1, <3>2, <3>4
         DEF Undisturbed, ReadingHolds, ConfirmedHolds, WritingHolds
  <2>2. CASE HasConsent(i)
    <3>. DEFINE g == CurrentConsent(i)
                c == [id |-> g.id, granted |-> g.by \in Humans,
                      edited |-> NonHumanEditAfterGrant(i)]
                who == {g.by}
                value == [x EXCEPT !.pc = "role", !.seen = 0, !.giver = who, !.consent = c]
    <3>1. run' = [run EXCEPT ![r] = value] /\ run'[r] = value
      BY <1>3, <1>set, <2>2 DEF ReadTimeline
    <3>. HIDE DEF c, who
    <3>2. /\ value.pc = "role" /\ value.pass = x.pass
          /\ value.desired = x.desired /\ value.confirm = x.confirm
          /\ value.consent = c
      BY <1>0 DEF Run
    <3>. HIDE DEF value
    <3>3. Undisturbed(run'[r], live', owner')
      BY <1>0, <1>same, <2>0, <3>1, <3>2
         DEF Undisturbed, ReadingHolds, ConfirmedHolds, WritingHolds
    <3>4. CASE ~ Entitled(value)
      BY <1>0, <1>same, <3>1, <3>3, <3>4, KeepsOrGivesUp
    <3>5. CASE Entitled(value)
      <4>1. x.pass = 2 /\ c.id = x.confirm /\ c.granted /\ ~c.edited
        BY <3>2, <3>5 DEF Entitled
      <4>2. g.id = x.confirm /\ g.by \in Humans /\ ~NonHumanEditAfterGrant(i)
        BY <4>1 DEF c
      <4>3. g.id \in DiffIds
        BY <2>0, <2>2, CurrentConsentType DEF Grant
      <4>4. x.confirm \in Consented
        BY <2>0, <2>2, <4>2, <4>3 DEF Consented
      <4>5. x.confirm = Diff(x.desired, live)
        BY <1>0, <2>0, <4>1 DEF Undisturbed, ConfirmedHolds
      <4>6. \A s \in DOMAIN x.confirm : live[s] = x.confirm[s][2]
        <5>1. \A s \in DOMAIN x.confirm : x.confirm[s] = <<x.desired[s], live[s]>>
          BY <4>5, DiffFacts, DiffDomain
        <5>. QED
          BY <5>1
      <4>7. ~ Entitled(x)
        BY <2>0 DEF Entitled
      <4>. QED
        BY <1>0, <1>same, <3>1, <3>2, <3>3, <3>5, <4>4, <4>6, <4>7, TakesTheDiff
    <3>. QED
      BY <3>4, <3>5
  <2>. QED
    BY <2>1, <2>2
<1>4. CASE ReadRole(r)
  <2>1. PICK lookupOk \in BOOLEAN :
           SetRun(r, [x EXCEPT !.pc = "settings", !.k = 1, !.giver = {},
              !.consent.granted = @ /\ lookupOk /\ x.giver \subseteq admins])
    BY <1>4 DEF ReadRole, Possibly
  <2>. DEFINE c == [x.consent EXCEPT
                       !.granted = @ /\ lookupOk /\ x.giver \subseteq admins]
              value == [x EXCEPT !.pc = "settings", !.k = 1, !.giver = {}, !.consent = c]
  <2>2. x.consent \in Consent
    BY <1>0 DEF Run
  <2>3. /\ c.id = x.consent.id
        /\ c.edited = x.consent.edited
        /\ c.granted => x.consent.granted
    BY <2>2 DEF Consent
  <2>4. run' = [run EXCEPT ![r] = value] /\ run'[r] = value
    BY <1>0, <1>set, <2>1 DEF Run
  <2>. HIDE DEF c
  <2>5. /\ value.pc = "settings" /\ value.pass = x.pass /\ value.k = 1
        /\ value.desired = x.desired /\ value.confirm = x.confirm
        /\ value.consent = c
    BY <1>0 DEF Run
  <2>6. x.pc = "role"
    BY <1>4 DEF ReadRole
  <2>. HIDE DEF value
  <2>7. Entitled(value) => Entitled(x)
    BY <2>3, <2>5, <2>6 DEF Entitled
  <2>8. Gated!GatedNext
    BY <1>0, <1>same, <2>4, <2>5, <2>7, KeepsOrGivesUp
  <2>. QED
    BY <1>0, <1>same, <2>4, <2>5, <2>6, <2>8
       DEF Undisturbed, ReadingHolds, ConfirmedHolds, WritingHolds
<1>5. CASE ReadSettings(r)
  <2>. DEFINE s == ReadOrder[x.k]
              snap == [x.snap EXCEPT ![s] = live[s]]
              next == x.k + 1
              pc == IF x.k = Len(ReadOrder) THEN "decide" ELSE "settings"
              value == [x EXCEPT !.snap = snap, !.k = next, !.pc = pc]
  <2>1. /\ x.pc = "settings" /\ x.k \in 1..Len(ReadOrder) /\ s \in Surfaces
        /\ Len(ReadOrder) \in Nat
    BY <1>0, <1>5, OrderFacts DEF ReadSettings, RunLocated
  <2>2. run' = [run EXCEPT ![r] = value] /\ run'[r] = value
    BY <1>0, <1>5, <1>set DEF ReadSettings, Run
  <2>3. /\ snap \in SettingsMap /\ snap[s] = live[s]
        /\ \A other \in Surfaces : other # s => snap[other] = x.snap[other]
    BY <1>0, <2>1 DEF Run, SettingsMap
  <2>4. \A i \in 1..x.k : snap[ReadOrder[i]] = live[ReadOrder[i]]
    <3>. SUFFICES ASSUME NEW i \in 1..x.k PROVE snap[ReadOrder[i]] = live[ReadOrder[i]]
      OBVIOUS
    <3>1. ReadOrder[i] \in Surfaces
      BY <2>1, OrderFacts
    <3>2. CASE ReadOrder[i] = s
      BY <2>3, <3>2
    <3>3. CASE ReadOrder[i] # s
      <4>1. i \in 1..x.k - 1
        BY <2>1, <3>3
      <4>2. x.snap[ReadOrder[i]] = live[ReadOrder[i]]
        BY <1>0, <2>1, <4>1 DEF Undisturbed, ReadingHolds
      <4>. QED
        BY <2>3, <3>1, <3>3, <4>2
    <3>. QED
      BY <3>2, <3>3
  <2>5. CASE x.k = Len(ReadOrder)
    <3>1. \A other \in Surfaces : \E i \in 1..x.k : ReadOrder[i] = other
      BY <2>5, ReconcileAssumption DEF Permutes
    <3>2. \A other \in Surfaces : snap[other] = live[other]
      BY <2>4, <3>1
    <3>3. snap = live
      BY <1>0, <2>3, <3>2 DEF SettingsMap
    <3>4. pc = "decide"
      BY <2>5
    <3>. HIDE DEF snap, next, pc
    <3>5. /\ value.pc = "decide" /\ value.pass = x.pass /\ value.snap = live
          /\ value.desired = x.desired /\ value.confirm = x.confirm
          /\ value.consent = x.consent
      BY <1>0, <3>3, <3>4 DEF Run
    <3>. HIDE DEF value
    <3>6. Entitled(value) = Entitled(x)
      BY <2>1, <3>5 DEF Entitled
    <3>7. Gated!GatedNext
      BY <1>0, <1>same, <2>2, <3>5, <3>6, KeepsOrGivesUp
    <3>. QED
      BY <1>0, <1>same, <2>1, <2>2, <3>5, <3>7
         DEF Undisturbed, ReadingHolds, ConfirmedHolds, WritingHolds
  <2>6. CASE x.k # Len(ReadOrder)
    <3>1. pc = "settings" /\ next - 1 = x.k
      BY <2>1, <2>6
    <3>. HIDE DEF snap, next, pc
    <3>2. /\ value.pc = "settings" /\ value.pass = x.pass /\ value.snap = snap
          /\ value.desired = x.desired /\ value.confirm = x.confirm
          /\ value.consent = x.consent /\ value.k = next
      BY <1>0, <3>1 DEF Run
    <3>. HIDE DEF value
    <3>3. Entitled(value) = Entitled(x)
      BY <2>1, <3>2 DEF Entitled
    <3>4. Gated!GatedNext
      BY <1>0, <1>same, <2>2, <3>2, <3>3, KeepsOrGivesUp
    <3>. QED
      BY <1>0, <1>same, <2>1, <2>2, <2>4, <3>1, <3>2, <3>4
         DEF Undisturbed, ReadingHolds, ConfirmedHolds, WritingHolds
  <2>. QED
    BY <2>5, <2>6
<1>. QED
  BY <1>1, <1>2, <1>3, <1>4, <1>5

(* Acting: the gate sees the entries of the diff land one by one, and the  *)
(* operator give up when the run ends.                                     *)
LEMMA ActingImplements ==
    ASSUME UndisturbedInv, NEW r \in Runs,
           \/ Decide(r) \/ VoidConsent(r) \/ DecideAgain(r) \/ ApplyGuard(r)
           \/ WriteSurface(r) \/ SkipSecurity(r) \/ Fail(r)
    PROVE  /\ Undisturbed(run'[r], live', owner')
           /\ [Gated!GatedNext]_(Gated!gatedVars)
<1>. DEFINE x == run[r]
<1>0. /\ x \in Run
      /\ run \in [Runs -> Run]
      /\ RunLocated(x)
      /\ live \in SettingsMap
      /\ Undisturbed(x, live, owner)
  BY DEF UndisturbedInv, TypeInv, TypeOK, Located
<1>owner. owner' = owner
  BY DEF Decide, VoidConsent, DecideAgain, ApplyGuard, WriteSurface, SkipSecurity, Fail, SetRun
<1>set. ASSUME NEW value, SetRun(r, value)
        PROVE  run' = [run EXCEPT ![r] = value] /\ run'[r] = value
  BY <1>0, <1>set DEF SetRun
<1>ended. ASSUME NEW outcome, SetRun(r, Ended(x, outcome)), live' = live, issue' = issue
          PROVE  Undisturbed(run'[r], live', owner') /\ Gated!GatedNext
  <2>1. run' = [run EXCEPT ![r] = Ended(x, outcome)] /\ run'[r] = Ended(x, outcome)
    BY <1>set, <1>ended
  <2>. QED
    BY <1>0, <1>ended, <2>1, EndedIsUndisturbed, KeepsOrGivesUp
<1>1. CASE Decide(r)
  <2>0. x.pc = "decide" /\ x.pass = 1 /\ live' = live /\ issue' = issue
    BY <1>1 DEF Decide
  <2>1. CASE ReconcileDecision(x) = "apply"
    <3>1. run' = [run EXCEPT ![r] = ReadAgain(x)] /\ run'[r] = ReadAgain(x)
      BY <1>1, <1>set, <2>1 DEF Decide
    <3>2. /\ ReadAgain(x).pc = "issue"
          /\ ReadAgain(x).desired = x.desired
          /\ ReadAgain(x).confirm = x.confirm
      BY <1>0 DEF ReadAgain, Run
    <3>3. Diff(x.desired, x.snap) = x.confirm
      BY <2>1 DEF ReconcileDecision
    <3>4. x.snap = live
      BY <1>0, <2>0 DEF Undisturbed, ReadingHolds
    <3>5. Gated!GatedNext
      BY <1>0, <2>0, <3>1, <3>2, KeepsOrGivesUp DEF Entitled
    <3>. QED
      BY <2>0, <3>1, <3>2, <3>3, <3>4, <3>5
         DEF Undisturbed, ReadingHolds, ConfirmedHolds, WritingHolds
  <2>2. CASE ReconcileDecision(x) # "apply" /\ x.consent.edited
    <3>. DEFINE value == [x EXCEPT !.pc = "void", !.outcome = ReconcileDecision(x)]
    <3>1. run' = [run EXCEPT ![r] = value] /\ run'[r] = value
      BY <1>1, <1>set, <2>2 DEF Decide
    <3>2. value.pc = "void" /\ value.pass = x.pass
      BY <1>0 DEF Run
    <3>. HIDE DEF value
    <3>3. Gated!GatedNext
      BY <1>0, <2>0, <3>1, <3>2, KeepsOrGivesUp DEF Entitled
    <3>. QED
      BY <3>1, <3>2, <3>3 DEF Undisturbed, ReadingHolds, ConfirmedHolds, WritingHolds
  <2>3. CASE ReconcileDecision(x) # "apply" /\ ~ x.consent.edited
    BY <1>1, <1>ended, <2>0, <2>3 DEF Decide
  <2>. QED
    BY <2>1, <2>2, <2>3
<1>2. CASE VoidConsent(r)
  <2>1. /\ run' = [run EXCEPT ![r] = Ended(x, x.outcome)]
        /\ run'[r] = Ended(x, x.outcome)
        /\ live' = live /\ x.pc = "void"
    BY <1>2, <1>set DEF VoidConsent
  <2>2. EntitledTo(x) = EntitledTo(Ended(x, x.outcome))
    BY <2>1, EndedIsUndisturbed DEF EntitledTo, Entitled
  <2>3. Ticket' = Ticket
    BY <1>0, <2>1, <2>2, TicketMoves DEF Ticket
  <2>. QED
    BY <2>1, <2>3, EndedIsUndisturbed, Reconsiders
<1>3. CASE DecideAgain(r)
  <2>0. x.pc = "decide" /\ x.pass = 2 /\ live' = live /\ issue' = issue
    BY <1>3 DEF DecideAgain
  <2>1. CASE ReconcileDecision(x) = "apply"
    <3>. DEFINE value == [x EXCEPT !.pc = "guard", !.k = 1]
    <3>1. run' = [run EXCEPT ![r] = value] /\ run'[r] = value
      BY <1>3, <1>set, <2>1 DEF DecideAgain
    <3>2. /\ value.pc = "guard" /\ value.pass = x.pass /\ value.snap = x.snap
          /\ value.desired = x.desired /\ value.confirm = x.confirm
          /\ value.consent = x.consent
      BY <1>0 DEF Run
    <3>. HIDE DEF value
    <3>3. Entitled(x)
      BY <2>0, <2>1 DEF Entitled, ReconcileDecision, Authorized, Disturbed
    <3>4. Entitled(value)
      BY <3>2, <3>3 DEF Entitled
    <3>5. Gated!GatedNext
      BY <1>0, <2>0, <3>1, <3>2, <3>3, KeepsOrGivesUp
    <3>. QED
      BY <1>0, <2>0, <3>1, <3>2, <3>4, <3>5
         DEF Undisturbed, ReadingHolds, ConfirmedHolds, WritingHolds
  <2>2. CASE ReconcileDecision(x) # "apply"
    BY <1>3, <1>ended, <2>0, <2>2 DEF DecideAgain
  <2>. QED
    BY <2>1, <2>2
<1>4. CASE ApplyGuard(r)
  <2>0. x.pc = "guard" /\ live' = live /\ issue' = issue
    BY <1>4 DEF ApplyGuard
  <2>1. CASE GuardHolds(r)
    <3>. DEFINE value == [x EXCEPT !.pc = "write", !.k = 1]
    <3>1. run' = [run EXCEPT ![r] = value] /\ run'[r] = value
      BY <1>4, <1>set, <2>1 DEF ApplyGuard
    <3>2. /\ value.pc = "write" /\ value.pass = x.pass
          /\ value.desired = x.desired /\ value.confirm = x.confirm
          /\ value.consent = x.consent
      BY <1>0 DEF Run
    <3>. HIDE DEF value
    <3>3. Entitled(x)
      BY <1>0, <2>0 DEF Undisturbed, WritingHolds
    <3>4. Entitled(value)
      BY <2>0, <3>2, <3>3 DEF Entitled
    <3>5. Gated!GatedNext
      BY <1>0, <2>0, <3>1, <3>2, <3>3, KeepsOrGivesUp
    <3>6. x.confirm = Diff(x.desired, live)
      BY <1>0, <2>0, <3>3 DEF Entitled, Undisturbed, ConfirmedHolds
    <3>7. \A s \in Surfaces : IF s \in DOMAIN x.confirm THEN x.confirm[s][1] = x.desired[s]
                                ELSE live[s] = x.desired[s]
      <4>1. \A s \in Surfaces :
               /\ s \in DOMAIN x.confirm => x.confirm[s] = <<x.desired[s], live[s]>>
               /\ s \notin DOMAIN x.confirm => x.desired[s] = live[s]
        BY <3>6, DiffFacts
      <4>2. \A s \in Surfaces : s \in DOMAIN x.confirm => x.confirm[s][1] = x.desired[s]
        BY <4>1
      <4>. QED
        BY <4>1, <4>2
    <3>8. owner = "ruleset" => live[Branch] = x.desired[Branch]
      BY <2>1 DEF GuardHolds
    <3>. QED
      BY <1>owner, <2>0, <3>1, <3>2, <3>4, <3>5, <3>7, <3>8
         DEF Undisturbed, ReadingHolds, ConfirmedHolds, WritingHolds
  <2>2. CASE ~ GuardHolds(r)
    BY <1>4, <1>ended, <2>0, <2>2 DEF ApplyGuard
  <2>. QED
    BY <2>1, <2>2
<1>after. ASSUME NEW skip, x.pc = "write",
                 \A s \in Surfaces : live'[s] = live[s] \/ live'[s] = x.desired[s]
          PROVE  /\ Undisturbed(AfterWrite(r, skip), live', owner')
                 /\ Entitled(x)
                 /\ Entitled(AfterWrite(r, skip)) => AfterWrite(r, skip).confirm = x.confirm
  <2>. DEFINE all == x.skipped \cup skip
              next == x.k + 1
              done == [x EXCEPT !.skipped = all, !.k = next]
  <2>1. AfterWrite(r, skip) = IF x.k = Len(WriteOrder) THEN Ended(done, "apply") ELSE done
    BY DEF AfterWrite
  <2>. HIDE DEF all, next
  <2>2. /\ done.pc = "write" /\ done.pass = x.pass
        /\ done.desired = x.desired /\ done.confirm = x.confirm
        /\ done.consent = x.consent
    BY <1>0, <1>after DEF Run
  <2>. HIDE DEF done
  <2>3. Entitled(x)
    BY <1>0, <1>after DEF Undisturbed, WritingHolds
  <2>4. Entitled(done)
    BY <1>after, <2>2, <2>3 DEF Entitled
  <2>5. Undisturbed(done, live', owner')
    <3>1. Branch \in Surfaces
      BY ReconcileAssumption
    <3>2. /\ owner = "ruleset" => live[Branch] = x.desired[Branch]
          /\ \A s \in Surfaces :
                IF s \in DOMAIN x.confirm THEN x.confirm[s][1] = x.desired[s]
                ELSE live[s] = x.desired[s]
      BY <1>0, <1>after DEF Undisturbed, WritingHolds
    <3>. QED
      BY <1>after, <1>owner, <2>2, <2>4, <3>1, <3>2
         DEF Undisturbed, ReadingHolds, ConfirmedHolds, WritingHolds
  <2>. QED
    BY <2>1, <2>2, <2>3, <2>5, EndedIsUndisturbed
<1>5. CASE WriteSurface(r)
  <2>. DEFINE s == WriteOrder[x.k]
  <2>0. /\ x.pc = "write" /\ issue' = issue /\ s \in Surfaces
        /\ live' = IF s = Branch /\ owner = "ruleset" THEN live
                   ELSE [live EXCEPT ![s] = x.desired[s]]
    BY <1>0, <1>5, OrderFacts DEF WriteSurface, RunLocated, Payload
  <2>1. /\ run' = [run EXCEPT ![r] = AfterWrite(r, {})]
        /\ run'[r] = AfterWrite(r, {})
    BY <1>5, <1>set DEF WriteSurface
  <2>2. \A other \in Surfaces : live'[other] = live[other] \/ live'[other] = x.desired[other]
    BY <1>0, <2>0 DEF SettingsMap
  <2>3. /\ Undisturbed(run'[r], live', owner')
        /\ Entitled(x)
        /\ Entitled(AfterWrite(r, {})) => AfterWrite(r, {}).confirm = x.confirm
    BY <1>after, <2>0, <2>1, <2>2
  <2>4. CASE live' = live
    BY <1>0, <2>0, <2>1, <2>3, <2>4, KeepsOrGivesUp
  <2>5. CASE live' # live
    <3>1. s \in DOMAIN x.confirm /\ x.confirm[s][1] = x.desired[s]
      <4>1. IF s \in DOMAIN x.confirm THEN x.confirm[s][1] = x.desired[s]
            ELSE live[s] = x.desired[s]
        BY <1>0, <2>0 DEF Undisturbed, WritingHolds
      <4>2. live[s] # x.desired[s]
        BY <1>0, <2>0, <2>5 DEF SettingsMap
      <4>. QED
        BY <4>1, <4>2
    <3>2. live' = [live EXCEPT ![s] = x.confirm[s][1]]
      BY <2>0, <2>5, <3>1
    <3>3. Gated!GatedNext
      BY <1>0, <2>0, <2>1, <2>3, <3>1, <3>2, LandsAnEntry
    <3>. QED
      BY <2>3, <3>3
  <2>. QED
    BY <2>4, <2>5
<1>6. CASE SkipSecurity(r)
  <2>0. x.pc = "write" /\ live' = live /\ issue' = issue
    BY <1>6 DEF SkipSecurity
  <2>1. /\ run' = [run EXCEPT ![r] = AfterWrite(r, {Security})]
        /\ run'[r] = AfterWrite(r, {Security})
    BY <1>6, <1>set DEF SkipSecurity
  <2>2. /\ Undisturbed(run'[r], live', owner')
        /\ Entitled(x)
        /\ Entitled(AfterWrite(r, {Security})) => AfterWrite(r, {Security}).confirm = x.confirm
    BY <1>after, <2>0, <2>1
  <2>. QED
    BY <1>0, <2>0, <2>1, <2>2, KeepsOrGivesUp
<1>7. CASE Fail(r)
  BY <1>7, <1>ended DEF Fail
<1>. QED
  BY <1>1, <1>2, <1>3, <1>4, <1>5, <1>6, <1>7

-----------------------------------------------------------------------------
(* The steps of the detectors and the world: they reconsider consents.     *)
LEMMA OthersImplement ==
    ASSUME \/ \E d \in Detectors : DetStart(d) \/ DetStep(d) \/ DetFail(d)
           \/ Environment,
           "setting" \notin World
    PROVE  run' = run /\ live' = live /\ owner' = owner /\ Gated!GatedNext
<1>1. run' = run /\ live' = live /\ owner' = owner
  BY DEF DetStart, DetStep, DetFail, DetReadSettings, DetReadIssue, DetReadTimeline,
     DetRevoke, DetComment, DetList, DetPost, SetDet, Environment
<1>2. Ticket' = Ticket
  BY <1>1 DEF Ticket
<1>. QED
  BY <1>1, <1>2, Reconsiders

(* Every step of the protocol is a step of the gate, or none, and keeps    *)
(* what the proof of that rests on.                                        *)
LEMMA NextImplements ==
    ASSUME "setting" \notin World, \A q, r \in Runs : q = r
    PROVE  UndisturbedInv /\ [Next]_vars =>
               UndisturbedInv' /\ [Gated!GatedNext]_(Gated!gatedVars)
<1>. SUFFICES ASSUME UndisturbedInv, [Next]_vars
              PROVE  UndisturbedInv' /\ [Gated!GatedNext]_(Gated!gatedVars)
  OBVIOUS
<1>1. TypeInv /\ TypeInv'
  BY NextKeepsTypes DEF UndisturbedInv
<1>2. ASSUME NEW r \in Runs, Start(r) \/ RunStep(r) \/ Fail(r)
      PROVE  UndisturbedInv' /\ [Gated!GatedNext]_(Gated!gatedVars)
  <2>1. Undisturbed(run'[r], live', owner') /\ [Gated!GatedNext]_(Gated!gatedVars)
    BY <1>2, ReadingImplements, ActingImplements DEF RunStep
  <2>2. \A q \in Runs : Undisturbed(run'[q], live', owner')
    BY <2>1
  <2>. QED
    BY <1>1, <2>1, <2>2 DEF UndisturbedInv
<1>3. CASE \/ \E d \in Detectors : DetStart(d) \/ DetStep(d) \/ DetFail(d)
           \/ Environment
  BY <1>1, <1>3, OthersImplement DEF UndisturbedInv
<1>4. CASE UNCHANGED vars
  <2>1. Ticket' = Ticket /\ Consented' = Consented
    BY <1>4 DEF vars, Ticket, Consented
  <2>. QED
    BY <1>1, <1>4, <2>1 DEF UndisturbedInv, vars, Gated!gatedVars
<1>. QED
  BY <1>2, <1>3, <1>4 DEF Next

(* Where one operator reconciles a repository whose settings nobody else   *)
(* changes, every write is an entry of a diff a human consented to, that   *)
(* was true when the operator took it: reconciliation implements the gate. *)
THEOREM ReconcileImplementsGate ==
    ASSUME "setting" \notin World, \A q, r \in Runs : q = r
    PROVE  Spec => ImplementsGatedApply
<1>1. Init => UndisturbedInv /\ Gated!GatedInit
  <2>. SUFFICES ASSUME Init PROVE UndisturbedInv /\ Gated!GatedInit
    OBVIOUS
  <2>1. \A r \in Runs : run[r].pc = "idle"
    BY DEF Init, IdleRun
  <2>2. \A r \in Runs : ~ Entitled(run[r])
    BY <2>1 DEF Entitled
  <2>3. \A r \in Runs : EntitledTo(run[r]) = NoDiff
    BY <2>2 DEF EntitledTo
  <2>4. Gated!GatedInit
    BY <2>3, ConsentedType, SameSettings DEF Gated!GatedInit, Ticket, Init
  <2>. QED
    BY <2>1, <2>4, InitHasTypes
       DEF UndisturbedInv, Undisturbed, ReadingHolds, ConfirmedHolds, WritingHolds
<1>. QED
  BY <1>1, NextImplements, PTL DEF Spec, ImplementsGatedApply, Gated!GatedSpec

=============================================================================
