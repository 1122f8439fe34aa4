------------------------ MODULE ReconcileAuditProofs ------------------------
(***************************************************************************)
(* Proofs that no reconcile run writes without fresh authorization, that   *)
(* it writes what its operator reviewed and that its audit comment is      *)
(* true, for every value of the constants: any number of operators at work *)
(* at once, beside any number of detectors, in any world.  And that        *)
(* outdated consent authorizes nothing once the detector has reported,     *)
(* where there is one tracking issue with at most one label of consent on  *)
(* it.                                                                     *)
(***************************************************************************)
EXTENDS ReconcileAudit, VoidAudit, ReconcileProofs

(* What a second pass has learned, by how far it has come, is backed by    *)
(* what was true at some moment of it.                                     *)

SeenOpen(r, w) == Again(r) /\ r.pc # "issue" => w.open

SeenSole(r, w) ==
    /\ Again(r) /\ r.pc = "timeline" /\ ~r.ambiguous => w.sole
    /\ /\ Again(r)
       /\ r.pc \in {"role", "settings", "decide"}
       /\ ~r.ambiguous
       /\ r.consent.id # NoDiff
       => w.sole

Rests(r) == r.consent.granted /\ ~r.consent.edited /\ r.consent.id = r.confirm

SeenConsent(r, w) ==
    /\ Again(r) /\ r.pc = "role" /\ Rests(r) => r.giver # {} /\ r.giver \subseteq w.granters
    /\ Again(r) /\ r.pc \in {"settings", "decide"} /\ Rests(r) =>
          w.granters \cap w.admins # {}

Cleared(r, w) ==
    r.pc \in {"guard", "write"} =>
        r.pass = 2 /\ w.open /\ w.sole /\ w.granters \cap w.admins # {}

Vouched(r, w) == SeenOpen(r, w) /\ SeenSole(r, w) /\ SeenConsent(r, w) /\ Cleared(r, w)

AuthorityInv == TypeInv /\ \A r \in Runs : Vouched(run[r], saw[r])

-----------------------------------------------------------------------------
(* What one watches for.                                                   *)

(* The history of a second pass only grows.                                *)
LEMMA WatchGrows ==
    ASSUME NEW r \in Runs, saw' = [q \in Runs |-> Watch(q)],
           Again(run[r]), Again(run'[r])
    PROVE  /\ saw[r].open => saw'[r].open
           /\ saw[r].sole => saw'[r].sole
           /\ saw[r].granters \subseteq saw'[r].granters
           /\ saw[r].admins \subseteq saw'[r].admins
<1>1. saw'[r] = Watch(r)
  OBVIOUS
<1>. QED
  BY <1>1 DEF Watch

(* And it takes in what is true after the step.                            *)
LEMMA WatchSees ==
    ASSUME NEW r \in Runs, saw' = [q \in Runs |-> Watch(q)], Again(run'[r]), issue' = issue
    PROVE  /\ OpenIssues # {} => saw'[r].open
           /\ (\A m, n \in OpenIssues : m = n) => saw'[r].sole
           /\ Granters(run'[r].confirm) \subseteq saw'[r].granters
           /\ admins' \subseteq saw'[r].admins
<1>1. saw'[r] = Watch(r)
  OBVIOUS
<1>2. OpenIssues' = OpenIssues
  BY DEF OpenIssues
<1>3. Granters(run[r].confirm)' = Granters(run'[r].confirm)
  BY DEF Granters, HasConsent, CurrentConsent, NonHumanEditAfterGrant
<1>. QED
  BY <1>1, <1>2, <1>3 DEF Watch, Sees

(* A run that does not move stays vouched for.                             *)
LEMMA RestingStaysVouched ==
    ASSUME NEW r \in Runs, saw' = [q \in Runs |-> Watch(q)],
           run'[r] = run[r], Vouched(run[r], saw[r])
    PROVE  Vouched(run'[r], saw'[r])
<1>1. CASE Again(run[r])
  <2>. DEFINE w == saw[r]
              v == saw'[r]
  <2>1. /\ w.open => v.open
        /\ w.sole => v.sole
        /\ w.granters \subseteq v.granters
        /\ w.admins \subseteq v.admins
    BY <1>1, WatchGrows
  <2>. HIDE DEF w, v
  <2>2. Vouched(run[r], w) => Vouched(run[r], v)
    BY <2>1 DEF Vouched, SeenOpen, SeenSole, SeenConsent, Cleared
  <2>. QED
    BY <2>2 DEF w, v
<1>2. CASE ~Again(run[r])
  BY <1>2 DEF Vouched, SeenOpen, SeenSole, SeenConsent, Cleared, Again
<1>. QED
  BY <1>1, <1>2

(* Nothing need be seen of a run that is not in its second pass, or only   *)
(* begins it.                                                              *)
LEMMA NothingToVouchFor ==
    ASSUME NEW r, NEW w, r.pc \in {"idle", "done", "issue"} \/ r.pass = 1,
           r.pc \notin {"guard", "write"}
    PROVE  Vouched(r, w)
BY DEF Vouched, SeenOpen, SeenSole, SeenConsent, Cleared, Again

-----------------------------------------------------------------------------
(* A step of a run leaves it vouched for.                                  *)
LEMMA StepStaysVouched ==
    ASSUME TypeInv, NEW r \in Runs, Start(r) \/ RunStep(r) \/ Fail(r),
           saw' = [q \in Runs |-> Watch(q)],
           Vouched(run[r], saw[r])
    PROVE  Vouched(run'[r], saw'[r])
<1>. DEFINE w == saw[r]
            v == saw'[r]
<1>0. /\ run[r] \in Run
      /\ run \in [Runs -> Run]
      /\ RunLocated(run[r])
      /\ issue \in [IssueNumbers -> Issue]
  BY DEF TypeInv, TypeOK, IssueTypeOK, Located
<1>set. ASSUME NEW value, SetRun(r, value)
        PROVE  run'[r] = value /\ admins' = admins
  BY <1>0, <1>set DEF SetRun
<1>ended. \A outcome : /\ Ended(run[r], outcome).pc = "done"
                       /\ Vouched(Ended(run[r], outcome), v)
  <2>1. \A outcome : Ended(run[r], outcome).pc = "done"
    BY DEF Ended, IdleRun
  <2>. QED
    BY <2>1, NothingToVouchFor
<1>1. CASE Start(r)
  <2>1. PICK d \in Declared, c \in DiffIds \cup {NoDiff}, p \in BOOLEAN :
           SetRun(r, [IdleRun EXCEPT !.pc = "issue", !.desired = d,
                                     !.confirm = c, !.pinOk = p])
    BY <1>1 DEF Start, Possibly
  <2>2. run'[r] = [IdleRun EXCEPT !.pc = "issue", !.desired = d, !.confirm = c, !.pinOk = p]
    BY <1>0, <2>1 DEF SetRun
  <2>3. run'[r].pc = "issue"
    BY <2>2, IdleType DEF Run
  <2>. QED
    BY <2>3, NothingToVouchFor
<1>2. CASE ReadIssue(r)
  <2>1. CASE OpenIssues = {}
    BY <1>2, <1>set, <1>ended, <2>1 DEF ReadIssue
  <2>2. CASE OpenIssues # {}
    <3>1. run'[r] = [run[r] EXCEPT !.pc = "timeline", !.seen = SelectIssue(Existing),
                                   !.ambiguous = Ambiguous]
      BY <1>0, <1>2, <2>2 DEF ReadIssue, SetRun
    <3>2. /\ run'[r].pc = "timeline"
          /\ run'[r].ambiguous = Ambiguous
          /\ issue' = issue
      BY <1>0, <1>2, <3>1 DEF ReadIssue, Run
    <3>3. CASE Again(run'[r])
      <4>1. v.open /\ (~Ambiguous => v.sole)
        BY <2>2, <3>2, <3>3, WatchSees DEF Ambiguous
      <4>. HIDE DEF v
      <4>. QED
        BY <3>2, <4>1 DEF Vouched, SeenOpen, SeenSole, SeenConsent, Cleared, v
    <3>4. CASE ~Again(run'[r])
      BY <3>2, <3>4 DEF Vouched, SeenOpen, SeenSole, SeenConsent, Cleared
    <3>. QED
      BY <3>3, <3>4
  <2>. QED
    BY <2>1, <2>2
<1>3. CASE ReadTimeline(r)
  <2>. DEFINE i == issue[run[r].seen]
  <2>1. i \in Issue /\ run[r].seen \in IssueNumbers
    BY <1>0, <1>3 DEF ReadTimeline, RunLocated
  <2>2. CASE ~HasConsent(i)
    <3>1. run'[r] = [run[r] EXCEPT !.pc = "settings", !.seen = 0, !.k = 1,
                               !.ambiguous = FALSE, !.consent = NoConsent]
      BY <1>0, <1>3, <2>2 DEF ReadTimeline, SetRun
    <3>2. /\ run'[r].pc = "settings"
          /\ run'[r].consent = NoConsent
          /\ run'[r].pass = run[r].pass
          /\ run[r].pc = "timeline"
      BY <1>0, <1>3, <3>1 DEF Run, ReadTimeline
    <3>3. Again(run'[r]) => Again(run[r])
      BY <3>2 DEF Again
    <3>4. Again(run'[r]) => v.open
      BY <3>2, <3>3, WatchGrows DEF Vouched, SeenOpen
    <3>. HIDE DEF v
    <3>. QED
      BY <3>2, <3>4 DEF Vouched, SeenOpen, SeenSole, SeenConsent, Cleared, NoConsent, Rests, v
  <2>3. CASE HasConsent(i)
    <3>. DEFINE g == CurrentConsent(i)
                c == [id |-> g.id, granted |-> g.by \in Humans,
                      edited |-> NonHumanEditAfterGrant(i)]
    <3>1. run'[r] = [run[r] EXCEPT !.pc = "role", !.seen = 0, !.giver = {g.by},
                                   !.consent = c]
      BY <1>0, <1>3, <2>3 DEF ReadTimeline, SetRun
    <3>2. /\ run'[r].pc = "role"
          /\ run'[r].consent = c
          /\ run'[r].giver = {g.by}
          /\ run'[r].ambiguous = run[r].ambiguous
          /\ run'[r].confirm = run[r].confirm
          /\ run'[r].pass = run[r].pass
          /\ run[r].pc = "timeline"
          /\ issue' = issue
      <4>. HIDE DEF c, g
      <4>. QED
        BY <1>0, <1>3, <3>1 DEF Run, ReadTimeline
    <3>3. g \in Grant
      BY <2>1, <2>3, CurrentConsentType
    <3>4. g = [id |-> g.id, by |-> g.by]
      BY <3>3 DEF Grant
    <3>5. CASE Again(run'[r])
      <4>1. Again(run[r])
        BY <3>2, <3>5 DEF Again
      <4>2. v.open /\ (~run[r].ambiguous => v.sole)
        BY <3>2, <3>5, <4>1, WatchGrows DEF Vouched, SeenOpen, SeenSole
      <4>3. Rests(run'[r]) => run'[r].giver # {} /\ run'[r].giver \subseteq v.granters
        <5>. SUFFICES ASSUME Rests(run'[r]) PROVE g.by \in v.granters
          BY <3>2
        <5>1. c.granted /\ ~c.edited /\ c.id = run'[r].confirm
          BY <3>2, Zenon DEF Rests
        <5>a. g.by \in Humans /\ ~NonHumanEditAfterGrant(i) /\ g.id = run'[r].confirm
          BY <5>1
        <5>2. g.by \in Granters(run'[r].confirm)
          BY <2>1, <2>3, <3>4, <5>a DEF Granters
        <5>. QED
          BY <3>2, <3>5, <5>2, WatchSees
      <4>. HIDE DEF v
      <4>. QED
        BY <3>2, <4>2, <4>3 DEF Vouched, SeenOpen, SeenSole, SeenConsent, Cleared, v
    <3>6. CASE ~Again(run'[r])
      BY <3>2, <3>6 DEF Vouched, SeenOpen, SeenSole, SeenConsent, Cleared
    <3>. QED
      BY <3>5, <3>6
  <2>. QED
    BY <2>2, <2>3
<1>4. CASE ReadRole(r)
  <2>1. PICK lookupOk \in BOOLEAN :
           SetRun(r, [run[r] EXCEPT !.pc = "settings", !.k = 1, !.giver = {},
              !.consent.granted = @ /\ lookupOk /\ run[r].giver \subseteq admins])
    BY <1>4 DEF ReadRole, Possibly
  <2>. DEFINE c == [run[r].consent EXCEPT
                       !.granted = @ /\ lookupOk /\ run[r].giver \subseteq admins]
  <2>a. run[r].consent \in Consent
    BY <1>0 DEF Run
  <2>b. /\ c.id = run[r].consent.id
        /\ c.edited = run[r].consent.edited
        /\ c.granted => run[r].consent.granted /\ run[r].giver \subseteq admins
    BY <2>a DEF Consent
  <2>c. run'[r] = [run[r] EXCEPT !.pc = "settings", !.k = 1, !.giver = {}, !.consent = c]
    BY <1>0, <2>1 DEF SetRun, Run
  <2>d. run'[r].consent = c
    <3>. HIDE DEF c
    <3>. QED
      BY <1>0, <2>c DEF Run
  <2>2. /\ run'[r].pc = "settings"
        /\ run'[r].ambiguous = run[r].ambiguous
        /\ run'[r].confirm = run[r].confirm
        /\ run'[r].pass = run[r].pass
        /\ run'[r].consent.id = run[r].consent.id
        /\ run'[r].consent.edited = run[r].consent.edited
        /\ run'[r].consent.granted =>
              run[r].consent.granted /\ run[r].giver \subseteq admins
        /\ run[r].pc = "role"
        /\ issue' = issue
        /\ admins' = admins
    <3>. HIDE DEF c
    <3>. QED
      BY <1>0, <1>4, <1>set, <2>1, <2>b, <2>c, <2>d DEF Run, ReadRole
  <2>3. CASE Again(run'[r])
    <3>1. Again(run[r])
      BY <2>2, <2>3 DEF Again
    <3>2. /\ v.open
          /\ ~run[r].ambiguous /\ run[r].consent.id # NoDiff => v.sole
      BY <2>2, <2>3, <3>1, WatchGrows DEF Vouched, SeenOpen, SeenSole
    <3>3. Rests(run'[r]) => v.granters \cap v.admins # {}
      <4>. SUFFICES ASSUME Rests(run'[r]) PROVE v.granters \cap v.admins # {}
        OBVIOUS
      <4>1. Rests(run[r]) /\ run[r].giver \subseteq admins
        BY <2>2 DEF Rests
      <4>2. run[r].giver # {} /\ run[r].giver \subseteq w.granters
        BY <2>2, <3>1, <4>1 DEF Vouched, SeenConsent
      <4>3. w.granters \subseteq v.granters
        BY <2>3, <3>1, WatchGrows
      <4>4. admins \subseteq v.admins
        BY <2>2, <2>3, WatchSees
      <4>. QED
        BY <4>1, <4>2, <4>3, <4>4
    <3>. HIDE DEF v
    <3>. QED
      BY <2>2, <3>2, <3>3 DEF Vouched, SeenOpen, SeenSole, SeenConsent, Cleared, v
  <2>4. CASE ~Again(run'[r])
    BY <2>2, <2>4 DEF Vouched, SeenOpen, SeenSole, SeenConsent, Cleared
  <2>. QED
    BY <2>3, <2>4
<1>grows. ASSUME run'[r].pass = run[r].pass, run[r].pc \notin {"idle", "done"},
                 Again(run'[r])
          PROVE  /\ Again(run[r])
                 /\ w.open => v.open
                 /\ w.sole => v.sole
                 /\ w.granters \cap w.admins # {} => v.granters \cap v.admins # {}
  <2>1. Again(run[r])
    BY <1>grows DEF Again
  <2>. QED
    BY <1>grows, <2>1, WatchGrows
<1>5. CASE ReadSettings(r)
  <2>. DEFINE s == ReadOrder[run[r].k]
              snap == [run[r].snap EXCEPT ![s] = live[s]]
              next == run[r].k + 1
  <2>1. run'[r] = [run[r] EXCEPT !.snap = snap, !.k = next,
               !.pc = IF run[r].k = Len(ReadOrder) THEN "decide" ELSE "settings"]
    BY <1>0, <1>5 DEF ReadSettings, SetRun, Run
  <2>2. /\ run'[r].pc \in {"settings", "decide"}
        /\ run[r].pc = "settings"
        /\ run'[r].pass = run[r].pass
        /\ run'[r].ambiguous = run[r].ambiguous
        /\ run'[r].consent = run[r].consent
        /\ run'[r].confirm = run[r].confirm
    <3>. HIDE DEF snap, next
    <3>. QED
      BY <1>0, <1>5, <2>1 DEF Run, ReadSettings
  <2>3. Rests(run'[r]) = Rests(run[r])
    BY <2>2 DEF Rests
  <2>. HIDE DEF v, w
  <2>4. Vouched(run[r], w)
    BY DEF w
  <2>. QED
    BY <1>grows, <2>2, <2>3, <2>4
       DEF Vouched, SeenOpen, SeenSole, SeenConsent, Cleared, v
<1>6. CASE Decide(r)
  <2>1. CASE ReconcileDecision(run[r]) = "apply"
    <3>1. run'[r] = ReadAgain(run[r])
      BY <1>6, <1>set, <2>1 DEF Decide
    <3>2. run'[r].pc = "issue"
      BY <1>0, <3>1 DEF ReadAgain, Run
    <3>. QED
      BY <3>2, NothingToVouchFor
  <2>2. CASE ReconcileDecision(run[r]) # "apply" /\ run[r].consent.edited
    <3>1. run'[r] = [run[r] EXCEPT !.pc = "void", !.outcome = ReconcileDecision(run[r])]
      BY <1>6, <1>set, <2>2 DEF Decide
    <3>2. run'[r].pc = "void" /\ run'[r].pass = 1
      BY <1>0, <1>6, <3>1 DEF Decide, Run
    <3>. QED
      BY <3>2, NothingToVouchFor
  <2>3. CASE ReconcileDecision(run[r]) # "apply" /\ ~run[r].consent.edited
    BY <1>6, <1>set, <1>ended, <2>3 DEF Decide
  <2>. QED
    BY <2>1, <2>2, <2>3
<1>7. CASE VoidConsent(r)
  BY <1>7, <1>set, <1>ended DEF VoidConsent
<1>8. CASE DecideAgain(r)
  <2>1. CASE ReconcileDecision(run[r]) = "apply"
    <3>1. run'[r] = [run[r] EXCEPT !.pc = "guard", !.k = 1]
      BY <1>8, <1>set, <2>1 DEF DecideAgain
    <3>2. run'[r].pc = "guard" /\ run'[r].pass = run[r].pass
      BY <1>0, <3>1 DEF Run
    <3>3. /\ run[r].pc = "decide"
          /\ run[r].pass = 2
          /\ ~run[r].ambiguous
          /\ run[r].consent.id # NoDiff
          /\ Rests(run[r])
      BY <1>8, <2>1 DEF DecideAgain, ReconcileDecision, Authorized, Disturbed, Rests
    <3>4. Again(run[r]) /\ Again(run'[r])
      BY <3>2, <3>3 DEF Again
    <3>5. w.open /\ w.sole /\ w.granters \cap w.admins # {}
      BY <3>3, <3>4 DEF Vouched, SeenOpen, SeenSole, SeenConsent
    <3>6. v.open /\ v.sole /\ v.granters \cap v.admins # {}
      BY <1>grows, <3>2, <3>3, <3>4, <3>5
    <3>. HIDE DEF v
    <3>. QED
      BY <3>2, <3>3, <3>6 DEF Vouched, SeenOpen, SeenSole, SeenConsent, Cleared, v
  <2>2. CASE ReconcileDecision(run[r]) # "apply"
    BY <1>8, <1>set, <1>ended, <2>2 DEF DecideAgain
  <2>. QED
    BY <2>1, <2>2
<1>on. ASSUME run[r].pc \in {"guard", "write"}, run'[r].pc \in {"guard", "write"},
              run'[r].pass = run[r].pass
       PROVE  Vouched(run'[r], saw'[r])
  <2>1. /\ run[r].pass = 2
        /\ w.open /\ w.sole /\ w.granters \cap w.admins # {}
    BY <1>on DEF Vouched, Cleared
  <2>2. v.open /\ v.sole /\ v.granters \cap v.admins # {}
    BY <1>on, <1>grows, <2>1 DEF Again
  <2>. HIDE DEF v
  <2>. QED
    BY <1>on, <2>1, <2>2 DEF Vouched, SeenOpen, SeenSole, SeenConsent, Cleared, v
<1>9. CASE ApplyGuard(r)
  <2>1. CASE GuardHolds(r)
    <3>1. run'[r] = [run[r] EXCEPT !.pc = "write", !.k = 1]
      BY <1>9, <1>set, <2>1 DEF ApplyGuard
    <3>. QED
      BY <1>0, <1>9, <1>on, <3>1 DEF ApplyGuard, Run
  <2>2. CASE ~GuardHolds(r)
    BY <1>9, <1>set, <1>ended, <2>2 DEF ApplyGuard
  <2>. QED
    BY <2>1, <2>2
<1>after. ASSUME NEW skip, run[r].pc = "write", run'[r] = AfterWrite(r, skip)
          PROVE  Vouched(run'[r], saw'[r])
  <2>. DEFINE done == [run[r] EXCEPT !.skipped = @ \cup skip, !.k = @ + 1]
  <2>1. CASE run[r].k = Len(WriteOrder)
    <3>1. run'[r] = Ended(done, "apply")
      BY <1>after, <2>1 DEF AfterWrite
    <3>2. run'[r].pc = "done"
      BY <3>1 DEF Ended, IdleRun
    <3>. QED
      BY <3>2, NothingToVouchFor
  <2>2. CASE run[r].k # Len(WriteOrder)
    <3>1. run'[r] = done
      BY <1>after, <2>2 DEF AfterWrite
    <3>2. run'[r].pc = "write" /\ run'[r].pass = run[r].pass
      BY <1>0, <1>after, <3>1 DEF Run
    <3>. QED
      BY <1>after, <1>on, <3>2
  <2>. QED
    BY <2>1, <2>2
<1>10. CASE WriteSurface(r)
  BY <1>10, <1>set, <1>after DEF WriteSurface
<1>11. CASE SkipSecurity(r)
  BY <1>11, <1>set, <1>after DEF SkipSecurity
<1>12. CASE Fail(r)
  BY <1>12, <1>set, <1>ended DEF Fail
<1>. QED
  BY <1>1, <1>2, <1>3, <1>4, <1>5, <1>6, <1>7, <1>8, <1>9, <1>10, <1>11, <1>12
     DEF RunStep

-----------------------------------------------------------------------------
(* One process moves at a time.                                            *)
LEMMA OthersRest ==
    ASSUME TypeInv, Next, NEW r \in Runs, ~ (Start(r) \/ RunStep(r) \/ Fail(r))
    PROVE  run'[r] = run[r]
<1>1. ASSUME NEW q \in Runs, q # r, Start(q) \/ RunStep(q) \/ Fail(q)
      PROVE  run'[r] = run[r]
  <2>1. \E value : SetRun(q, value)
    BY <1>1 DEF Start, RunStep, Fail, ReadIssue, ReadTimeline, ReadRole,
       ReadSettings, Decide, VoidConsent, DecideAgain, ApplyGuard, WriteSurface,
       SkipSecurity
  <2>2. run \in [Runs -> Run]
    BY DEF TypeInv, TypeOK
  <2>. QED
    BY <1>1, <2>1, <2>2 DEF SetRun
<1>2. ASSUME NEW d \in Detectors, DetStart(d) \/ DetStep(d) \/ DetFail(d)
      PROVE  run' = run
  BY <1>2 DEF DetStart, DetStep, DetFail, DetReadSettings, DetReadIssue,
     DetReadTimeline, DetRevoke, DetComment, DetList, DetPost, SetDet
<1>3. ASSUME Environment
      PROVE  run' = run
  BY <1>3 DEF Environment, ChangeSetting
<1>. QED
  BY <1>1, <1>2, <1>3 DEF Next

(* Every step keeps every run vouched for.                                 *)
LEMMA NextKeepsAuthority ==
    AuthorityInv /\ [AuditNext]_<<vars, auditVars>> => AuthorityInv'
<1>. SUFFICES ASSUME AuthorityInv, [AuditNext]_<<vars, auditVars>>
              PROVE  AuthorityInv'
  OBVIOUS
<1>1. TypeInv'
  BY NextKeepsTypes DEF AuthorityInv, AuditNext, vars
<1>2. CASE AuditNext
  <2>1. saw' = [q \in Runs |-> Watch(q)]
    BY <1>2 DEF AuditNext
  <2>2. ASSUME NEW r \in Runs PROVE Vouched(run'[r], saw'[r])
    <3>1. CASE Start(r) \/ RunStep(r) \/ Fail(r)
      BY <2>1, <3>1, StepStaysVouched DEF AuthorityInv
    <3>2. CASE ~ (Start(r) \/ RunStep(r) \/ Fail(r))
      BY <1>2, <2>1, <3>2, OthersRest, RestingStaysVouched DEF AuthorityInv, AuditNext
    <3>. QED
      BY <3>1, <3>2
  <2>. QED
    BY <1>1, <2>2 DEF AuthorityInv
<1>3. CASE UNCHANGED <<vars, auditVars>>
  BY <1>1, <1>3 DEF AuthorityInv, vars, auditVars
<1>. QED
  BY <1>2, <1>3

(* No run writes, or is about to, unless in its second pass an issue was   *)
(* open, no second one was, and an admin's undisturbed grant named the     *)
(* diff that its operator confirmed.                                       *)
THEOREM WritesAreAuthorized == AuditSpec => []WritesRestOnFreshConsent
<1>1. AuditInit => AuthorityInv
  <2>. SUFFICES ASSUME AuditInit PROVE AuthorityInv
    OBVIOUS
  <2>1. TypeInv
    BY InitHasTypes DEF AuditInit
  <2>2. \A r \in Runs : run[r].pc = "idle"
    BY DEF AuditInit, Init, IdleRun
  <2>. QED
    BY <2>1, <2>2, NothingToVouchFor DEF AuthorityInv
<1>2. AuthorityInv => WritesRestOnFreshConsent
  BY DEF AuthorityInv, Vouched, Cleared, WritesRestOnFreshConsent
<1>. QED
  BY <1>1, <1>2, NextKeepsAuthority, PTL DEF AuditSpec

-----------------------------------------------------------------------------
(* What lands.  From the last read of a surface to its write it is as the  *)
(* run saw it, and from then on as the run desires it, unless others       *)
(* changed it.                                                             *)

(* What a second pass has read and not written yet still holds.            *)
SnapHolds(r, d, l) ==
    r.pass = 2 /\ r.pc \in {"settings", "decide", "guard"} =>
        \A s \in Surfaces \ d : HasRead(r, s) => l[s] = r.snap[s]

(* Half-way through the writes the surfaces are half as desired.           *)
WritesHold(r, d, l) ==
    r.pc = "write" =>
        \A i \in 1..Len(WriteOrder) : WriteOrder[i] \notin d =>
            /\ i < r.k => \/ WriteOrder[i] \in r.skipped
                          \/ l[WriteOrder[i]] = r.desired[WriteOrder[i]]
            /\ i >= r.k => l[WriteOrder[i]] = r.snap[WriteOrder[i]]

(* The writes are those of the confirmed diff, and a ruleset that the      *)
(* binding cannot write holds what is desired.                             *)
Reviewed(r, o) ==
    /\ r.pc \in {"guard", "write"} =>
          r.pass = 2 /\ Diff(r.desired, r.snap) = r.confirm
    /\ r.pc = "write" /\ o = "ruleset" => r.snap[Branch] = r.desired[Branch]

(* The audit comment of an apply comes last.                               *)
Reported(r, d, l) ==
    r.outcome = "apply" =>
        /\ r.pc = "done" /\ r.pass = 2
        /\ \A s \in Surfaces \ (r.skipped \cup d) : l[s] = r.desired[s]

Landing(r, d, l, o) ==
    SnapHolds(r, d, l) /\ WritesHold(r, d, l) /\ Reviewed(r, o) /\ Reported(r, d, l)

LandingInv == TypeInv /\ \A r \in Runs : Landing(run[r], drifted[r], live, owner)

-----------------------------------------------------------------------------
(* What enforces branch protection stays what it is.                       *)
LEMMA OwnerStays ==
    ASSUME [Next]_vars
    PROVE  owner' = owner
<1>1. ASSUME NEW q \in Runs, Start(q) \/ RunStep(q) \/ Fail(q)
      PROVE  owner' = owner
  BY <1>1 DEF Start, RunStep, Fail, ReadIssue, ReadTimeline, ReadRole, ReadSettings,
     Decide, VoidConsent, DecideAgain, ApplyGuard, WriteSurface, SkipSecurity, SetRun
<1>2. ASSUME NEW d \in Detectors, DetStart(d) \/ DetStep(d) \/ DetFail(d)
      PROVE  owner' = owner
  BY <1>2 DEF DetStart, DetStep, DetFail, DetReadSettings, DetReadIssue,
     DetReadTimeline, DetRevoke, DetComment, DetList, DetPost, SetDet
<1>. QED
  BY <1>1, <1>2 DEF Next, Environment, ChangeSetting, vars

(* A surface that has been read and is not drifted was not drifted before, *)
(* and a run that rests sees it unchanged.                                 *)
LEMMA DriftGrows ==
    ASSUME NEW r \in Runs, drifted' = [q \in Runs |-> Drift(q)],
           run'[r].pass = 2, NEW s \in Surfaces, s \notin drifted'[r],
           HasRead(run'[r], s),
           ~ (s = Branch /\ run[r].pc = "guard" /\ run'[r].pc = "write")
    PROVE  /\ s \notin drifted[r]
           /\ run'[r] = run[r] => live'[s] = live[s]
<1>1. drifted'[r] = Drift(r)
  OBVIOUS
<1>. QED
  BY <1>1 DEF Drift

(* What a resting run has read stays as it read it.                        *)
LEMMA RestingStaysLanding ==
    ASSUME TypeInv, NEW r \in Runs, drifted' = [q \in Runs |-> Drift(q)],
           run'[r] = run[r], owner' = owner,
           Landing(run[r], drifted[r], live, owner)
    PROVE  Landing(run'[r], drifted'[r], live', owner')
<1>1. ASSUME NEW s \in Surfaces, s \notin drifted'[r], run[r].pass = 2, HasRead(run[r], s)
      PROVE  s \notin drifted[r] /\ live'[s] = live[s]
  BY <1>1, DriftGrows
<1>2. SnapHolds(run'[r], drifted'[r], live')
  BY <1>1 DEF Landing, SnapHolds
<1>3. WritesHold(run'[r], drifted'[r], live')
  BY <1>1, OrderFacts DEF Landing, WritesHold, Reviewed, HasRead
<1>4. Reported(run'[r], drifted'[r], live')
  BY <1>1 DEF Landing, Reported, HasRead
<1>. QED
  BY <1>2, <1>3, <1>4 DEF Landing, Reviewed

(* Nothing lands, and nothing is reported, outside of these states.        *)
LEMMA NothingLands ==
    ASSUME NEW r, NEW d, NEW l, NEW o, r.outcome # "apply",
           r.pc \notin {"settings", "decide", "guard", "write"}
    PROVE  Landing(r, d, l, o)
BY DEF Landing, SnapHolds, WritesHold, Reviewed, Reported

(* A run that writes a surface, or may skip it, leaves it as desired.      *)
LEMMA WritingLands ==
    ASSUME TypeInv, NEW r \in Runs, drifted' = [q \in Runs |-> Drift(q)],
           Landing(run[r], drifted[r], live, owner), owner' = owner,
           run[r].pc = "write", NEW skip, run'[r] = AfterWrite(r, skip),
           \A s \in Surfaces : s # WriteOrder[run[r].k] => live'[s] = live[s],
           LET s == WriteOrder[run[r].k]
           IN  \/ s \in skip
               \/ live'[s] = run[r].desired[s]
               \/ s = Branch /\ owner = "ruleset" /\ live' = live
    PROVE  Landing(run'[r], drifted'[r], live', owner')
<1>. DEFINE x == run[r]
            all == x.skipped \cup skip
            next == x.k + 1
            done == [x EXCEPT !.skipped = all, !.k = next]
<1>0. /\ x \in Run
      /\ x.k \in 1..Len(WriteOrder)
      /\ Len(WriteOrder) \in Nat
      /\ \A i \in 1..Len(WriteOrder) : WriteOrder[i] \in Surfaces
      /\ \A s \in Surfaces : \E i \in 1..Len(WriteOrder) : WriteOrder[i] = s
      /\ \A i, j \in 1..Len(WriteOrder) : WriteOrder[i] = WriteOrder[j] => i = j
  BY OrderFacts, ReconcileAssumption DEF TypeInv, TypeOK, Located, RunLocated, Permutes
<1>1. /\ x.pass = 2 /\ Diff(x.desired, x.snap) = x.confirm
      /\ owner = "ruleset" => x.snap[Branch] = x.desired[Branch]
      /\ x.outcome # "apply"
  BY DEF Landing, Reviewed, Reported
<1>2. ASSUME NEW i \in 1..Len(WriteOrder), WriteOrder[i] \notin drifted[r]
      PROVE  /\ i <= x.k => \/ WriteOrder[i] \in all
                            \/ live'[WriteOrder[i]] = x.desired[WriteOrder[i]]
             /\ i > x.k => live'[WriteOrder[i]] = x.snap[WriteOrder[i]]
  <2>1. /\ i < x.k => \/ WriteOrder[i] \in x.skipped
                       \/ live[WriteOrder[i]] = x.desired[WriteOrder[i]]
        /\ i >= x.k => live[WriteOrder[i]] = x.snap[WriteOrder[i]]
    BY <1>2 DEF Landing, WritesHold
  <2>2. WriteOrder[i] \in Surfaces
    BY <1>0
  <2>3. CASE i = x.k
    BY <1>0, <1>1, <2>1, <2>3
  <2>4. CASE i # x.k
    <3>1. WriteOrder[i] # WriteOrder[x.k]
      BY <1>0, <2>4
    <3>2. live'[WriteOrder[i]] = live[WriteOrder[i]]
      BY <2>2, <3>1
    <3>. QED
      BY <1>0, <2>1, <2>4, <3>2
  <2>. QED
    BY <2>3, <2>4
<1>3. AfterWrite(r, skip) = IF x.k = Len(WriteOrder) THEN Ended(done, "apply") ELSE done
  BY DEF AfterWrite
<1>. HIDE DEF all, next
<1>4. /\ done.pc = "write" /\ done.pass = x.pass /\ done.desired = x.desired
      /\ done.snap = x.snap /\ done.confirm = x.confirm /\ done.outcome = x.outcome
      /\ done.skipped = all /\ done.k = next
  BY <1>0 DEF Run
<1>5. CASE x.k # Len(WriteOrder)
  <2>1. run'[r] = done
    BY <1>3, <1>5
  <2>2. \A s \in Surfaces : s \notin drifted'[r] => s \notin drifted[r]
    BY <1>1, <1>4, <2>1, DriftGrows DEF HasRead
  <2>3. WritesHold(done, drifted'[r], live')
    BY <1>0, <1>2, <1>4, <2>2 DEF WritesHold, next
  <2>. HIDE DEF done
  <2>. QED
    BY <1>1, <1>4, <2>1, <2>3 DEF Landing, SnapHolds, Reviewed, Reported
<1>6. CASE x.k = Len(WriteOrder)
  <2>1. run'[r] = Ended(done, "apply")
    BY <1>3, <1>6
  <2>. HIDE DEF done
  <2>2. /\ run'[r].pc = "done" /\ run'[r].pass = 2 /\ run'[r].desired = x.desired
        /\ run'[r].skipped = all
    BY <1>1, <1>4, <2>1 DEF Ended, IdleRun
  <2>3. \A s \in Surfaces : s \notin drifted'[r] => s \notin drifted[r]
    BY <1>4, <2>2, DriftGrows DEF HasRead
  <2>4. \A s \in Surfaces : s \notin all \cup drifted'[r] => live'[s] = x.desired[s]
    BY <1>0, <1>2, <1>6, <2>3
  <2>. QED
    BY <2>2, <2>4 DEF Landing, SnapHolds, WritesHold, Reviewed, Reported
<1>. QED
  BY <1>5, <1>6

(* A step of a run keeps what it has read, decided and written.            *)
LEMMA StepLands ==
    ASSUME TypeInv, NEW r \in Runs, Start(r) \/ RunStep(r) \/ Fail(r),
           drifted' = [q \in Runs |-> Drift(q)],
           Landing(run[r], drifted[r], live, owner), owner' = owner
    PROVE  Landing(run'[r], drifted'[r], live', owner')
<1>. DEFINE x == run[r]
<1>0. /\ x \in Run
      /\ run \in [Runs -> Run]
      /\ RunLocated(x)
      /\ issue \in [IssueNumbers -> Issue]
      /\ live \in SettingsMap
  BY DEF TypeInv, TypeOK, IssueTypeOK, Located
<1>set. ASSUME NEW value, SetRun(r, value)
        PROVE  run'[r] = value
  BY <1>0, <1>set DEF SetRun
<1>none. x.pc # "done" => x.outcome # "apply"
  BY DEF Landing, Reported
<1>ended. ASSUME NEW outcome, outcome # "apply", run'[r] = Ended(x, outcome)
          PROVE  Landing(run'[r], drifted'[r], live', owner')
  <2>1. run'[r].pc = "done" /\ run'[r].outcome = outcome
    BY <1>ended DEF Ended, IdleRun
  <2>. QED
    BY <1>ended, <2>1, NothingLands
<1>1. CASE Start(r)
  <2>1. PICK d \in Declared, c \in DiffIds \cup {NoDiff}, p \in BOOLEAN :
           SetRun(r, [IdleRun EXCEPT !.pc = "issue", !.desired = d,
                                     !.confirm = c, !.pinOk = p])
    BY <1>1 DEF Start, Possibly
  <2>2. run'[r] = [IdleRun EXCEPT !.pc = "issue", !.desired = d, !.confirm = c, !.pinOk = p]
    BY <1>set, <2>1
  <2>3. run'[r].pc = "issue" /\ run'[r].outcome = "none"
    BY <2>2 DEF IdleRun
  <2>. QED
    BY <2>3, NothingLands
<1>2. CASE ReadIssue(r)
  <2>1. CASE OpenIssues = {}
    BY <1>2, <1>set, <1>ended, <2>1 DEF ReadIssue
  <2>2. CASE OpenIssues # {}
    <3>1. run'[r] = [x EXCEPT !.pc = "timeline", !.seen = SelectIssue(Existing),
                              !.ambiguous = Ambiguous]
      BY <1>2, <1>set, <2>2 DEF ReadIssue
    <3>2. run'[r].pc = "timeline" /\ run'[r].outcome = x.outcome
      BY <1>0, <3>1 DEF Run
    <3>. QED
      BY <1>2, <1>none, <3>2, NothingLands DEF ReadIssue
  <2>. QED
    BY <2>1, <2>2
<1>first. ASSUME run'[r].pc = "settings", run'[r].k = 1, run'[r].outcome # "apply"
          PROVE  Landing(run'[r], drifted'[r], live', owner')
  <2>1. \A s : ~ HasRead(run'[r], s)
    BY <1>first DEF HasRead
  <2>. QED
    BY <1>first, <2>1 DEF Landing, SnapHolds, WritesHold, Reviewed, Reported
<1>3. CASE ReadTimeline(r)
  <2>. DEFINE i == issue[x.seen]
  <2>1. CASE ~ HasConsent(i)
    <3>1. run'[r] = [x EXCEPT !.pc = "settings", !.seen = 0, !.k = 1,
                              !.ambiguous = FALSE, !.consent = NoConsent]
      BY <1>3, <1>set, <2>1 DEF ReadTimeline
    <3>2. run'[r].pc = "settings" /\ run'[r].k = 1 /\ run'[r].outcome = x.outcome
      BY <1>0, <3>1 DEF Run
    <3>. QED
      BY <1>3, <1>none, <1>first, <3>2 DEF ReadTimeline
  <2>2. CASE HasConsent(i)
    <3>. DEFINE c == [id |-> CurrentConsent(i).id,
                      granted |-> CurrentConsent(i).by \in Humans,
                      edited |-> NonHumanEditAfterGrant(i)]
                who == {CurrentConsent(i).by}
    <3>1. run'[r] = [x EXCEPT !.pc = "role", !.seen = 0, !.giver = who, !.consent = c]
      BY <1>3, <1>set, <2>2 DEF ReadTimeline
    <3>. HIDE DEF c, who
    <3>2. run'[r].pc = "role" /\ run'[r].outcome = x.outcome
      BY <1>0, <3>1 DEF Run
    <3>. QED
      BY <1>3, <1>none, <3>2, NothingLands DEF ReadTimeline
  <2>. QED
    BY <2>1, <2>2
<1>4. CASE ReadRole(r)
  <2>1. PICK lookupOk \in BOOLEAN :
           SetRun(r, [x EXCEPT !.pc = "settings", !.k = 1, !.giver = {},
              !.consent.granted = @ /\ lookupOk /\ x.giver \subseteq admins])
    BY <1>4 DEF ReadRole, Possibly
  <2>2. run'[r] = [x EXCEPT !.pc = "settings", !.k = 1, !.giver = {},
              !.consent.granted = @ /\ lookupOk /\ x.giver \subseteq admins]
    BY <1>set, <2>1
  <2>3. run'[r].pc = "settings" /\ run'[r].k = 1 /\ run'[r].outcome = x.outcome
    BY <1>0, <2>2 DEF Run
  <2>. QED
    BY <1>4, <1>none, <1>first, <2>3 DEF ReadRole
<1>5. CASE ReadSettings(r)
  <2>. DEFINE s == ReadOrder[x.k]
              snap == [x.snap EXCEPT ![s] = live[s]]
              next == x.k + 1
              pc == IF x.k = Len(ReadOrder) THEN "decide" ELSE "settings"
  <2>1. /\ x.pc = "settings" /\ x.k \in 1..Len(ReadOrder) /\ s \in Surfaces
        /\ Len(ReadOrder) \in Nat /\ live' = live
    BY <1>0, <1>5, OrderFacts DEF ReadSettings, RunLocated
  <2>2. run'[r] = [x EXCEPT !.snap = snap, !.k = next, !.pc = pc]
    BY <1>0, <1>5 DEF ReadSettings, SetRun, Run
  <2>3. /\ snap \in SettingsMap /\ snap[s] = live[s]
        /\ \A other \in Surfaces : other # s => snap[other] = x.snap[other]
    BY <1>0, <2>1 DEF Run, SettingsMap
  <2>4. /\ run'[r].pc = pc /\ run'[r].snap = snap /\ run'[r].k = next
        /\ run'[r].pass = x.pass /\ run'[r].outcome = x.outcome
    <3>. HIDE DEF snap, next, pc
    <3>. QED
      BY <1>0, <2>2 DEF Run
  <2>5. ASSUME x.pass = 2, NEW other \in Surfaces \ drifted'[r], HasRead(run'[r], other)
        PROVE  live'[other] = run'[r].snap[other]
    <3>1. CASE other = s
      BY <2>1, <2>3, <2>4, <3>1
    <3>2. CASE other # s
      <4>1. PICK i \in 1..Len(ReadOrder) : ReadOrder[i] = other
        BY ReconcileAssumption DEF Permutes
      <4>2. HasRead(x, other)
        <5>1. CASE x.k = Len(ReadOrder)
          <6>1. i \in 1..x.k - 1
            BY <2>1, <3>2, <4>1, <5>1
          <6>. QED
            BY <2>1, <4>1, <6>1 DEF HasRead
        <5>2. CASE x.k # Len(ReadOrder)
          <6>1. run'[r].pc = "settings"
            BY <2>4, <5>2
          <6>2. PICK j \in 1..next - 1 : ReadOrder[j] = other
            BY <2>4, <2>5, <6>1 DEF HasRead
          <6>3. j \in 1..x.k - 1
            BY <2>1, <3>2, <6>2
          <6>. QED
            BY <2>1, <6>2, <6>3 DEF HasRead
        <5>. QED
          BY <5>1, <5>2
      <4>3. other \notin drifted[r]
        BY <2>1, <2>4, <2>5, DriftGrows
      <4>4. live[other] = x.snap[other]
        BY <2>1, <2>5, <4>2, <4>3 DEF Landing, SnapHolds
      <4>. QED
        BY <2>1, <2>3, <2>4, <3>2, <4>4
    <3>. QED
      BY <3>1, <3>2
  <2>6. pc \in {"settings", "decide"}
    OBVIOUS
  <2>. HIDE DEF snap, next, pc
  <2>. QED
    BY <1>none, <2>1, <2>4, <2>5, <2>6 DEF Landing, SnapHolds, WritesHold, Reviewed, Reported
<1>6. CASE Decide(r)
  <2>1. CASE ReconcileDecision(x) = "apply"
    <3>1. run'[r] = ReadAgain(x)
      BY <1>6, <1>set, <2>1 DEF Decide
    <3>2. run'[r].pc = "issue" /\ run'[r].outcome = x.outcome
      BY <1>0, <3>1 DEF ReadAgain, Run
    <3>. QED
      BY <1>6, <1>none, <3>2, NothingLands DEF Decide
  <2>2. CASE ReconcileDecision(x) # "apply" /\ x.consent.edited
    <3>1. run'[r] = [x EXCEPT !.pc = "void", !.outcome = ReconcileDecision(x)]
      BY <1>6, <1>set, <2>2 DEF Decide
    <3>2. run'[r].pc = "void" /\ run'[r].outcome = ReconcileDecision(x)
      BY <1>0, <3>1 DEF Run
    <3>. QED
      BY <2>2, <3>2, NothingLands
  <2>3. CASE ReconcileDecision(x) # "apply" /\ ~x.consent.edited
    BY <1>6, <1>set, <1>ended, <2>3 DEF Decide
  <2>. QED
    BY <2>1, <2>2, <2>3
<1>7. CASE VoidConsent(r)
  BY <1>7, <1>set, <1>ended, <1>none DEF VoidConsent
<1>8. CASE DecideAgain(r)
  <2>1. CASE ReconcileDecision(x) = "apply"
    <3>1. run'[r] = [x EXCEPT !.pc = "guard", !.k = 1]
      BY <1>8, <1>set, <2>1 DEF DecideAgain
    <3>2. /\ run'[r].pc = "guard" /\ run'[r].pass = x.pass /\ run'[r].snap = x.snap
          /\ run'[r].desired = x.desired /\ run'[r].confirm = x.confirm
          /\ run'[r].outcome = x.outcome
      BY <1>0, <3>1 DEF Run
    <3>3. /\ x.pc = "decide" /\ x.pass = 2 /\ live' = live
          /\ Diff(x.desired, x.snap) = x.confirm
      BY <1>8, <2>1 DEF DecideAgain, ReconcileDecision
    <3>4. \A s \in Surfaces : s \notin drifted'[r] => s \notin drifted[r]
      BY <3>2, <3>3, DriftGrows DEF HasRead
    <3>5. \A s \in Surfaces \ drifted[r] : live[s] = x.snap[s]
      BY <3>3 DEF Landing, SnapHolds, HasRead
    <3>. QED
      BY <1>none, <3>2, <3>3, <3>4, <3>5 DEF Landing, SnapHolds, WritesHold, Reviewed, Reported
  <2>2. CASE ReconcileDecision(x) # "apply"
    BY <1>8, <1>set, <1>ended, <2>2 DEF DecideAgain
  <2>. QED
    BY <2>1, <2>2
<1>9. CASE ApplyGuard(r)
  <2>1. CASE GuardHolds(r)
    <3>1. run'[r] = [x EXCEPT !.pc = "write", !.k = 1]
      BY <1>9, <1>set, <2>1 DEF ApplyGuard
    <3>2. /\ run'[r].pc = "write" /\ run'[r].pass = x.pass /\ run'[r].snap = x.snap
          /\ run'[r].desired = x.desired /\ run'[r].confirm = x.confirm
          /\ run'[r].outcome = x.outcome /\ run'[r].k = 1
      BY <1>0, <3>1 DEF Run
    <3>3. /\ x.pc = "guard" /\ x.pass = 2 /\ live' = live
          /\ Diff(x.desired, x.snap) = x.confirm
      BY <1>9 DEF ApplyGuard, Landing, Reviewed
    <3>4. \A s \in Surfaces : s # Branch /\ s \notin drifted'[r] => s \notin drifted[r]
      BY <3>2, <3>3, DriftGrows DEF HasRead
    <3>5. \A s \in Surfaces \ drifted'[r] : live[s] = x.snap[s]
      BY <2>1, <3>3, <3>4 DEF GuardHolds, Landing, SnapHolds, HasRead
    <3>6. owner = "ruleset" => x.snap[Branch] = x.desired[Branch]
      BY <2>1 DEF GuardHolds
    <3>7. WritesHold(run'[r], drifted'[r], live')
      BY <3>2, <3>3, <3>5, OrderFacts DEF WritesHold
    <3>. QED
      BY <1>none, <3>2, <3>3, <3>6, <3>7 DEF Landing, SnapHolds, Reviewed, Reported
  <2>2. CASE ~GuardHolds(r)
    BY <1>9, <1>set, <1>ended, <2>2 DEF ApplyGuard
  <2>. QED
    BY <2>1, <2>2
<1>10. CASE WriteSurface(r)
  <2>. DEFINE s == WriteOrder[x.k]
  <2>1. /\ run'[r] = AfterWrite(r, {}) /\ x.pc = "write"
        /\ live' = IF s = Branch /\ owner = "ruleset" THEN live
                   ELSE [live EXCEPT ![s] = Payload(x, s)]
    BY <1>10, <1>set DEF WriteSurface
  <2>2. s \in Surfaces
    BY <1>0, <2>1, OrderFacts DEF RunLocated
  <2>3. \A other \in Surfaces : other # s => live'[other] = live[other]
    BY <1>0, <2>1, <2>2 DEF SettingsMap
  <2>4. live'[s] = x.desired[s] \/ (s = Branch /\ owner = "ruleset" /\ live' = live)
    BY <1>0, <2>1, <2>2 DEF SettingsMap, Payload
  <2>. QED
    BY <2>1, <2>3, <2>4, WritingLands
<1>11. CASE SkipSecurity(r)
  BY <1>11, <1>set, WritingLands DEF SkipSecurity
<1>12. CASE Fail(r)
  BY <1>12, <1>set, <1>ended DEF Fail
<1>. QED
  BY <1>1, <1>2, <1>3, <1>4, <1>5, <1>6, <1>7, <1>8, <1>9, <1>10, <1>11, <1>12
     DEF RunStep

-----------------------------------------------------------------------------
(* Every step keeps what every run has read, decided and written.          *)
LEMMA NextKeepsLanding ==
    LandingInv /\ [AuditNext]_<<vars, auditVars>> => LandingInv'
<1>. SUFFICES ASSUME LandingInv, [AuditNext]_<<vars, auditVars>>
              PROVE  LandingInv'
  OBVIOUS
<1>1. TypeInv'
  BY NextKeepsTypes DEF LandingInv, AuditNext, vars
<1>2. CASE AuditNext
  <2>1. drifted' = [q \in Runs |-> Drift(q)] /\ owner' = owner
    BY <1>2, OwnerStays DEF AuditNext
  <2>2. ASSUME NEW r \in Runs
        PROVE  Landing(run'[r], drifted'[r], live', owner')
    <3>1. CASE Start(r) \/ RunStep(r) \/ Fail(r)
      BY <2>1, <3>1, StepLands DEF LandingInv
    <3>2. CASE ~ (Start(r) \/ RunStep(r) \/ Fail(r))
      BY <1>2, <2>1, <3>2, OthersRest, RestingStaysLanding DEF LandingInv, AuditNext
    <3>. QED
      BY <3>1, <3>2
  <2>. QED
    BY <1>1, <2>2 DEF LandingInv
<1>3. CASE UNCHANGED <<vars, auditVars>>
  BY <1>1, <1>3 DEF LandingInv, vars, auditVars
<1>. QED
  BY <1>2, <1>3

(* No run has read or reported anything to begin with.                     *)
LEMMA InitLands == AuditInit => LandingInv
<1>. SUFFICES ASSUME AuditInit PROVE LandingInv
  OBVIOUS
<1>1. TypeInv
  BY InitHasTypes DEF AuditInit
<1>2. \A r \in Runs : run[r].pc = "idle" /\ run[r].outcome = "none"
  BY DEF AuditInit, Init, IdleRun
<1>. QED
  BY <1>1, <1>2, NothingLands DEF LandingInv

(* An audit comment that reports an apply is true: every setting that was  *)
(* not skipped and that nobody else changed is as declared.                *)
THEOREM AuditsAreTruthful == AuditSpec => []AuditIsTruthful
<1>1. LandingInv => AuditIsTruthful
  BY DEF LandingInv, Landing, Reported, AuditIsTruthful
<1>. QED
  BY <1>1, InitLands, NextKeepsLanding, PTL DEF AuditSpec

(* A run changes a setting only as the diff its operator confirmed says,   *)
(* unless others changed that setting after the run had read it.           *)
THEOREM WritesAreReviewed == AuditSpec => OnlyReviewedChangesLand
<1>. DEFINE Write(r, s) == /\ run[r].pc = "write"
                           /\ run'[r] # run[r]
                           /\ live'[s] # live[s]
            Told(r, s) == \/ s \in drifted[r]
                          \/ /\ s \in DOMAIN run[r].confirm
                             /\ run[r].confirm[s] = <<live'[s], live[s]>>
<1>1. ASSUME LandingInv, AuditNext, NEW r \in Runs, NEW s \in Surfaces, Write(r, s)
      PROVE  Told(r, s)
  <2>. DEFINE x == run[r]
  <2>0. /\ x \in Run /\ x.k \in 1..Len(WriteOrder) /\ live \in SettingsMap
        /\ WriteOrder[x.k] \in Surfaces
    BY <1>1, OrderFacts DEF LandingInv, TypeInv, TypeOK, Located, RunLocated
  <2>1. Start(r) \/ RunStep(r) \/ Fail(r)
    BY <1>1, OthersRest DEF LandingInv, AuditNext
  <2>2. WriteSurface(r)
    BY <1>1, <2>1 DEF Start, RunStep, Fail, ReadIssue, ReadTimeline, ReadRole,
       ReadSettings, Decide, VoidConsent, DecideAgain, ApplyGuard, SkipSecurity
  <2>3. s = WriteOrder[x.k] /\ live'[s] = x.desired[s]
    BY <1>1, <2>0, <2>2 DEF WriteSurface, Payload, SettingsMap
  <2>4. CASE s \notin drifted[r]
    <3>1. live[s] = x.snap[s]
      BY <1>1, <2>0, <2>3, <2>4 DEF LandingInv, Landing, WritesHold
    <3>2. x.confirm = Diff(x.desired, x.snap)
      BY <1>1 DEF LandingInv, Landing, Reviewed
    <3>. QED
      BY <1>1, <2>3, <3>1, <3>2 DEF Diff
  <2>. QED
    BY <2>4
<1>2. LandingInv /\ [AuditNext]_<<vars, auditVars>>
      => [\A r \in Runs, s \in Surfaces :
             /\ run[r].pc = "write"
             /\ run'[r] # run[r]
             /\ live'[s] # live[s]
             => \/ s \in drifted[r]
                \/ /\ s \in DOMAIN run[r].confirm
                   /\ run[r].confirm[s] = <<live'[s], live[s]>>]_<<vars, auditVars>>
  BY <1>1
<1>. QED
  BY <1>2, InitLands, NextKeepsLanding, PTL DEF AuditSpec, OnlyReviewedChangesLand

-----------------------------------------------------------------------------
(* Consent that the detector found outdated.                               *)

(* The diffs someone has granted and nobody revoked.                       *)
Active == UNION {ActiveIds(issue[n].grants) : n \in IssueNumbers}

Short(i) ==
    /\ i.grants # <<>> => Len(i.grants) = 1
    /\ i.state = "absent" => i.grants = <<>>

OneGrant == \A n \in IssueNumbers : Short(issue[n])

(* Of the grants a detector has found, only the one it is about to revoke  *)
(* and the one for the diff it reports can still be active.                *)
LapsingHolds(d, found, active) ==
    /\ d.pc \in {"idle", "settings", "issue", "timeline"} => found = {}
    /\ d.pc = "revoke" => found \cap active \subseteq {d.consent}
    /\ d.pc \in {"comment", "list", "post"} =>
          found \cap active \subseteq {Diff(d.desired, d.snap)}

(* A second pass that has read a grant of its diff read an active one.     *)
FreshHolds(r, f) ==
    /\ /\ r.pass = 2
       /\ r.pc \in {"role", "settings", "decide"}
       /\ r.consent.id = r.confirm /\ r.consent.id # NoDiff
       => f
    /\ r.pc \in {"guard", "write"} => r.pass = 2 /\ f

(* The invariant: of the grants that were found outdated by a run that has *)
(* since reported, none is active.                                         *)
VoidInv ==
    /\ TypeInv
    /\ OneGrant
    /\ lapsed \cap Active = {}
    /\ \A d \in Detectors : LapsingHolds(det[d], lapsing[d], Active)
    /\ \A r \in Runs : FreshHolds(run[r], fresh[r])

-----------------------------------------------------------------------------
(* One label of consent at a time.                                         *)

(* Taking a label away leaves a single grant alone or none.                *)
LEMMA WithoutShort ==
    ASSUME NEW grants \in Seq(Grant), NEW id, grants # <<>> => Len(grants) = 1
    PROVE  Without(grants, id) = IF id \in ActiveIds(grants) THEN <<>> ELSE grants
<1>1. CASE \E i \in 1..Len(grants) : grants[i].id = id
  <2>. DEFINE i == CHOOSE j \in 1..Len(grants) : grants[j].id = id
  <2>1. i \in 1..Len(grants)
    BY <1>1
  <2>2. Len(grants) = 1
    BY <2>1, EmptySeq
  <2>3. i = 1
    BY <2>1, <2>2
  <2>4. Without(grants, id) = SubSeq(grants, 1, 0) \o SubSeq(grants, 2, 1)
    BY <1>1, <2>2, <2>3 DEF Without
  <2>5. SubSeq(grants, 1, 0) = <<>> /\ SubSeq(grants, 2, 1) = <<>>
    BY SubSeqEmpty
  <2>6. <<>> \o <<>> = <<>>
    BY ConcatEmptySeq, EmptySeq
  <2>. QED
    BY <1>1, <2>4, <2>5, <2>6 DEF ActiveIds
<1>2. CASE ~ \E i \in 1..Len(grants) : grants[i].id = id
  BY <1>2 DEF Without, ActiveIds
<1>. QED
  BY <1>1, <1>2

(* So an issue keeps a single grant, or none.                              *)
LEMMA EntryKeepsShort ==
    ASSUME NEW i \in Issue, Short(i), NEW id
    PROVE  /\ Short(Unlabeled(i, id, TRUE)) /\ Short(Unlabeled(i, id, FALSE))
           /\ ActiveIds(Unlabeled(i, id, TRUE).grants) = ActiveIds(i.grants) \ {id}
           /\ ActiveIds(Unlabeled(i, id, FALSE).grants) = ActiveIds(i.grants) \ {id}
           /\ Short(EditedByNonHuman(i))
           /\ EditedByNonHuman(i).grants = i.grants
           /\ Short(NewIssue)
           /\ ActiveIds(NewIssue.grants) = {}
<1>1. /\ i.grants \in Seq(Grant)
      /\ i.grants # <<>> => Len(i.grants) = 1
      /\ i.state = "absent" => i.grants = <<>>
  BY DEF Issue, Short
<1>2. Without(i.grants, id) = IF id \in ActiveIds(i.grants) THEN <<>> ELSE i.grants
  BY <1>1, WithoutShort
<1>3. ActiveIds(<<>>) = {}
  BY DEF ActiveIds
<1>4. ActiveIds(Without(i.grants, id)) = ActiveIds(i.grants) \ {id}
  <2>1. CASE id \in ActiveIds(i.grants)
    <3>1. ActiveIds(i.grants) = {i.grants[1].id}
      BY <1>1, <1>3, <2>1 DEF ActiveIds
    <3>. QED
      BY <1>2, <1>3, <2>1, <3>1
  <2>2. CASE id \notin ActiveIds(i.grants)
    BY <1>2, <2>2
  <2>. QED
    BY <2>1, <2>2
<1>5. /\ Unlabeled(i, id, TRUE).grants = Without(i.grants, id)
      /\ Unlabeled(i, id, FALSE).grants = Without(i.grants, id)
      /\ Unlabeled(i, id, TRUE).state = i.state
      /\ Unlabeled(i, id, FALSE).state = i.state
      /\ EditedByNonHuman(i).grants = i.grants
      /\ EditedByNonHuman(i).state = i.state
  BY DEF Unlabeled, EditedByNonHuman, Issue
<1>6. NewIssue.grants = <<>>
  BY DEF NewIssue
<1>7. Short(Unlabeled(i, id, TRUE)) /\ Short(Unlabeled(i, id, FALSE))
  BY <1>1, <1>2, <1>5 DEF Short
<1>8. Short(EditedByNonHuman(i)) /\ Short(NewIssue)
  BY <1>1, <1>5, <1>6 DEF Short
<1>. QED
  BY <1>3, <1>4, <1>5, <1>6, <1>7, <1>8

(* A label on an issue without any is the only one.                        *)
LEMMA LabelKeepsShort ==
    ASSUME NEW i \in Issue, Short(i), MaxGrants <= 1, Len(i.grants) < MaxGrants,
           i.state # "absent", NEW id \in DiffIds, NEW who \in Humans \cup Bots
    PROVE  Short(Labeled(i, id, who))
<1>1. i.grants \in Seq(Grant) /\ MaxGrants \in Nat /\ Len(i.grants) \in Nat
  BY IssueAssumption, LenProperties DEF Issue
<1>2. Len(i.grants) = 0
  BY <1>1
<1>3. i.grants = <<>>
  BY <1>1, <1>2, EmptySeq
<1>4. Without(i.grants, id) = <<>>
  BY <1>1, <1>3, WithoutShort
<1>5. [id |-> id, by |-> who] \in Grant
  BY DEF Grant
<1>6. Len(Append(<<>>, [id |-> id, by |-> who])) = 1
  BY <1>5, EmptySeq, AppendProperties
<1>7. /\ Labeled(i, id, who).grants = Append(<<>>, [id |-> id, by |-> who])
      /\ Labeled(i, id, who).state = i.state
  BY <1>4 DEF Labeled, Issue
<1>. QED
  BY <1>6, <1>7 DEF Short

(* A step that changes one issue keeps the others.                         *)
LEMMA OneEntry ==
    ASSUME issue \in [IssueNumbers -> Issue], OneGrant, NEW n, NEW new,
           n \in IssueNumbers => Short(new),
           issue' = [issue EXCEPT ![n] = new]
    PROVE  OneGrant'
BY DEF OneGrant

(* Reconcile runs, detectors and people keep it at one label.              *)
LEMMA StepsKeepOneGrant ==
    ASSUME TypeInv, OneGrant, [Next]_vars, MaxGrants <= 1
    PROVE  OneGrant'
<1>0. /\ issue \in [IssueNumbers -> Issue]
      /\ \A n \in IssueNumbers : issue[n] \in Issue /\ Short(issue[n])
  BY DEF TypeInv, TypeOK, IssueTypeOK, OneGrant
<1>same. ASSUME issue' = issue PROVE OneGrant'
  BY <1>same DEF OneGrant
<1>taken. ASSUME NEW n, NEW id,
                 \/ issue' = [issue EXCEPT ![n] = Unlabeled(issue[n], id, TRUE)]
                 \/ issue' = [issue EXCEPT ![n] = Unlabeled(issue[n], id, FALSE)]
                 \/ issue' = [issue EXCEPT ![n] = EditedByNonHuman(issue[n])]
                 \/ issue' = [issue EXCEPT ![n] = NewIssue] /\ n \in IssueNumbers
          PROVE  OneGrant'
  <2>1. n \in IssueNumbers => /\ Short(Unlabeled(issue[n], id, TRUE))
                              /\ Short(Unlabeled(issue[n], id, FALSE))
                              /\ Short(EditedByNonHuman(issue[n]))
                              /\ Short(NewIssue)
    BY <1>0, EntryKeepsShort
  <2>2. CASE issue' = [issue EXCEPT ![n] = Unlabeled(issue[n], id, TRUE)]
    BY <1>0, <2>1, <2>2, OneEntry
  <2>3. CASE issue' = [issue EXCEPT ![n] = Unlabeled(issue[n], id, FALSE)]
    BY <1>0, <2>1, <2>3, OneEntry
  <2>4. CASE issue' = [issue EXCEPT ![n] = EditedByNonHuman(issue[n])]
    BY <1>0, <2>1, <2>4, OneEntry
  <2>5. CASE issue' = [issue EXCEPT ![n] = NewIssue] /\ n \in IssueNumbers
    BY <1>0, <2>1, <2>5, OneEntry
  <2>. QED
    BY <1>taken, <2>2, <2>3, <2>4, <2>5
<1>1. ASSUME NEW r \in Runs, Start(r) \/ RunStep(r) \/ Fail(r)
      PROVE  OneGrant'
  <2>1. CASE VoidConsent(r)
    <3>1. \/ issue' = issue
          \/ \E n, id : issue' = [issue EXCEPT ![n] = Unlabeled(issue[n], id, TRUE)]
      BY <2>1 DEF VoidConsent
    <3>. QED
      BY <1>same, <1>taken, <3>1
  <2>2. CASE ~ VoidConsent(r)
    BY <1>1, <1>same, <2>2 DEF Start, RunStep, Fail, ReadIssue, ReadTimeline, ReadRole,
       ReadSettings, Decide, DecideAgain, ApplyGuard, WriteSurface, SkipSecurity
  <2>. QED
    BY <2>1, <2>2
<1>2. ASSUME NEW d \in Detectors, DetStart(d) \/ DetStep(d) \/ DetFail(d)
      PROVE  OneGrant'
  <2>1. CASE DetRevoke(d)
    <3>1. \/ issue' = issue
          \/ \E n, id : issue' = [issue EXCEPT ![n] = Unlabeled(issue[n], id, FALSE)]
      BY <2>1 DEF DetRevoke
    <3>. QED
      BY <1>same, <1>taken, <3>1
  <2>2. CASE DetComment(d)
    <3>1. issue' = issue \/ \E n : issue' = [issue EXCEPT ![n] = EditedByNonHuman(issue[n])]
      BY <2>2 DEF DetComment
    <3>. QED
      BY <1>same, <1>taken, <3>1
  <2>3. CASE DetPost(d)
    <3>1. CASE Existing = IssueNumbers
      BY <1>same, <2>3, <3>1 DEF DetPost
    <3>2. CASE Existing # IssueNumbers
      <4>1. Oldest(IssueNumbers \ Existing) \in IssueNumbers
        BY <3>2, OldestIsMember DEF Existing
      <4>. QED
        BY <1>taken, <2>3, <3>2, <4>1 DEF DetPost
    <3>. QED
      BY <3>1, <3>2
  <2>4. CASE ~ (DetRevoke(d) \/ DetComment(d) \/ DetPost(d))
    BY <1>2, <1>same, <2>4 DEF DetStart, DetStep, DetFail, DetReadSettings, DetReadIssue,
       DetReadTimeline, DetList
  <2>. QED
    BY <2>1, <2>2, <2>3, <2>4
<1>3. ASSUME IssueEvent PROVE OneGrant'
  <2>1. ASSUME NEW n \in IssueNumbers, NEW who \in Humans \cup Bots, NEW id \in DiffIds,
               AddLabel(n, who, id)
        PROVE  OneGrant'
    <3>1. Short(Labeled(issue[n], id, who))
      BY <1>0, <2>1, LabelKeepsShort DEF AddLabel
    <3>. QED
      BY <1>0, <2>1, <3>1, OneEntry DEF AddLabel
  <2>2. ASSUME NEW n \in IssueNumbers, NEW id, RemoveLabel(n, id) \/ BotEdit(n)
        PROVE  OneGrant'
    BY <1>taken, <2>2 DEF RemoveLabel, BotEdit
  <2>3. ASSUME NEW n \in IssueNumbers, CloseIssue(n) \/ ReopenIssue(n)
        PROVE  OneGrant'
    <3>1. /\ issue[n].state # "absent"
          /\ \E state \in {"open", "closed"} :
                issue' = [issue EXCEPT ![n] = [issue[n] EXCEPT !.state = state]]
      BY <1>0, <2>3 DEF CloseIssue, ReopenIssue
    <3>2. \A state \in {"open", "closed"} : Short([issue[n] EXCEPT !.state = state])
      BY <1>0, <3>1 DEF Short, Issue
    <3>. QED
      BY <1>0, <3>1, <3>2, OneEntry
  <2>4. CASE OpenIssue
    <3>1. Oldest(IssueNumbers \ Existing) \in IssueNumbers
      BY <2>4, OldestIsMember DEF Existing, OpenIssue
    <3>. QED
      BY <1>taken, <2>4, <3>1 DEF OpenIssue
  <2>5. ASSUME NEW h, ChangeRole(h) PROVE OneGrant'
    BY <1>same, <2>5 DEF ChangeRole
  <2>. QED
    BY <1>3, <2>1, <2>2, <2>3, <2>4, <2>5 DEF IssueEvent
<1>4. CASE Environment
  BY <1>4, <1>same, <1>3 DEF Environment, ChangeSetting
<1>. QED
  BY <1>same, <1>1, <1>2, <1>4 DEF Next, vars

-----------------------------------------------------------------------------
(* What detectors find.                                                    *)

(* A diff that becomes active has been granted.                            *)
LEMMA ActiveGrows ==
    ASSUME TypeInv'
    PROVE  Active' \subseteq Active \cup Granted
<1>. SUFFICES ASSUME NEW id \in Active', id \notin Active PROVE id \in Granted
  OBVIOUS
<1>1. PICK n \in IssueNumbers : id \in ActiveIds(issue'[n].grants)
  BY DEF Active
<1>2. issue'[n].grants \in Seq(Grant)
  BY DEF TypeInv, TypeOK, IssueTypeOK, Issue
<1>3. id \in DiffIds
  BY <1>1, <1>2, ActiveIdsType
<1>4. id \notin ActiveIds(issue[n].grants)
  BY DEF Active
<1>. QED
  BY <1>1, <1>3, <1>4 DEF Granted

(* The only label of the only issue is the one that get_issue reports.     *)
LEMMA OnlyOneActive ==
    ASSUME TypeInv, OneGrant, NEW n \in IssueNumbers
    PROVE  /\ ActiveIds(issue[n].grants) \subseteq {GrantedDiff(issue[n])}
           /\ ~ HasConsent(issue[n]) => ActiveIds(issue[n].grants) = {}
<1>1. /\ issue[n].grants \in Seq(Grant)
      /\ issue[n].grants # <<>> => Len(issue[n].grants) = 1
  BY DEF TypeInv, TypeOK, IssueTypeOK, Issue, OneGrant, Short
<1>2. CASE issue[n].grants = <<>>
  BY <1>2 DEF ActiveIds, HasConsent
<1>3. CASE issue[n].grants # <<>>
  BY <1>1, <1>3 DEF ActiveIds, GrantedDiff, HasConsent, CurrentConsent
<1>. QED
  BY <1>2, <1>3

(* A detector grants nothing, and the consent it revokes is gone.          *)
LEMMA DetectorGrantsNothing ==
    ASSUME TypeInv, OneGrant, \A m, n \in IssueNumbers : m = n,
           NEW d \in Detectors, DetStart(d) \/ DetStep(d) \/ DetFail(d)
    PROVE  /\ Active' \subseteq Active
           /\ DetRevoke(d) => det[d].consent \notin Active'
<1>0. /\ issue \in [IssueNumbers -> Issue]
      /\ \A n \in IssueNumbers : issue[n] \in Issue /\ Short(issue[n])
  BY DEF TypeInv, TypeOK, IssueTypeOK, OneGrant
<1>same. issue' = issue => Active' = Active
  BY DEF Active
<1>1. CASE DetRevoke(d)
  <2>. DEFINE n == SelectIssue(Existing)
              id == det[d].consent
  <2>1. issue' = IF id \in ActiveIds(issue[n].grants)
                 THEN [issue EXCEPT ![n] = Unlabeled(issue[n], id, FALSE)]
                 ELSE issue
    BY <1>1 DEF DetRevoke
  <2>2. CASE Existing = {}
    <3>1. \A m \in IssueNumbers : issue[m].grants = <<>>
      BY <1>0, <2>2 DEF Existing, Short
    <3>2. Active = {}
      BY <3>1 DEF Active, ActiveIds
    <3>. HIDE DEF n, id
    <3>3. n \notin IssueNumbers => issue' = issue
      BY <1>0, <2>1
    <3>4. n \in IssueNumbers => ActiveIds(issue[n].grants) = {}
      BY <3>1 DEF ActiveIds
    <3>5. issue' = issue
      BY <2>1, <3>3, <3>4
    <3>. QED
      BY <1>same, <3>2, <3>5
  <2>3. CASE Existing # {}
    <3>1. n \in IssueNumbers
      BY <2>3, SelectIsMember DEF Existing
    <3>2. \A m \in IssueNumbers : m = n
      BY <3>1
    <3>. HIDE DEF n, id
    <3>3. Active = ActiveIds(issue[n].grants) /\ Active' = ActiveIds(issue'[n].grants)
      BY <3>1, <3>2 DEF Active
    <3>4. CASE id \in ActiveIds(issue[n].grants)
      <4>1. issue'[n] = Unlabeled(issue[n], id, FALSE)
        BY <1>0, <2>1, <3>1, <3>4
      <4>2. ActiveIds(Unlabeled(issue[n], id, FALSE).grants) = ActiveIds(issue[n].grants) \ {id}
        BY <1>0, <3>1, EntryKeepsShort
      <4>. QED
        BY <3>3, <4>1, <4>2 DEF id
    <3>5. CASE id \notin ActiveIds(issue[n].grants)
      BY <1>same, <2>1, <3>3, <3>5 DEF id
    <3>. QED
      BY <3>4, <3>5
  <2>. QED
    BY <2>2, <2>3
<1>2. CASE ~ DetRevoke(d)
  <2>1. ASSUME NEW m \in IssueNumbers
        PROVE  ActiveIds(issue'[m].grants) \subseteq ActiveIds(issue[m].grants)
    <3>1. CASE DetComment(d)
      <4>1. issue' = issue \/ \E n : issue' = [issue EXCEPT ![n] = EditedByNonHuman(issue[n])]
        BY <3>1 DEF DetComment
      <4>2. EditedByNonHuman(issue[m]).grants = issue[m].grants
        BY <1>0, EntryKeepsShort
      <4>. QED
        BY <1>0, <4>1, <4>2
    <3>2. CASE DetPost(d)
      <4>1. issue' = issue \/ \E n : issue' = [issue EXCEPT ![n] = NewIssue]
        BY <3>2 DEF DetPost
      <4>2. ActiveIds(NewIssue.grants) = {}
        BY <1>0, EntryKeepsShort
      <4>. QED
        BY <1>0, <4>1, <4>2
    <3>3. CASE ~ (DetComment(d) \/ DetPost(d))
      BY <1>2, <3>3 DEF DetStart, DetStep, DetFail, DetReadSettings, DetReadIssue,
         DetReadTimeline, DetList
    <3>. QED
      BY <3>1, <3>2, <3>3
  <2>. QED
    BY <1>2, <2>1 DEF Active
<1>. QED
  BY <1>1, <1>2

(* A detector that rests: what was granted meanwhile has not lapsed.       *)
LEMMA RestingStaysLapsing ==
    ASSUME NEW d \in Detectors, lapsing' = [e \in Detectors |-> Lapsing(e)],
           Active' \subseteq Active \cup Granted, det'[d] = det[d],
           LapsingHolds(det[d], lapsing[d], Active)
    PROVE  LapsingHolds(det'[d], lapsing'[d], Active')
<1>1. lapsing'[d] = Lapsing(d)
  OBVIOUS
<1>2. lapsing'[d] \subseteq lapsing[d] \ Granted
  BY <1>1 DEF Lapsing, Reads
<1>3. lapsing'[d] \cap Active' \subseteq lapsing[d] \cap Active
  BY <1>2
<1>. QED
  BY <1>2, <1>3 DEF LapsingHolds

(* A step of a detector: it finds the grants of the issue, revokes the one *)
(* that is outdated and reports.                                           *)
LEMMA DetectorStaysLapsing ==
    ASSUME TypeInv, TypeInv', OneGrant, \A m, n \in IssueNumbers : m = n,
           NEW d \in Detectors, DetStart(d) \/ DetStep(d) \/ DetFail(d),
           lapsing' = [e \in Detectors |-> Lapsing(e)],
           LapsingHolds(det[d], lapsing[d], Active)
    PROVE  LapsingHolds(det'[d], lapsing'[d], Active')
<1>. DEFINE x == det[d]
<1>0. /\ x \in Detector
      /\ det \in [Detectors -> Detector]
      /\ DetLocated(x)
      /\ Active' \subseteq Active
      /\ DetRevoke(d) => x.consent \notin Active'
      /\ lapsing'[d] = Lapsing(d)
  BY DetectorGrantsNothing DEF TypeInv, TypeOK, Located
<1>set. ASSUME NEW value, SetDet(d, value)
        PROVE  det'[d] = value
  BY <1>0, <1>set DEF SetDet
<1>idle. CASE det'[d].pc = "idle"
  BY <1>0, <1>idle DEF Lapsing, LapsingHolds
<1>kept. ASSUME x.pc # "timeline" PROVE lapsing'[d] \subseteq lapsing[d]
  BY <1>0, <1>kept DEF Lapsing, Reads
<1>ended. IdleDet.pc = "idle"
  BY DEF IdleDet
<1>1. CASE DetStart(d)
  <2>1. x.pc = "idle" /\ lapsing[d] = {}
    BY <1>1 DEF DetStart, LapsingHolds
  <2>2. lapsing'[d] = {}
    BY <1>kept, <2>1
  <2>. QED
    BY <2>2 DEF LapsingHolds
<1>2. CASE DetReadSettings(d) \/ DetReadIssue(d)
  <2>1. x.pc \in {"settings", "issue"} /\ lapsing[d] = {}
    BY <1>2 DEF DetReadSettings, DetReadIssue, LapsingHolds
  <2>2. lapsing'[d] = {}
    BY <1>kept, <2>1
  <2>. QED
    BY <2>2 DEF LapsingHolds
<1>3. CASE DetReadTimeline(d)
  <2>. DEFINE i == issue[x.seen]
              c == GrantedDiff(i)
              id == Diff(x.desired, x.snap)
              stale == Stale(c, id)
              pc == IF stale THEN "revoke" ELSE "comment"
              kept == IF stale THEN c ELSE NoDiff
  <2>1. x.pc = "timeline" /\ x.seen \in IssueNumbers /\ issue' = issue
    BY <1>0, <1>3 DEF DetReadTimeline, DetLocated
  <2>2. det'[d] = [x EXCEPT !.pc = pc, !.seen = 0, !.voided = stale, !.consent = kept]
    BY <1>3, <1>set DEF DetReadTimeline
  <2>3. ActiveIds(i.grants) \subseteq {c} /\ (c = NoDiff => ActiveIds(i.grants) = {})
    <3>1. /\ ActiveIds(i.grants) \subseteq {c}
          /\ ~ HasConsent(i) => ActiveIds(i.grants) = {}
      BY <2>1, OnlyOneActive
    <3>2. HasConsent(i) => c # NoDiff
      BY <2>1, CurrentConsentType
         DEF TypeInv, TypeOK, IssueTypeOK, GrantedDiff, Grant, DiffIds
    <3>. QED
      BY <3>1, <3>2
  <2>4. stale = (c # NoDiff /\ c # id)
    BY DEF Stale
  <2>5. (pc = "revoke" /\ kept = c) \/ (pc = "comment" /\ (c = NoDiff \/ c = id))
    BY <2>4
  <2>. HIDE DEF stale, pc, kept, c
  <2>6. /\ det'[d].pc = pc /\ det'[d].desired = x.desired /\ det'[d].snap = x.snap
        /\ det'[d].consent = kept
    BY <1>0, <2>2 DEF Detector
  <2>7. lapsing'[d] \subseteq ActiveIds(i.grants)
    BY <1>0, <2>1, <2>5, <2>6 DEF Lapsing, Reads
  <2>. QED
    BY <2>3, <2>5, <2>6, <2>7 DEF LapsingHolds
<1>4. CASE DetRevoke(d)
  <2>1. /\ det'[d].pc = "comment" /\ x.pc = "revoke"
    BY <1>0, <1>4, <1>set DEF DetRevoke, Detector
  <2>2. lapsing[d] \cap Active \subseteq {x.consent}
    BY <2>1 DEF LapsingHolds
  <2>3. lapsing'[d] \cap Active' = {}
    BY <1>0, <1>4, <1>kept, <2>1, <2>2
  <2>. QED
    BY <2>1, <2>3 DEF LapsingHolds
<1>5. ASSUME NEW pc \in {"list", "post"}, x.pc \in {"comment", "list", "post"},
             det'[d] = [x EXCEPT !.pc = pc]
      PROVE  LapsingHolds(det'[d], lapsing'[d], Active')
  <2>1. det'[d].pc = pc /\ det'[d].desired = x.desired /\ det'[d].snap = x.snap
    BY <1>0, <1>5 DEF Detector
  <2>2. lapsing[d] \cap Active \subseteq {Diff(x.desired, x.snap)}
    BY <1>5 DEF LapsingHolds
  <2>. QED
    BY <1>0, <1>5, <1>kept, <2>1, <2>2 DEF LapsingHolds
<1>6. CASE DetComment(d)
  <2>1. x.pc = "comment" /\ (det'[d] = IdleDet \/ det'[d] = [x EXCEPT !.pc = "list"])
    BY <1>6, <1>set DEF DetComment
  <2>. QED
    BY <1>5, <1>idle, <1>ended, <2>1
<1>7. CASE DetList(d)
  <2>1. x.pc = "list" /\ (det'[d] = IdleDet \/ det'[d] = [x EXCEPT !.pc = "post"])
    BY <1>7, <1>set DEF DetList
  <2>. QED
    BY <1>5, <1>idle, <1>ended, <2>1
<1>8. CASE DetPost(d) \/ DetFail(d)
  BY <1>8, <1>set, <1>idle, <1>ended DEF DetPost, DetFail, FailsLoud
<1>. QED
  BY <1>1, <1>2, <1>3, <1>4, <1>6, <1>7, <1>8 DEF DetStep

-----------------------------------------------------------------------------
(* What has lapsed.                                                        *)

(* One detector moves at a time, and only a detector reports.              *)
LEMMA OnlyDetectorsReport ==
    ASSUME TypeInv, [Next]_vars, NEW d \in Detectors, det'[d] # det[d]
    PROVE  DetStart(d) \/ DetStep(d) \/ DetFail(d)
<1>0. det \in [Detectors -> Detector]
  BY DEF TypeInv, TypeOK
<1>1. ASSUME NEW r \in Runs, Start(r) \/ RunStep(r) \/ Fail(r)
      PROVE  FALSE
  BY <1>1, RunOpensNothing
<1>2. CASE Environment
  BY <1>2 DEF Environment, ChangeSetting
<1>3. ASSUME NEW e \in Detectors, DetStart(e) \/ DetStep(e) \/ DetFail(e), e # d
      PROVE  FALSE
  <2>1. \E value : det' = [det EXCEPT ![e] = value]
    BY <1>3 DEF DetStart, DetStep, DetFail, DetReadSettings, DetReadIssue,
       DetReadTimeline, DetRevoke, DetComment, DetList, DetPost, SetDet
  <2>. QED
    BY <1>0, <1>3, <2>1
<1>4. CASE UNCHANGED vars
  BY <1>4 DEF vars
<1>. QED
  BY <1>1, <1>2, <1>3, <1>4 DEF Next

(* No grant that has lapsed is active.                                     *)
LEMMA LapsedIsInactive ==
    ASSUME VoidInv, TypeInv', [Next]_vars, \A m, n \in IssueNumbers : m = n,
           lapsed' = (lapsed \ Granted) \cup
               UNION {IF Reports(d) THEN lapsing[d] \ {Diff(det[d].desired, det[d].snap)}
                      ELSE {} : d \in Detectors}
    PROVE  lapsed' \cap Active' = {}
<1>1. SUFFICES ASSUME NEW id \in Active', id \in lapsed'
               PROVE  FALSE
  OBVIOUS
<1>2. id \in Active \/ id \in Granted
  BY ActiveGrows
<1>3. CASE id \in lapsed \ Granted
  BY <1>2, <1>3 DEF VoidInv
<1>4. ASSUME NEW d \in Detectors, Reports(d),
             id \in lapsing[d] \ {Diff(det[d].desired, det[d].snap)}
      PROVE  FALSE
  <2>1. DetStart(d) \/ DetStep(d) \/ DetFail(d)
    BY <1>4, OnlyDetectorsReport DEF Reports, VoidInv
  <2>2. id \in Active
    BY <1>1, <2>1, DetectorGrantsNothing DEF VoidInv
  <2>. QED
    BY <1>4, <2>2 DEF VoidInv, LapsingHolds, Reports
<1>. QED
  BY <1>1, <1>3, <1>4

-----------------------------------------------------------------------------
(* What runs read.                                                         *)

(* One run moves at a time, by a step of its own.                          *)
LEMMA OnlyTheRunMoves ==
    ASSUME TypeInv, [Next]_vars, NEW r \in Runs, run'[r] # run[r]
    PROVE  Start(r) \/ RunStep(r) \/ Fail(r)
<1>0. run \in [Runs -> Run]
  BY DEF TypeInv, TypeOK
<1>1. ASSUME NEW q \in Runs, Start(q) \/ RunStep(q) \/ Fail(q), q # r
      PROVE  FALSE
  <2>1. \E value : run' = [run EXCEPT ![q] = value]
    BY <1>1 DEF Start, RunStep, Fail, ReadIssue, ReadTimeline, ReadRole, ReadSettings,
       Decide, VoidConsent, DecideAgain, ApplyGuard, WriteSurface, SkipSecurity, SetRun
  <2>. QED
    BY <1>0, <1>1, <2>1
<1>2. ASSUME NEW d \in Detectors, DetStart(d) \/ DetStep(d) \/ DetFail(d)
      PROVE  FALSE
  BY <1>2 DEF DetStart, DetStep, DetFail, DetReadSettings, DetReadIssue,
     DetReadTimeline, DetRevoke, DetComment, DetList, DetPost, SetDet
<1>3. CASE Environment
  BY <1>3 DEF Environment, ChangeSetting
<1>4. CASE UNCHANGED vars
  BY <1>4 DEF vars
<1>. QED
  BY <1>1, <1>2, <1>3, <1>4 DEF Next

(* A run that rests keeps what it knows.                                   *)
LEMMA RestingStaysFresh ==
    ASSUME NEW r \in Runs, run'[r] = run[r], FreshHolds(run[r], fresh[r]),
           fresh[r] /\ run'[r].pass = 2 /\ run'[r].pc # "done" => fresh'[r]
    PROVE  FreshHolds(run'[r], fresh'[r])
BY DEF FreshHolds

(* A second pass that reads a grant of its diff reads an active one, so    *)
(* one that has not lapsed; what follows it keeps that.                    *)
LEMMA RunStaysFresh ==
    ASSUME VoidInv, NEW r \in Runs, Start(r) \/ RunStep(r) \/ Fail(r),
           run'[r].pass = 2 /\ run'[r].pc # "done"
               /\ (fresh[r] \/ run[r].confirm \notin lapsed') => fresh'[r],
           lapsed' \subseteq lapsed
    PROVE  FreshHolds(run'[r], fresh'[r])
<1>. DEFINE x == run[r]
<1>0. /\ x \in Run /\ run \in [Runs -> Run]
      /\ x.pc = "timeline" => x.seen \in IssueNumbers
      /\ FreshHolds(x, fresh[r])
      /\ issue \in [IssueNumbers -> Issue]
  BY DEF VoidInv, TypeInv, TypeOK, Located, RunLocated, IssueTypeOK
<1>set. ASSUME NEW value, SetRun(r, value)
        PROVE  run'[r] = value
  BY <1>0, <1>set DEF SetRun
<1>far. CASE run'[r].pc \in {"idle", "issue", "timeline", "void", "done"}
  BY <1>far DEF FreshHolds
<1>ended. ASSUME NEW y, NEW outcome, run'[r] = Ended(y, outcome)
          PROVE  FreshHolds(run'[r], fresh'[r])
  <2>1. run'[r].pc = "done"
    BY <1>ended DEF Ended, IdleRun
  <2>. QED
    BY <1>far, <2>1
<1>1. CASE Start(r)
  <2>1. PICK d \in Declared, c \in DiffIds \cup {NoDiff}, pin \in BOOLEAN :
           SetRun(r, [IdleRun EXCEPT !.pc = "issue", !.desired = d,
                                     !.confirm = c, !.pinOk = pin])
    BY <1>1 DEF Start, Possibly
  <2>2. run'[r] = [IdleRun EXCEPT !.pc = "issue", !.desired = d, !.confirm = c, !.pinOk = pin]
    BY <1>set, <2>1
  <2>3. run'[r].pc = "issue"
    BY <2>2 DEF IdleRun
  <2>. QED
    BY <1>far, <2>3
<1>issue. CASE ReadIssue(r)
  <2>1. CASE OpenIssues = {}
    BY <1>issue, <1>set, <1>ended, <2>1 DEF ReadIssue
  <2>2. CASE OpenIssues # {}
    <3>1. run'[r] = [x EXCEPT !.pc = "timeline", !.seen = SelectIssue(Existing),
                              !.ambiguous = Ambiguous]
      BY <1>issue, <1>set, <2>2 DEF ReadIssue
    <3>2. run'[r].pc = "timeline"
      BY <1>0, <3>1 DEF Run
    <3>. QED
      BY <1>far, <3>2
  <2>. QED
    BY <2>1, <2>2
<1>2. CASE ReadTimeline(r)
  <2>. DEFINE i == issue[x.seen]
  <2>1. x.seen \in IssueNumbers
    BY <1>0, <1>2 DEF ReadTimeline
  <2>2. CASE ~ HasConsent(i)
    <3>1. run'[r] = [x EXCEPT !.pc = "settings", !.seen = 0, !.k = 1,
                              !.ambiguous = FALSE, !.consent = NoConsent]
      BY <1>2, <1>set, <2>2 DEF ReadTimeline
    <3>2. run'[r].pc = "settings" /\ run'[r].consent.id = NoDiff
      BY <1>0, <3>1 DEF Run, NoConsent
    <3>. QED
      BY <3>2 DEF FreshHolds
  <2>3. CASE HasConsent(i)
    <3>. DEFINE c == [id |-> CurrentConsent(i).id,
                      granted |-> CurrentConsent(i).by \in Humans,
                      edited |-> NonHumanEditAfterGrant(i)]
    <3>1. run'[r] = [x EXCEPT !.pc = "role", !.seen = 0,
                              !.giver = {CurrentConsent(i).by}, !.consent = c]
      BY <1>2, <1>set, <2>3 DEF ReadTimeline
    <3>2. c.id = CurrentConsent(i).id
      OBVIOUS
    <3>. HIDE DEF c
    <3>3. /\ run'[r].pc = "role" /\ run'[r].pass = x.pass
          /\ run'[r].confirm = x.confirm
          /\ run'[r].consent.id = CurrentConsent(i).id
      BY <1>0, <3>1, <3>2 DEF Run
    <3>4. CurrentConsent(i).id \in Active
      <4>1. i.grants \in Seq(Grant) /\ i.grants # <<>>
        BY <1>0, <2>1, <2>3 DEF Issue, HasConsent
      <4>2. Len(i.grants) \in 1..Len(i.grants)
        BY <4>1, EmptySeq, LenProperties
      <4>3. CurrentConsent(i).id \in ActiveIds(i.grants)
        BY <4>2 DEF CurrentConsent, ActiveIds
      <4>. QED
        BY <2>1, <4>3 DEF Active
    <3>5. CurrentConsent(i).id \notin lapsed'
      BY <3>4 DEF VoidInv
    <3>6. run'[r].pass = 2 /\ run'[r].consent.id = run'[r].confirm => fresh'[r]
      BY <3>3, <3>5
    <3>. QED
      BY <3>3, <3>6 DEF FreshHolds
  <2>. QED
    BY <2>2, <2>3
<1>read. ASSUME x.pc \in {"role", "settings"}, run'[r].pc \in {"settings", "decide"},
                run'[r].pass = x.pass, run'[r].confirm = x.confirm,
                run'[r].consent.id = x.consent.id
         PROVE  FreshHolds(run'[r], fresh'[r])
  BY <1>0, <1>read DEF FreshHolds
<1>role. CASE ReadRole(r)
  <2>1. PICK lookupOk \in BOOLEAN :
           SetRun(r, [x EXCEPT !.pc = "settings", !.k = 1, !.giver = {},
              !.consent.granted = @ /\ lookupOk /\ x.giver \subseteq admins])
    BY <1>role DEF ReadRole, Possibly
  <2>. DEFINE c == [x.consent EXCEPT
                       !.granted = @ /\ lookupOk /\ x.giver \subseteq admins]
  <2>2. run'[r] = [x EXCEPT !.pc = "settings", !.k = 1, !.giver = {}, !.consent = c]
    BY <1>0, <1>set, <2>1 DEF Run
  <2>3. c.id = x.consent.id
    BY <1>0 DEF Run, Consent
  <2>. HIDE DEF c
  <2>4. /\ run'[r].pc = "settings" /\ run'[r].pass = x.pass
        /\ run'[r].confirm = x.confirm /\ run'[r].consent = c
    BY <1>0, <2>2 DEF Run
  <2>. QED
    BY <1>read, <1>role, <2>3, <2>4 DEF ReadRole
<1>settings. CASE ReadSettings(r)
  <2>. DEFINE s == ReadOrder[x.k]
              snap == [x.snap EXCEPT ![s] = live[s]]
              next == x.k + 1
              pc == IF x.k = Len(ReadOrder) THEN "decide" ELSE "settings"
  <2>1. run'[r] = [x EXCEPT !.snap = snap, !.k = next, !.pc = pc]
    BY <1>0, <1>settings DEF ReadSettings, SetRun, Run
  <2>2. pc \in {"settings", "decide"}
    OBVIOUS
  <2>. HIDE DEF snap, next, pc
  <2>3. /\ run'[r].pc = pc /\ run'[r].pass = x.pass
        /\ run'[r].confirm = x.confirm /\ run'[r].consent = x.consent
    BY <1>0, <2>1 DEF Run
  <2>. QED
    BY <1>read, <1>settings, <2>2, <2>3 DEF ReadSettings
<1>4. CASE Decide(r)
  <2>1. CASE run'[r] = ReadAgain(x)
    <3>1. run'[r].pc = "issue"
      BY <1>0, <2>1 DEF ReadAgain, Run
    <3>. QED
      BY <1>far, <3>1
  <2>2. CASE run'[r] = [x EXCEPT !.pc = "void", !.outcome = ReconcileDecision(x)]
    <3>1. run'[r].pc = "void"
      BY <1>0, <2>2 DEF Run
    <3>. QED
      BY <1>far, <3>1
  <2>. QED
    BY <1>4, <1>set, <1>ended, <2>1, <2>2 DEF Decide
<1>5. CASE DecideAgain(r)
  <2>1. CASE ReconcileDecision(x) = "apply"
    <3>1. run'[r] = [x EXCEPT !.pc = "guard", !.k = 1] /\ x.pc = "decide" /\ x.pass = 2
      BY <1>5, <1>set, <2>1 DEF DecideAgain
    <3>2. run'[r].pc = "guard" /\ run'[r].pass = 2
      BY <1>0, <3>1 DEF Run
    <3>3. x.consent.id = x.confirm /\ x.consent.id # NoDiff
      BY <2>1 DEF ReconcileDecision, Authorized
    <3>. QED
      BY <1>0, <3>1, <3>2, <3>3 DEF FreshHolds
  <2>2. CASE ReconcileDecision(x) # "apply"
    BY <1>5, <1>set, <1>ended, <2>2 DEF DecideAgain
  <2>. QED
    BY <2>1, <2>2
<1>writes. ASSUME x.pc \in {"guard", "write"}, run'[r].pc = "write", run'[r].pass = x.pass
           PROVE  FreshHolds(run'[r], fresh'[r])
  BY <1>0, <1>writes DEF FreshHolds
<1>6. CASE ApplyGuard(r)
  <2>1. CASE GuardHolds(r)
    <3>1. run'[r] = [x EXCEPT !.pc = "write", !.k = 1]
      BY <1>6, <1>set, <2>1 DEF ApplyGuard
    <3>2. run'[r].pc = "write" /\ run'[r].pass = x.pass
      BY <1>0, <3>1 DEF Run
    <3>. QED
      BY <1>6, <1>writes, <3>2 DEF ApplyGuard
  <2>2. CASE ~ GuardHolds(r)
    BY <1>6, <1>set, <1>ended, <2>2 DEF ApplyGuard
  <2>. QED
    BY <2>1, <2>2
<1>7. ASSUME NEW skip, x.pc = "write", run'[r] = AfterWrite(r, skip)
      PROVE  FreshHolds(run'[r], fresh'[r])
  <2>. DEFINE all == x.skipped \cup skip
              next == x.k + 1
              done == [x EXCEPT !.skipped = all, !.k = next]
  <2>1. run'[r] = IF x.k = Len(WriteOrder) THEN Ended(done, "apply") ELSE done
    BY <1>7 DEF AfterWrite
  <2>2. done.pc = "write" /\ done.pass = x.pass
    <3>. HIDE DEF all, next
    <3>. QED
      BY <1>0, <1>7 DEF Run
  <2>. HIDE DEF done
  <2>3. CASE run'[r] = done
    BY <1>7, <1>writes, <2>2, <2>3
  <2>4. CASE run'[r] = Ended(done, "apply")
    BY <1>ended, <2>4
  <2>. QED
    BY <2>1, <2>3, <2>4
<1>8. CASE WriteSurface(r) \/ SkipSecurity(r)
  BY <1>8, <1>set, <1>7 DEF WriteSurface, SkipSecurity
<1>9. CASE VoidConsent(r) \/ Fail(r)
  BY <1>9, <1>set, <1>ended DEF VoidConsent, Fail
<1>. QED
  BY <1>1, <1>issue, <1>2, <1>role, <1>settings, <1>4, <1>5, <1>6, <1>8, <1>9 DEF RunStep

-----------------------------------------------------------------------------
(* The theorem.                                                            *)

(* Nothing is granted, found or lapsed at first.                           *)
LEMMA InitVoids == VoidInit => VoidInv
<1>. SUFFICES ASSUME VoidInit PROVE VoidInv
  OBVIOUS
<1>1. TypeInv
  BY InitHasTypes DEF VoidInit
<1>2. OneGrant
  BY DEF VoidInit, Init, IssueInit, AbsentIssue, NewIssue, OneGrant, Short
<1>3. /\ \A d \in Detectors : det[d].pc = "idle" /\ lapsing[d] = {}
      /\ \A r \in Runs : run[r].pc = "idle"
      /\ lapsed = {}
  BY DEF VoidInit, Init, IdleDet, IdleRun
<1>. QED
  BY <1>1, <1>2, <1>3 DEF VoidInv, LapsingHolds, FreshHolds

(* Each step keeps the invariant.                                          *)
LEMMA NextKeepsVoid ==
    ASSUME VoidInv, [VoidNext]_<<vars, voidVars>>,
           MaxGrants <= 1, \A m, n \in IssueNumbers : m = n
    PROVE  VoidInv'
<1>0. TypeInv /\ OneGrant
  BY DEF VoidInv
<1>1. CASE UNCHANGED <<vars, voidVars>>
  <2>1. /\ det' = det /\ lapsing' = lapsing /\ run' = run /\ fresh' = fresh
        /\ issue' = issue /\ lapsed' = lapsed
    BY <1>1 DEF vars, voidVars
  <2>2. Active' = Active /\ OneGrant'
    BY <1>0, <2>1 DEF Active, OneGrant
  <2>3. TypeInv'
    BY <1>0, <1>1, NextKeepsTypes
  <2>. QED
    BY <2>1, <2>2, <2>3 DEF VoidInv
<1>2. CASE VoidNext
  <2>1. [Next]_vars /\ lapsing' = [d \in Detectors |-> Lapsing(d)]
    BY <1>2 DEF VoidNext
  <2>2. lapsed' = (lapsed \ Granted) \cup
             UNION {IF Reports(d) THEN lapsing[d] \ {Diff(det[d].desired, det[d].snap)}
                    ELSE {} : d \in Detectors}
    BY <1>2 DEF VoidNext
  <2>3. \A r \in Runs : run'[r].pass = 2 /\ run'[r].pc # "done"
               /\ (fresh[r] \/ run[r].confirm \notin lapsed') => fresh'[r]
    BY <1>2 DEF VoidNext
  <2>4. TypeInv'
    BY <1>0, <2>1, NextKeepsTypes
  <2>5. OneGrant'
    BY <1>0, <2>1, StepsKeepOneGrant
  <2>6. lapsed' \cap Active' = {}
    BY <2>1, <2>2, <2>4, LapsedIsInactive
  <2>7. ASSUME NEW d \in Detectors
        PROVE  LapsingHolds(det'[d], lapsing'[d], Active')
    <3>1. LapsingHolds(det[d], lapsing[d], Active)
      BY DEF VoidInv
    <3>2. CASE det'[d] = det[d]
      BY <2>1, <2>4, <3>1, <3>2, ActiveGrows, RestingStaysLapsing
    <3>3. CASE det'[d] # det[d]
      BY <1>0, <2>1, <2>4, <3>1, <3>3, OnlyDetectorsReport, DetectorStaysLapsing
    <3>. QED
      BY <3>2, <3>3
  <2>8. ASSUME NEW r \in Runs
        PROVE  FreshHolds(run'[r], fresh'[r])
    <3>1. FreshHolds(run[r], fresh[r])
      BY DEF VoidInv
    <3>2. CASE run'[r] = run[r]
      BY <2>3, <3>1, <3>2, RestingStaysFresh
    <3>3. CASE Start(r) \/ RunStep(r) \/ Fail(r)
      <4>1. det' = det
        BY <1>0, <3>3, RunOpensNothing
      <4>2. \A d \in Detectors : ~ Reports(d)
        BY <4>1 DEF Reports
      <4>3. lapsed' \subseteq lapsed
        BY <2>2, <4>2
      <4>. QED
        BY <2>3, <3>3, <4>3, RunStaysFresh
    <3>. QED
      BY <1>0, <2>1, <3>2, <3>3, OnlyTheRunMoves
  <2>. QED
    BY <2>4, <2>5, <2>6, <2>7, <2>8 DEF VoidInv
<1>. QED
  BY <1>1, <1>2

(* Where there is one tracking issue with at most one label of consent on  *)
(* it, a reconcile run never reaches its writes on a grant that the        *)
(* detector found outdated in a run it completed: the reappearance of the  *)
(* diff needs fresh consent.  With two labels it is false (run             *)
(* reappearance): the detector looks at the newest only, and where that is *)
(* for the diff it reports, revokes none.                                  *)
THEOREM LapsedConsentIsVoid ==
    ASSUME MaxGrants <= 1, \A m, n \in IssueNumbers : m = n
    PROVE  VoidSpec => []ReappearanceNeedsFreshConsent
<1>1. VoidInit => VoidInv
  BY InitVoids
<1>2. VoidInv /\ [VoidNext]_<<vars, voidVars>> => VoidInv'
  BY NextKeepsVoid
<1>3. VoidInv => ReappearanceNeedsFreshConsent
  BY DEF VoidInv, FreshHolds, ReappearanceNeedsFreshConsent
<1>. QED
  BY <1>1, <1>2, <1>3, PTL DEF VoidSpec

=============================================================================
