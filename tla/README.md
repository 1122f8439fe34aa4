# A TLA+ verification of Aviato

Aviato (`src/aviato`) is a library of GitHub conventions and a command line that
applies them to consumer repositories. Most of it reads and renders; what is hard
to get right is the part that *writes* to something other people and programs
change at the same time. These modules model that part, check it with TLC on
small instances, and prove their safety for every instance with TLAPS.

## The system

| Component | State it keeps or touches | Operations | Talks to |
|---|---|---|---|
| Settings diff (`core/settingsdrift.py`) | none; maps of settings | classify a diff, give it an identity | used by reconcile and the detector |
| Consent channel (`github_platform.py` 48–212, 559–831) | tracking issues, their labels and timelines, on GitHub | select the issue, reduce its timeline to the current grant, void a grant, comment, open or update | people, bots, reconcile, the detector |
| Consent-gated reconcile (`core/reconcile_flow.py`, `core/reconcile.py`, `core/consent.py`, `cli.py` 2033–2102) | a run's local variables | read, decide, re-read, decide again, write, comment | the channel, `apply_settings` |
| Drift detector (`core/settings_drift_flow.py`; the separate aviato-bot service calls it on a schedule) | a run's local variables | read, void outdated consent, report or say resolved | the channel, `read_settings` |
| Settings read/write (`github_platform.py` 240–535, 914–1112) | the repository's settings on GitHub | read surface by surface, guard, write surface by surface | reconcile, `complete-protection`, provisioning |
| Managed files (`core/scaffold.py`, `diagnosis.py`, `onboarding.py`, `repin.py`, `offboarding.py`, `filedrift*.py`) | a working tree: declaration, marked files, seeds, the seed sidecar | onboard, sync, repin, propose, offboard | git, pull requests |
| Provisioning (`core/provision.py`, `cli.py` 1716–1908) | a new repository on GitHub | create, minimal protection, push, full protection; complete the protection later | `apply_settings`, scaffold |
| Rulesets (`rulesets.py`, `github.py` 484–529) | rulesets on GitHub | render, find, create or update, report drift | provisioning's guards, the detector's caller |
| Versions (`core/version.py`, `versioning.py`) | none | the version gate, highest release, next version | every writing command, the release workflow |
| Release workflow (`.github/workflows/reusable-release.yml`, `plugins/version_formats.py`) | commits, tags, pull requests, GitHub releases | derive, propose, prove, tag, move the floating major, publish | `next-version`, `bump-version`, `is-highest` |
| Composition (`core/composition.py`, `registry.py`, `declaration.py`, `listmerge.py`, `mapmerge.py`) | none; library data and a declaration | resolve a profile and overrides to pipelines and settings | every command |
| Variables (`core/variables.py`) | the declaration's values | resolve, coerce, write back | onboarding, then every command |
| Fleet scan, audit, validation, self-check | none | read-only reports | — |

**What is hard here.** Nothing is transactional: one command is a dozen HTTP
requests, and between any two of them a person can revoke consent, a bot can edit
the issue, an admin can change a setting, another issue can get the tracking
label, the detector can run, or the process can die. Authorization is *derived*
on every read from a history that GitHub may return out of order. The writes of one
command go to several endpoints and can stop half-way. Roles are looked up when
the grant is read, not when it was given. On the file side, one command writes many files and
two records that must agree with them. Branch protection lives on two surfaces that do not
know of each other. Release runs are replaced by newer ones, fail anywhere, and may be
repeated with old outputs when the branch has long moved on.

**What makes each component correct.**

- *Diff*: equal identities mean the same keys with the same desired and live values.
- *Consent channel*: the reduction returns the newest grant nobody revoked and
  whether a non-human touched the issue after it, whatever the array order.
- *Reconcile*: no write without consent that was valid when re-read; nothing lands
  that was not reviewed; the audit comment is true.
- *Detector*: it never mutates settings; outdated consent cannot authorize later;
  persistent drift ends up reported.
- *Managed files*: nothing of the operator's is overwritten without `--force`; a
  command that reports success left nothing half done; a killed command can be started
  again; `doctor` and `sync` agree on every file.
- *Provisioning and rulesets*: whatever request fails, what a command says is true of the
  repository; no gate and no ruleset of others is lost; two readings leave no bypass of what they compare between them.
- *Releases*: a tag tells the truth about its tree; versions and the floating major only
  grow; a number says what changed; no change and no release is forgotten.
- *Composition and variables*: an override works or is refused, and cannot go below the
  baseline; the merge gate asks for the checks that run; what onboarding rendered
  with is what later commands find.
- *Version gate*: no command writes with a tool older than what the repository records, and
  the commands agree on that.

## The modules

| Module | What it is | Source |
|---|---|---|
| `Settings` | settings maps, `Diff`, the identities a label can carry | `settingsdrift.py` |
| `TrackingIssue` | the issues and their grants; every entry people, bots and Aviato add | `github_platform.py` |
| `ConsentTimeline` | the true timeline of one issue and the binding's sort and reduction of it | `github_platform.py` 127–212 |
| `Reconcile` | reconcile runs, detectors and the world, one action per request | `reconcile_flow.py`, `reconcile.py`, `consent.py`, `settings_drift_flow.py`, `github_platform.py` |
| `ReconcileAudit` | `Reconcile` with history variables, and what reconcile promises | — |
| `VoidAudit` | `Reconcile` with history variables, and what the detector promises about consent | — |
| `DetectorLiveness` | `Reconcile` under a fair schedule, and what the detector gets done in the end | — |
| `GatedApply` | the abstract specification: authorize a true, consented diff; land its entries; give up | — |
| `ReconcileRefinement` | the refinement mapping from `Reconcile` to `GatedApply` | — |
| `ManagedFiles` | one consumer's working tree under onboard, sync, repin and offboard, and what they promise | `scaffold.py`, `diagnosis.py`, `offboarding.py`, `filedrift*.py`, `cli.py` |
| `Protection` | classic protection, rulesets, how both are read, rendered and matched | `github_platform.py` 255–501, 914–1067, `rulesets.py`, `github.py` |
| `Provisioning` | `provision`, `complete-protection` and `apply-rulesets` request by request, and everyone else | `provision.py`, `cli.py`, `github_platform.py` |
| `RecoveryAdvice` | `Provisioning` with a memory of what the messages advised | — |
| `Versions` | the order of releases, bumps, and the order of a tool and what a consumer recorded | `versioning.py`, `version.py` |
| `Release` | the default branch, its tags and the release workflow job by job | `reusable-release.yml`, `version_formats.py`, `cli.py` |
| `Compatibility` | the version gate as two groups of commands compute it | `cli.py`, `reconcile.py`, `version.py` |
| `Composition` | a profile and overrides to pipelines, settings and required checks | `composition.py`, `registry.py`, `listmerge.py`, `mapmerge.py` |
| `Variables` | one declared variable from onboarding to every later command | `variables.py` |
| `MCReconcile`, `MCDetector`, `MCLiveness`, `MCRefinement`, `MCTimeline`, `MCManagedFiles`, `MCProvisioning`, `MCAdvice`, `MCRelease`, `MCAlgorithms` | small instances for TLC | — |
| `ReconcileProofs` | proofs about the protocol: types, the single tracking issue | — |
| `ReconcileAuditProofs` | proofs about what reconcile promises, and the detector about consent (`ReconcileAudit`, `VoidAudit`) | — |
| `ReconcileRefinementProofs` | the proof of the refinement | — |
| `ManagedFilesProofs`, `ProvisioningProofs`, `ReleaseProofs`, `CompositionProofs` | proofs about the module of that name | — |
| `AlgorithmProofs` | proofs about `ConsentTimeline`, `Compatibility` and `Variables` | — |

`TrackingIssue` extends `Settings`; `Reconcile` extends `TrackingIssue`; the audit
and refinement modules extend `Reconcile`, so no action of the code can depend on
their history variables. `ManagedFiles` stands alone: its commands share no state
with the settings side. `Provisioning` extends `Protection`; `Release` and `Compatibility`
extend `Versions`. `Reconcile` and `Provisioning` both contain `apply_settings`, seen from two
distances: `Reconcile` asks when the writes are authorized and has a surface as one
value; `Provisioning` asks what they do to a branch with two kinds of protection and has its fields.

### How state and actions correspond to the code

- `live` is the repository's settings. A *surface* is the group of keys read and
  written by one request: branch protection, security toggles, merge methods,
  Actions permissions. `owner` says whether classic protection or a ruleset
  enforces branch protection. `read_settings` reads the rules and the classic
  protection with two requests; they are one step here.
- `issue[n]` is a labelled issue: its state, its active grants oldest first, and
  those of them that a non-human entry follows (`edited`). The binding recomputes this
  from the timeline on every read; `ConsentTimeline` checks that the summary equals
  that computation, and `TrackingIssue`'s `Labeled`, `Unlabeled` and
  `EditedByNonHuman` say what each entry does to it.
- `run[r]` is a reconcile command: `pc` is the request it is about to make, `pass`
  1 for the entry reads of `run_reconcile` and 2 for the re-read before the
  apply. `Start` is `cmd_reconcile`; `ReadIssue`, `ReadTimeline`, `ReadRole` are
  the three requests of `get_issue`; `ReadSettings` is one request of
  `read_settings`; `Decide`/`DecideAgain` apply `ReconcileDecision`; `VoidConsent`
  is the best-effort revocation; `ApplyGuard`, `WriteSurface`, `SkipSecurity` are
  `apply_settings`; `Fail` is any request that raises, any guard that refuses, and
  the death of the process, at any point.
- `det[d]` is a detector run, with one action per request of `run_settings_drift`.
- `Environment` is everyone else: people and bots on the issue, roles, settings.
- The listing that finds the issue for a comment or a label removal and the request
  that follows it are one step; the comments of reconcile itself are left out,
  because a person's comment changes nothing that any decision reads.
- `World` names which kinds of events an instance allows, so that a run can be
  about a few of them at a time.

`ManagedFiles`:

- `file[o]` is the file at output path `o`: its body and the marker over it, if any. A
  marker records the profile, the version, the hash of the body Aviato wrote (here that
  body itself: the model's hash has no collisions) and the docs choice, which stands
  for the hash of all inputs. `sidecar` is what `read_sidecar` makes of
  `.github/aviato.seed.json`, `decl` the declaration if there is one, `tool` the installed version.
- `Template` says what an output is rendered to for a profile, a Library version and a docs
  choice, or that the profile has no such output; the pin is part of a workflow's
  body. It is a constant, so nothing depends on which templates exist.
- `OnboardFresh`, `OnboardAgain`, `OnboardMigrating`, `Sync`, `Repin` and `Offboard` are
  the commands up to the first write, with every check that refuses; `cmd` then holds
  what the command has in its variables. `WriteManaged`, `LeaveManaged` and `WriteSeed` are
  the loop of `scaffold`, one file at a time in the order of the resolved set, `WriteSidecar` its
  end; `StripOrDelete`, `DeleteDeclaration` and `DeleteSidecar` are `offboard`.
  `Crash` ends a command anywhere between two of them; `atomic_write` makes each one atomic.
- `MergeFix` and `MergeOnboarding` are pull requests of `scan --fix` and `onboard --open-pr`,
  merged into the tree they were made from. Those of `repin` and `offboard` run
  the commands' own code in a clone and are these commands without a crash.
- The operator edits files below or with the marker, changes the version in a marker, deletes
  files, switches docs, loses the declaration or the sidecar, installs another version.

`Protection` and `Provisioning`:

- `classic` is the classic protection of the default branch, `rulesets` the repository's rulesets,
  `toggles` the groups of merge, Actions and security toggles that are as desired. `MapBranch` is
  `map_branch_settings`: both surfaces read into the flat keys that are compared with `Desired`;
  `Put` is what the wholesale PUT leaves, `Unmodeled` the guard that refuses to drop what
  it could not write back, `RenderBranch` and `RenderTag` the rendered rulesets, `Match` and `Drifted`
  the choice of the ruleset to replace and the report of drift. `covers` says whether the ref-name conditions of
  a ruleset include the branch: GitHub evaluates them when it lists the rules of a branch, `ruleset_content_drift`
  deliberately does not compare them.
- `cmd` is the command in progress and its next request. `ReadClassic`, `ReadRules`, `ProtectBranch`,
  `ClearReviews`, `WriteToggles` and `WriteSecurity` are `apply_settings`, with the minimal payload in
  the first stage of `provision` and the desired one in the last and in `complete-protection`. A write may
  take effect and lose its answer (`AnsweredOrNot`); `RequestFails` is a request without effect,
  `Killed` a process that dies.
- `report` is what the last command said: `SaidOnFailure` is the stage `provision_repo` returns and the
  wording `cmd_provision` gives it. A killed command says nothing.
- `Others` edit protection, rulesets and toggles, or merge a scaffold made by hand; `touched` remembers
  that they did since the command began.

`Release`:

- `history` is the default branch: for each commit its bump, the version its subject names
  if it is `chore(release): V`, and the version in its tree. `tags`, `floating`, `published` and `pulls`
  are the release tags, the floating majors, the GitHub releases and the open release pull requests.
- `run` is the workflow run in progress, `pending` the one the concurrency group keeps waiting, `failed` the runs
  that someone may repeat with "Re-run failed jobs", which keeps the outputs of the `derive` job; `refused` says that the run
of the newest commit stopped because the tree does not record its version, which only a push mends.
  `Push` shows what a newer push does to a waiting run.
- `Derive`, `Propose`, `Prove`, `PushTag`, `MoveFloating` and `Publish` are the jobs and steps in their order; `Fail`
  can happen before each. `NeedsBump` is the outcome of `bump-version`: whether it found anything to change.
- `MergeRelease` covers a release pull request merged as it is, squashed, or after an update from the default
  branch (then the subject is lost); `LandChange` any other commit, which may set the version
  back by hand; `TagPrerelease` a pre-release tagged by hand.

`Composition`, `Variables` and `Compatibility` are functions with one action that computes
them: `Compose` is `resolve_profile`, `Onboarded` the way of a variable through onboarding,
`SyncAdmits` and `ReconcileAdmits` the two forms of the version gate. An operator that can refuse
yields a set, empty where the code raises an error. In `Composition` a settings tree is a function from paths of
keys to nodes: `DeepMerge` is `deep_merge` without its recursion, and a chain of bundles a recursive
function on its length, so that both can be proved about.

## The runs

| Run | Instance | Shows |
|---|---|---|
| `reconcile_gate` | 1 run, 1 issue, 2 surfaces, 2 values, 1 grant at a time; every event but the detector | `TypeOK`, `WritesRestOnFreshConsent`, `OnlyReviewedChangesLand`, `AuditIsTruthful` |
| `gated_apply` | 1 run, 2 issue numbers, 1 grant at a time on each, 2 surfaces, settings changed by reconcile only | `ImplementsGatedApply`; `WritesRestOnFreshConsent` with look-alike issues |
| `detector_void` | 1 run, 1 detector, 1 surface with 3 values, 1 grant at a time, failures | `ReappearanceNeedsFreshConsent` |
| `detector_live` | 1 detector, 2 issue numbers, 1 surface with 3 values, 2 grants, failures; fairness | `OneTrackingIssue`, `StaleConsentIsVoided`, `DriftIsReported` |
| `managed_files` | 1 config, 1 workflow, 1 seed, 2 profiles, 2 versions, any commands, kills, 2 moves of the operator | `TypeOK`, `OperatorWorkSurvives`, `CompletionIsSettled`, `InterruptedRunsResume` |
| `provisioning` | 2 checks, 1 of them in the ruleset template, at most 2 approvals, 2 moves of others, every request failing or losing its answer | `TypeOK`, `FirstPushIsNotBlocked`, `ReportIsTrue`, `CleanReadingHidesNoBypass`, `OnlyLateProtectionIsDropped`, `OthersRulesetsAreSpared`, `SettledStaysSettled` |
| `release` | 5 commits, 3 kinds of change, 2 failed runs at a time, 1 pre-release | `TypeOK`, `TaggedManifestAgrees`, `VersionsGrowAlongHistory`, `ReleasesCarryChanges`, `NothingIsForgotten`, `FloatingNeverRegresses` |
| `algorithms` | timelines of up to 4 entries in every array order; 10 chains of workflow bundles and 6 of settings bundles with every override; every type, default and source of a variable over 4 texts; 4 tools against all sets of 6 recorded versions | `ReductionReflectsHistory`, `MembershipFollowsLastMention`, `RequiredChecksAreProduced`, `OverridesAreNeverDropped`, `BaselineHolds`, `ValuesRoundTrip`, `OlderToolsStayOut` |
| `reappearance` | as `detector_void`, 2 grants at a time | a counterexample, see below |
| `rebaseline` | a seed that comes with docs; no kills, no edits | a counterexample, see below |
| `floating` | as `release`, 1 failed run at a time | a counterexample, see below |
| `removed_check` | as `provisioning`, with the template's check removed from the profile; nobody else acts | a counterexample, see below |

The largest, `release` and `provisioning`, have about 1.6 million states each; each run takes
a few minutes at most. Three more configurations are kept for the reader: `just_the_diff.cfg` (with
`MCReconcile`), `offboarded.cfg` (`MCManagedFiles`) and `recovery.cfg` (`MCAdvice`) show the further
counterexamples below when they are given to TLC.

**Bounds.** `IssueNumbers` bounds the issues ever opened, `MaxGrants` the active
consent labels of one issue, `MaxEntries` a timeline's length. Two surfaces are
the least that has an order, a half-written state and a surface that is not
branch protection; two values the least that drifts. A diff can change into
another diff when there are two surfaces or three values, which is what the detector needs. One
person and one bot suffice because every check looks at one granter and its kind.
One grant at a time is enough for the gate: the reduction hands it the newest one
only, and what "newest" means is the subject of `algorithms`, `reappearance` and `detector_live`,
which use two. Two runs in parallel interact only through `live`
and `issue`, which the environment already changes in every way a second run can;
the theorems hold for any number of them.

For the files, one output of each kind suffices because no check relates two
managed files except the version gate, and one config and one workflow give that two
markers. Two versions give an old, a current and (0) an unreadable one. Files the
operator already has are initial states; `MaxMoves` bounds what is done to the tree
after that, and two moves allow an edit on either side of a command.

For provisioning, `MaxReviews` is 2 so that more approvals can be required than are desired; the
two checks are one that the template names and one that it does not; two moves of others allow one
on each side of a guard, or a state that two people made. Of others' rulesets, one asks for what ours does; none asks for another
number of approvals, since `MapBranch` has no order in which to prefer one. The initial states are a repository
that does not exist and one that exists unprotected, and every combination of features that GitHub offers it.

For releases, five commits hold two releases with a change behind the second, or one release
whose run fails and is repeated after two more pushes; two failed runs are the least that can be
repeated in the wrong order. The changes give no bump, a minor and a major one; the
theorems hold for any changes, any number of commits and of failed runs.

For composition, the bundles include each way a chain can be wrong (a cycle, a missing parent, a restated list,
an item twice, an unknown pipeline) and each way it can be right; the overrides include each kind of leaf
at each place. Versions differ in every component, with 9 and 10 among them.

**Deadlock** is checked except in `release` and `floating`, where a branch of `MaxCommits` commits comes to rest, and in
`algorithms`, whose computations end.

**Fairness.** `FairSpec` assumes weak fairness of the detector only: it is a
scheduled service, so a run starts again and again and a request it is
about to make is made. Nothing is assumed of operators, and the liveness properties are about
behaviours in which, from some point on, nobody else acts and requests do not fail
(`Quiet`); before that point anything happens, and the detector must recover
from it.

**Every property has a faulty variant.** Operators whose comment begins with
"Faulty" are bugs one could plausibly write (no re-read, rulesets ignored, trusting the order of an
array, ...). They are used nowhere; put in place of the operator below them, TLC finds the
property that guards against them violated.

### Disagreements with the code's own comments, messages and documents

- `reappearance`: the detector's docstring promises that an outdated consent is
  voided "so a later reappearance needs fresh consent". It looks at the newest active
  grant only. In the counterexample diffs A and then B are granted on one issue, and the detector
  reads settings with diff B: the newest grant matches, so it voids nothing and A's stays. A person withdraws
  B's label, and A's grant is the newest and authorizes. (Had the detector itself removed B's label, that
  entry of a bot would have made A's grant count as edited.) With
  one active grant at a time the promise holds (`detector_void`).
- `rebaseline`: `onboard --docs` in an adopted repository resolves a seed that no record
  covers and is refused, although that file does not exist. The message advises
  `sync --rebaseline-seeds`, but this resolves the declaration, in which docs are still
  off. Only editing the declaration first leads out. With `"crash"` in
  `World` the same property fails for a sidecar without declaration, which a
  kill between the two writes of a first onboarding (or the two deletions of an
  offboarding) leaves: onboarding refuses and advises `sync`, which needs a declaration.
- `floating`: the release workflow says that "an out-of-order or re-run release of an OLDER patch must
  never regress the mutable pointer". In the counterexample a run whose release commit failed before its tag is repeated after
  a later commit of the same version was tagged. It finds the tag, its version is the highest,
  and the floating major is set to its own, older commit: the guard compares versions, and this one is not older but the same.
  `FloatingNeverRegresses` states what holds: the version never decreases.
- `removed_check`: the docstring of `_profile_status_checks` (`cli.py` 157–159) promises "the SAME status checks drift detection
  uses — never re-adding a check the consumer removed". `_patch_status_checks` only adds to the template's checks, so the lint check stays, nothing reports it, and
  `complete-protection` and reconcile refuse because the ruleset does not match what is desired. The advice, `apply-rulesets`,
  puts it back. A branch protected without rulesets even stops being as desired when it is followed, so
  `SettledStaysSettled` is checked (and true) only for a template whose checks all run.
- `just_the_diff.cfg`: `run_reconcile` sends the whole desired state and explains that,
  since unchanged fields equal live, this "is equivalent to applying just the diff".
  `apply_settings` re-checks only branch protection. In the counterexample someone turns a security
  toggle off after the last read, and the apply turns it on again although the
  confirmed diff did not mention it. `OnlyReviewedChangesLand` states what does hold:
  such an overwrite happens only to a surface that changed after it was last read.
- `recovery.cfg`: after a failure between creation and push, provisioning advises `complete-protection <local-clone>`. That
  command reads the declaration of the clone, which the repository does not have before
  the scaffold is pushed (`cli.py` 1865–1877 against 1718–1721).
- `offboarded.cfg`: the offboarding document says that afterwards "no Aviato automation runs
  and no markers remain". `offboard` removes what the declaration resolves to now; a docs
  workflow from before docs were switched off stays. `InterruptedRunsResume` states
  what holds: of the outputs it resolves, none keeps a marker once the declaration is gone.

Seen while modelling, without a run of their own:

- `create_repo` can take effect and lose its answer. The message is then that provisioning "failed before the
  repository was created", and running it again cannot work (`cli.py` 1859–1864). This is why `ReportIsTrue` asks nothing of that
  message. The same holds for the advice to re-run `provision` after a failed push. When the answer to the minimal PUT is lost, the
  message calls a protected repository unprotected, so nothing is asserted of that message either.
- A ruleset of ours that someone re-scopes away from the branch shows no drift. The code's comment names this gap
  (`rulesets.py` 134–137). The flat settings drift unless something else asks for the same; if that is a ruleset of others, nothing
  compares its bypasses. `CleanReadingHidesNoBypass` says what remains true, and `ReportIsTrue` that `apply-rulesets` puts the scope back.
- An override `requires_pull_request: false` leaves `required_reviews` at the profile's value, which the
  branch then never shows: drift that no apply removes.
- Only `default_branch` and `security` are checked for types: a scalar for `repository` or `actions`
  passes composition and fails in `_desired_settings`.
- `is_highest` counts pre-releases: a tag 1.1.0-alpha1 keeps the floating 1 from moving to 1.0.5.
- An explicit null in a declaration hides a default once and is not written back, the exception in `ValuesRoundTrip`.
- A run repeated so late that its version was proposed again behind it leaves a change without a pull request until the next push,
  the exception `TaggedLate` in `NothingIsForgotten`.
- A list restated by the only bundle of a chain may name an item twice: `merge_list` is never called, and nothing else looks.
  `CompositionAssumption` excludes it.

## What is proved

Every invariant and action property of a passing run is a theorem, for every number of operators,
detectors, issues, accounts, surfaces and values; every set of outputs, profiles, versions and templates; every
number of checks, approvals, moves of others, commits, kinds of change and failed runs; libraries of any size, settings nested
to any depth, timelines of any length. The proofs rest on the named assumptions about constants
(`DeclaredAssumption`, `IssueAssumption`, `ReconcileAssumption`, `TimelineAssumption`, `ManagedFilesAssumption`,
`ProtectionAssumption`, `ProvisioningAssumption`, `ReleaseAssumption`, `CompatibilityAssumption`,
`VariablesAssumption`, `CompositionAssumption`, `SettingsAssumption`), which TLC evaluates on the runs that use them.
Four theorems need more than these, and their statements say so. None of these hypotheses can be
dropped: without it TLC finds a counterexample, by one of the runs or by changing the named constant in the run's `.cfg`.

| Theorem | Hypothesis | Without it |
|---|---|---|
| `DetectorKeepsOneIssue` | one detector; nobody else opens or reopens issues with the label | `open_or_update_issue` looks and then creates: with two `Detectors` in `detector_live` both create. `gated_apply` has two open issues and shows that they never authorize. |
| `LapsedConsentIsVoid` | one issue with at most one consent label at a time | With two labels, run `reappearance`. With two issues (`IssueNumbers` in `detector_void`, and `"open"` in `World`) the grant of the same diff on the other issue stays. |
| `ReconcileImplementsGate` | one run, nobody else changes settings | With two `Runs` in `gated_apply` one lands what the other has read as different, so that its diff is not true any more when it is authorized. What holds besides is `WritesAreReviewed`. |
| `ProtectionStays` | the ruleset template names only checks that the profile's pipelines produce | Run `removed_check`. |

- **Types** (`ReconcileProofs`, `ManagedFilesProofs`, `ProvisioningProofs`, `ReleaseProofs`): `TypeCorrect`,
  `FileTypesCorrect`. In reconciliation `TypeOK` alone is not
  inductive: a run that reads a timeline must have an issue to read, and one that reads or
  writes surface `k` must have a `k`-th surface. `Located` adds just that (`TypeInv`).
- **Writes are authorized** (`ReconcileAuditProofs`): `WritesAreAuthorized`, the safety property of the whole protocol. The
  inductive invariant `AuthorityInv` says for each stage of the second pass what must have been
  seen by then: past the issue list, an open issue, and no second one unless the run is marked
  ambiguous or has no grant; past the timeline, a grant by the very account in `giver`, unedited
  and for the confirmed diff, whenever the run rests on one; past the role lookup, that account
  among the admins. History only grows (`WatchGrows`), so what a run was vouched for
  survives the steps of others (`RestingStaysVouched`), and each step of the run adds
  what it read (`StepStaysVouched`).
- **What lands was reviewed, and the audit says so** (`ReconcileAuditProofs`): `WritesAreReviewed`, `AuditsAreTruthful`. `LandingInv` ties
  the place in the sequence of requests to the settings: from the last read of a surface to its
  write it is as the run saw it, after its write as the run desires it (`SnapHolds`, `WritesHold`), unless
  others changed it; the writes are those of the confirmed diff, and a ruleset that the binding
  cannot write holds what is desired, or the guard would have refused (`Reviewed`).
- **Consent that the detector found outdated** (`ReconcileAuditProofs`): `LapsedConsentIsVoid`. By `VoidInv` no grant that a completed
  run of the detector found is active still: while it runs, of those it found only the one it is
  about to revoke and the one for the diff it reports can be (`LapsingHolds`), and a second pass of reconcile has
  read an active one (`FreshHolds`).
- **One tracking issue** (`ReconcileProofs`): `DetectorKeepsOneIssue`. In `IssueInv`, a detector about to create has listed that
  none is open (`ListingHolds`). That the listing selects a candidate rests on the well-foundedness of the naturals (`OldestIsMember`).
- **Reconcile implements the gate** (`ReconcileRefinementProofs`): `ReconcileImplementsGate`. Under the mapping of `ReconcileRefinement` a run's ticket is the confirmed
  diff from the moment its second pass has read an unedited human grant of it until its writes end. `UndisturbedInv` provides what each
  step has to map to: what was read is still live, so `Authorize` takes a true diff, and a write lands an entry of it or
  changes nothing. Every other step maps to `Reconsider`, `GiveUp` or a stutter.
- **The operator's files** (`ManagedFilesProofs`): `OperatorWorkIsSafe`, for any templates. The inductive
  invariant `FileInv` adds to the types that no marker records a body which only an
  operator writes (`FilesInv`): that is why "the body is as Aviato last wrote it" never
  means an edited file, however often markers were tampered with or versions moved. `Sound` adds that a
  command works on nothing but the outputs it resolved, and offboard on marked ones. Both hold
  because every file that changes is replaced by a good one (`OneFileKeeps` within
  commands, `BetweenKeeps` outside); `StepSpares` then looks at the three actions that write files.
- **Success and resumption** (`ManagedFilesProofs`): `SuccessIsSettled`, `KilledCommandsResume`. In `SettledInv`, the outputs a command has left
  behind are settled and the record that it will write has every seed that exists (`Working`), and at any
  moment the files, the declaration and the sidecar would let the command start again
  (`Resuming`): the sidecar never forgets a seed, and offboard deletes the declaration after the last marker.
- **Provisioning** (`ProvisioningProofs`): `CommandsTellTheTruth`
  (`ReportIsTrue`), `FirstPushPasses`, `CleanReadingsVouch`, `DropsOnlyLateProtection`, `SparesOthers`. The inductive invariant `Staged` says where a command can be. `InPlace` ties its kind,
  its payload and its next request together, whoever interferes. `Undisturbed` says what it has achieved by that
  request as long as nobody did: what the guards read is still there (`ReadingHolds`), the stages behind it are in effect
  (`Achieved`), and what the command before it said is true (`Told`). The minimal protection survives the later
  stages because `Put` of the desired payload blocks at least as much (`PutBlocks`). `CleanReadingsVouch` needs another
  invariant, `Keyed`: a name and a kind of ref name one ruleset, so where ours is out of scope, no other bears its name.
- **Protection stays** (`ProvisioningProofs`): `ProtectionStays`. A branch with its desired protection is read from both surfaces together, so
  replacing one must not take away what the other relied on. `Settled` adds that a ruleset of this repository asks for no other number of
  approvals than the profile's (`PlainReviews`); then the ruleset sent in place of another restricts no less, and the wholesale PUT drops nothing.
- **Releases** (`ReleaseProofs`): **`VersionsGrow`** (`VersionsGrowAlongHistory`),
  **`NumbersTellChanges`** (`ReleasesCarryChanges`), `TagsTellTheTruth` (`TaggedManifestAgrees`), `FloatingKeepsUp` (`FloatingNeverRegresses`). A
  run may tag long after it derived its version, so order is not obvious. The invariant `Orderly` has the
  reason in `Chained`: the version of a run with outputs, in progress, waiting or failed, is the one that would be derived anew
  for its commit, until that version is tagged. This survives the tags of others because a higher
  bump over a longer range makes up for a lower one before it (`HigherBumpWins`, `ClassifyUnion`), and a release of the same
  range has the same version and is found. Order along the branch follows from the least pair that would violate it.
- **Nothing is forgotten** (`ReleaseProofs`): `ReleasesAreFinished`. What `Chained` says of runs, `Named` says of pull requests and release commits: a version that
  waits in one followed at an earlier commit, and still does. `Delivered`: what is tagged is published or has a run that
  will. `Attended`: unless it refused to tag, the newest commit has a run, or nothing new to release, or its pull request, or is the exception `TaggedLate`.
- **Composition** (`CompositionProofs`): `LastMentionDecides`, `GateMatchesPipelines`, `NothingGoesBelowBaseline`, `OverridesArrive`. Recorded sets are composed ones (`ComposedInv`);
  the rest is about the operators. First that a recursive function on the length of a chain is
  what its equations say; then what merging keeps of trees and that it satisfies the equations of `deep_merge` key by key; then, by the least
  layer that would violate it, what a chain of bundles amounts to. `CompositionAssumption` says what YAML and
  the registry yield: bundles are mappings, names are strings, `required_status_checks` of a bundle is a list. `SettingsAssumption`, used for
  `OverridesArrive` only, says that bundles keep their settings in the four blocks, under keys that the binding can write, none of them a map or in two blocks. The
  Library's bundles are so, and `validate` checks the baseline's keys; with a key in two blocks `_desired_settings` would let the later block hide an override.
- **Timelines** (`AlgorithmProofs`): `SummariesAreTrue` (`ReductionReflectsHistory`). In an ordered timeline there is exactly one order of the
  returned array (`Orders`, the permutations of its places), so sorting gives the true history back; the reduction of a history with one more entry is that of the
  history, changed as `TrackingIssue` changes its summary (`ReducedInv`).
- **Version gate** (`AlgorithmProofs`): `OldToolsAreRefused` (`OlderToolsStayOut`), for any finite set of recorded versions, because the one that binds most exists
  and being no older than it is transitive.
- **Variables** (`AlgorithmProofs`): `ValuesAreFoundAgain` (`ValuesRoundTrip`), because coercing twice changes nothing (`CoercedOnce`) and an absent
  value means that neither source nor default had one.

**Only model-checked**: liveness (`StaleConsentIsVoided`, `DriftIsReported`), because fairness and `ENABLED`
are outside what the prover handles, and of course the counterexamples. Induction over data is also outside it where a library theorem would
take the induction hypothesis as an operator; where it was needed, the proofs argue by the least counterexample instead.

## What is not modelled

- The security, merge and Actions toggles key by key: they are three groups. In `Reconcile` branch protection too is one value,
  and a refusal by its guards a `Fail`; its fields are in `Protection`.
- The classification of a change as additive or destructive: reported, never decided on.
- The wording of comments and issue bodies. A body edit leaves no timeline entry.
- Retries of rate-limited reads: reads have no effect, so a retried read is a later read.
- `plan_reconcile`/`execute_reconcile`: exported, called by no command.
- A change of `owner` during a run. It is fixed per behaviour.
- Timeline entries with equal timestamps that GitHub returns out of order: the
  code breaks such ties by position, and `Returned` assumes that position is right.
- Of the managed files: the clean-tree check, the backfill of a missing profile identity,
  repin's checks of variables and overrides, files that are not UTF-8, floating pins,
  the Library's own repository (bootstrap), two commands in one tree at a time.
- A killed first onboarding or profile migration is not promised to resume, and does
  not: its own files look like another profile's, or its sidecar has no declaration.
- Of provisioning: the content of the scaffold (what `ManagedFiles` is about) and the remaining parts of the operator's
  clone; `scaffold_push` ignores what `scaffold` returns, but a fresh clone gives it nothing to refuse. GitHub's listing
  may omit a ruleset's target; here it does not.
- Of releases: that a repeated run would displace a waiting one (`RunAgain` waits until none is), which comes close to
  `Fail`; `bump_files`' rewriting of each file format and build numbers; what is built and published
  to where; two versions in one tree that disagree.
- Of composition: reading and schema-checking the YAML files, artifacts and their conditions, variants.
- Of the version gate: the operator's own `--override-version-pin` and `--recorded-version`. The suffix of a pre-release counts for nothing, as in the code.
- Two clones of one repository: `scan --fix` diagnoses a local tree and proposes from a fresh clone; two writers of a proposal branch.
- Fleet scan, audit, self-check and validation: read-only reports over the components above, without state.

## The plan

1. **Done**: settings, the consent channel, reconcile, the detector; the abstract
   specification and refinement; type correctness and the authorization theorem.
2. **Done**: `ManagedFiles`, with the safety of the operator's files proved.
3. **Done**: `Provisioning` over `Protection`, with the truth of its reports proved; the advised recoveries.
4. **Done**: the release workflow, with the order and content of releases proved; composition,
   variables and the version gate over bounded inputs.
5. **Done**: every safety property of a passing run as a theorem, and the refinement.
6. **Next, proofs**: an abstract gate for several operators, whose tickets say what each had read, and the refinement to it;
   what the detector guarantees of consent with several issues and labels.
7. **Next, models**: two clones and the proposal branch; the checks of `repin` on variables and overrides.
