---------------------------- MODULE ManagedFiles ----------------------------
(***************************************************************************)
(* The files Aviato maintains in the working tree of one consumer: managed *)
(* files with a marker, seed-once files recorded in a sidecar, and the     *)
(* declaration.  One command at a time runs there (onboard, sync, repin,   *)
(* offboard); it checks everything first, then replaces one file after the *)
(* other, each atomically, and can be killed between any two.  Between     *)
(* commands the operator edits files, installs another tool or merges a    *)
(* proposal.                                                               *)
(***************************************************************************)
EXTENDS Naturals, Sequences

CONSTANTS
    Passive,     (* outputs that are managed and only read, such as configs *)
    Automation,  (* outputs that are managed workflows, which GitHub runs   *)
    Seeds,       (* outputs that are written once and then the operator's   *)
    Order,       (* the outputs in the order the registry resolves them     *)
    Profiles,
    Versions,    (* published versions of the Library, one major line       *)
    Tokens,      (* what templates render to                                *)
    None,        (* no such artifact, no such file                          *)
    Mine,        (* what only an operator writes                            *)
    Template,    (* of an output, profile, Library version and docs choice  *)
    DocsChoices, (* the docs choices a declaration may make                 *)
    World,       (* the names of what may happen besides the commands       *)
    MaxMoves     (* how much of it the operator does between commands       *)

Managed == Passive \cup Automation
Outputs == Managed \cup Seeds

ASSUME ManagedFilesAssumption ==
    /\ Managed \cap Seeds = {} /\ Passive \cap Automation = {}
    /\ Profiles # {} /\ Versions # {} /\ Versions \subseteq Nat \ {0}
    /\ DocsChoices # {} /\ DocsChoices \subseteq BOOLEAN /\ MaxMoves \in Nat
    /\ {None, Mine} \cap Tokens = {} /\ None # Mine
    /\ Template \in [Outputs \X Profiles \X Versions \X BOOLEAN -> Tokens \cup {None}]
    /\ \A o \in Outputs : \E i \in 1..Len(Order) : Order[i] = o

VARIABLES
    file,        (* the managed and seed-once files of the tree            *)
    decl,        (* the declaration, if there is one                       *)
    sidecar,     (* the record of the seeds' content hashes                *)
    tool,        (* the installed version of the Library and its CLI       *)
    cmd,         (* the command that runs, or what the last one came to    *)
    moves        (* the number of the operator's moves so far              *)

vars == <<file, decl, sidecar, tool, cmd, moves>>

-----------------------------------------------------------------------------
Declaration == [profile : Profiles, version : Versions, docs : DocsChoices]

(* Workflows refer to the Library at the pinned version.                   *)
Bodies == (Tokens \cup {Mine}) \X (Versions \cup {0})
MineBody == <<Mine, 0>>
NoBody == <<None, 0>>

(* A version that no release has, such as 0, stands for an unknown one.    *)
Mark == [profile : Profiles, version : Versions \cup {0}, hash : Bodies, docs : DocsChoices]

Absent == [body |-> NoBody, mark |-> {}]
Present(o) == file[o] # Absent
MarkOf(o) == CHOOSE m \in file[o].mark : TRUE

(* The resolved set of a declaration in a version of the Library.          *)
Items(d, lib) == {o \in Outputs : Template[<<o, d.profile, lib, d.docs>>] # None}

Body(o, d, lib) ==
    <<Template[<<o, d.profile, lib, d.docs>>], IF o \in Automation THEN d.version ELSE 0>>

RenderManaged(o, d, lib) ==
    [body |-> Body(o, d, lib),
     mark |-> {[profile |-> d.profile, version |-> d.version,
                hash |-> Body(o, d, lib), docs |-> d.docs]}]

Plain(body) == [body |-> body, mark |-> {}]

(* The one of S that the registry resolves first.                          *)
Foremost(o, S) ==
    /\ o \in S
    /\ \E i \in 1..Len(Order) : Order[i] = o /\ \A j \in 1..i - 1 : Order[j] \notin S

Records == UNION {[S -> Bodies] : S \in SUBSET Seeds}
NoRecord == [o \in {} |-> NoBody]

NoSidecar == [status |-> "missing", hashes |-> NoRecord]

(* Faulty: what can be read of a corrupt sidecar is still used.            *)
StillRead == [sidecar EXCEPT !.status = "corrupt"]

CorruptSidecar == [status |-> "corrupt", hashes |-> NoRecord]

AnyDeclaration == CHOOSE d \in Declaration : TRUE
AnyVersion == CHOOSE v \in Versions : TRUE

(* outcome: none, done, cut (killed), or why the command refused.          *)
IdleCmd == [name |-> "none", pc |-> "idle", outcome |-> "none", d |-> AnyDeclaration,
            lib |-> AnyVersion, from |-> {}, force |-> FALSE, base |-> FALSE,
            todo |-> {}, strip |-> {}, hashes |-> NoRecord, seeded |-> FALSE,
            skipped |-> {}]

Cmd == [name : {"none", "onboard", "migrate", "sync", "repin", "offboard"},
        pc : {"idle", "pin", "write", "declare", "remove", "unrecord"},
        outcome : {"none", "done", "cut", "seeds", "protected", "pin", "unmarked"},
        d : Declaration, lib : Versions, from : SUBSET Profiles, force : BOOLEAN,
        base : BOOLEAN, todo : SUBSET Outputs, strip : SUBSET Outputs,
        hashes : Records, seeded : BOOLEAN, skipped : SUBSET Outputs]

TypeOK ==
    /\ file \in [Outputs -> [body : Bodies \cup {NoBody}, mark : SUBSET Mark]]
    /\ \A o \in Outputs : \A m, n \in file[o].mark : m = n
    /\ decl \in SUBSET Declaration
    /\ sidecar \in [status : {"ok", "missing", "corrupt"}, hashes : Records]
    /\ sidecar.status # "ok" => sidecar.hashes = NoRecord
    /\ tool \in Versions
    /\ cmd \in Cmd
    /\ moves \in 0..MaxMoves

(* A repository that Aviato has not seen may have files of its own.        *)
Init ==
    /\ file \in [Outputs -> {Absent, Plain(MineBody)}]
    /\ decl = {}
    /\ sidecar = NoSidecar
    /\ tool \in Versions
    /\ cmd = IdleCmd
    /\ moves = 0

-----------------------------------------------------------------------------
(* Checks before the first write.                                          *)

(* preflight_seed_integrity for a run that neither rebaselines nor starts  *)
(* afresh.                                                                 *)
SeedsUnknown(items, expand) ==
    /\ items \cap Seeds # {}
    /\ sidecar.status = "ok" =>
          \E o \in items \cap Seeds :
              o \notin DOMAIN sidecar.hashes /\ (expand => Present(o))

(* classify_migration_targets: only clean files of the old profile may go. *)
Protected(items, from) ==
    {o \in items \cap Managed :
        /\ Present(o)
        /\ ~ \E m \in file[o].mark :
               m.profile = from /\ m.version \in Versions /\ m.hash = file[o].body}

RecordedVersions(items) ==
    UNION {{m.version : m \in file[o].mark} : o \in items \cap Managed}

PinCompatible(d, items) ==
    LET recorded == RecordedVersions(items)
    IN  \A v \in IF recorded = {} THEN {d.version} ELSE recorded :
            v \in Versions /\ tool >= v

(* offboard stops before it would leave a workflow behind that it cannot   *)
(* recognise.                                                              *)
OffboardBlocked(items) == \E o \in items \cap Automation : Present(o) /\ file[o].mark = {}

-----------------------------------------------------------------------------
(* Starting a command.                                                     *)

Idle == cmd.pc = "idle" /\ UNCHANGED <<file, decl, sidecar, tool, moves>>

Begun(name, d, lib) ==
    [IdleCmd EXCEPT !.name = name, !.d = d, !.lib = lib, !.pc = "write",
                    !.todo = Items(d, lib), !.hashes = sidecar.hashes]

Refused(name, d, lib, why) ==
    [IdleCmd EXCEPT !.name = name, !.d = d, !.lib = lib, !.outcome = why]

(* A first adoption takes the seeds it finds as they are.                  *)
OnboardFresh(d) ==
    /\ Idle
    /\ decl = {}
    /\ cmd' = IF sidecar.status # "missing"
              THEN Refused("onboard", d, tool, "seeds")
              ELSE [Begun("onboard", d, tool) EXCEPT
                       !.base = TRUE,
                       !.hashes = [o \in {s \in Items(d, tool) \cap Seeds : Present(s)}
                                     |-> file[o].body]]

(* Onboarding keeps the pin and can switch docs on, not off.               *)
OnboardAgain(docs) ==
    /\ Idle
    /\ \E old \in decl :
          LET d == [old EXCEPT !.docs = @ \/ docs]
          IN  cmd' = IF SeedsUnknown(Items(d, tool), FALSE)
                     THEN Refused("onboard", d, tool, "seeds")
                     ELSE Begun("onboard", d, tool)

OnboardMigrating(profile, docs) ==
    /\ Idle
    /\ \E old \in decl :
          LET d == [old EXCEPT !.profile = profile, !.docs = @ \/ docs]
              items == Items(d, tool)
          IN  /\ profile # old.profile
              /\ cmd' = IF Protected(items, old.profile) # {}
                        THEN Refused("migrate", d, tool, "protected")
                        ELSE IF SeedsUnknown(items, TRUE)
                        THEN Refused("migrate", d, tool, "seeds")
                        ELSE [Begun("migrate", d, tool) EXCEPT !.from = {old.profile}]

(* base: --rebaseline-seeds; override: --override-version-pin.             *)
Sync(force, base, override) ==
    /\ Idle
    /\ \E d \in decl :
          LET items == Items(d, tool)
          IN  cmd' = IF ~override /\ ~PinCompatible(d, items)
                     THEN Refused("sync", d, tool, "pin")
                     ELSE IF ~base /\ SeedsUnknown(items, FALSE)
                     THEN Refused("sync", d, tool, "seeds")
                     ELSE [Begun("sync", d, tool) EXCEPT
                             !.force = force,
                             !.base = base,
                             !.hashes = IF base
                                 THEN [o \in {s \in items \cap Seeds : Present(s)} |-> file[o].body]
                                 ELSE @]

(* The target's own registry renders the files; the pin is written first.  *)
Repin(version) ==
    /\ Idle
    /\ \E old \in decl :
          LET d == [old EXCEPT !.version = version]
          IN  cmd' = IF SeedsUnknown(Items(d, version), FALSE)
                     THEN Refused("repin", d, version, "seeds")
                     ELSE [Begun("repin", d, version) EXCEPT !.pc = "pin"]

(* Faulty: workflows are kept as plain files, too.                         *)
StripsAll(keep, marked) == IF keep THEN marked ELSE {}

Strips(keep, marked) == IF keep THEN marked \cap Passive ELSE {}

Offboard(keep) ==
    /\ Idle
    /\ \E d \in decl :
          LET items == Items(d, tool)
              marked == {o \in items \cap Managed : file[o].mark # {}}
          IN  cmd' = IF OffboardBlocked(items)
                     THEN Refused("offboard", d, tool, "unmarked")
                     ELSE [Begun("offboard", d, tool) EXCEPT
                             !.pc = "remove", !.hashes = NoRecord,
                             !.todo = marked, !.strip = Strips(keep, marked)]

-----------------------------------------------------------------------------
(* scaffold: what happens to one managed file.                             *)

(* Faulty: any managed file is regenerated.                                *)
Regenerates(o) == file[o].mark # {} /\ MarkOf(o).profile \in {cmd.d.profile} \cup cmd.from

(* Faulty: a marker at an old pin is good enough.                          *)
CurrentBody(o) ==
    /\ file[o].mark # {}
    /\ file[o].body = Body(o, cmd.d, cmd.lib)
    /\ MarkOf(o) = [profile |-> cmd.d.profile, version |-> MarkOf(o).version,
                    hash |-> file[o].body, docs |-> cmd.d.docs]

(* Nothing to do: body and marker are what would be written.               *)
Current(o) == file[o] = RenderManaged(o, cmd.d, cmd.lib)

(* The file is recognisably Aviato's: a marker of this profile (or of the  *)
(* one migrated from) at a known version, over a body that is as expected  *)
(* or as Aviato last wrote it.                                             *)
Replaceable(o) ==
    \E m \in file[o].mark :
        /\ m.profile \in {cmd.d.profile} \cup cmd.from
        /\ m.version \in Versions
        /\ file[o].body \in {Body(o, cmd.d, cmd.lib), m.hash}

Done(c) == [c EXCEPT !.pc = "idle", !.outcome = "done", !.hashes = NoRecord]

Step(o) == cmd.pc = "write" /\ Foremost(o, cmd.todo)

WriteManaged(o) ==
    /\ Step(o)
    /\ o \in Managed
    /\ ~Current(o)
    /\ ~Present(o) \/ cmd.force \/ Replaceable(o)
    /\ file' = [file EXCEPT ![o] = RenderManaged(o, cmd.d, cmd.lib)]
    /\ cmd' = [cmd EXCEPT !.todo = @ \ {o}]
    /\ UNCHANGED <<decl, sidecar, tool, moves>>

(* Left alone: up to date, or skipped and reported.                        *)
LeaveManaged(o) ==
    /\ Step(o)
    /\ o \in Managed
    /\ Current(o) \/ ~(~Present(o) \/ cmd.force \/ Replaceable(o))
    /\ cmd' = [cmd EXCEPT !.todo = @ \ {o},
                          !.skipped = IF Current(o) THEN @ ELSE @ \cup {o}]
    /\ UNCHANGED <<file, decl, sidecar, tool, moves>>

(* A seed is written when it is absent; the record follows at the end.     *)
WriteSeed(o) ==
    /\ Step(o)
    /\ o \in Seeds
    /\ LET body == Body(o, cmd.d, cmd.lib)
       IN  IF Present(o)
           THEN /\ cmd' = [cmd EXCEPT !.todo = @ \ {o}]
                /\ UNCHANGED file
           ELSE /\ file' = [file EXCEPT ![o] = Plain(body)]
                /\ cmd' = [cmd EXCEPT
                       !.todo = @ \ {o}, !.seeded = TRUE,
                       !.hashes = [s \in DOMAIN @ \cup {o} |-> IF s = o THEN body ELSE @[s]]]
    /\ UNCHANGED <<decl, sidecar, tool, moves>>

WriteSidecar ==
    /\ cmd.pc = "write"
    /\ cmd.todo = {}
    /\ sidecar' = IF cmd.base \/ cmd.seeded
                  THEN [status |-> "ok", hashes |-> cmd.hashes]
                  ELSE sidecar
    /\ cmd' = IF cmd.name \in {"onboard", "migrate"}
              THEN [cmd EXCEPT !.pc = "declare", !.hashes = NoRecord]
              ELSE Done(cmd)
    /\ UNCHANGED <<file, decl, tool, moves>>

(* Onboarding declares last, a re-pin first.                               *)
WriteDeclaration ==
    /\ cmd.pc \in {"declare", "pin"}
    /\ decl' = {cmd.d}
    /\ cmd' = IF cmd.pc = "pin" THEN [cmd EXCEPT !.pc = "write"] ELSE Done(cmd)
    /\ UNCHANGED <<file, sidecar, tool, moves>>

-----------------------------------------------------------------------------
(* offboard: strips, then deletions, then the declaration, then the        *)
(* sidecar.                                                                *)

StripOrDelete(o) ==
    /\ cmd.pc = "remove"
    /\ Foremost(o, IF cmd.strip # {} THEN cmd.strip ELSE cmd.todo)
    /\ file' = [file EXCEPT ![o] = IF o \in cmd.strip THEN Plain(@.body) ELSE Absent]
    /\ cmd' = [cmd EXCEPT !.todo = @ \ {o}, !.strip = @ \ {o}]
    /\ UNCHANGED <<decl, sidecar, tool, moves>>

DeleteDeclaration ==
    /\ cmd.pc = "remove"
    /\ cmd.todo = {}
    /\ decl' = {}
    /\ cmd' = [cmd EXCEPT !.pc = "unrecord"]
    /\ UNCHANGED <<file, sidecar, tool, moves>>

DeleteSidecar ==
    /\ cmd.pc = "unrecord"
    /\ sidecar' = NoSidecar
    /\ cmd' = Done(cmd)
    /\ UNCHANGED <<file, decl, tool, moves>>

(* The process is killed, or a write fails.                                *)
Crash ==
    /\ "crash" \in World
    /\ cmd.pc # "idle"
    /\ cmd' = [IdleCmd EXCEPT !.name = cmd.name, !.d = cmd.d, !.lib = cmd.lib,
                              !.from = cmd.from, !.base = cmd.base, !.outcome = "cut"]
    /\ UNCHANGED <<file, decl, sidecar, tool, moves>>

-----------------------------------------------------------------------------
(* Diagnosis and proposals.                                                *)

Status(o, d, lib) ==
    LET expected == Body(o, d, lib)
        trusted == {m \in file[o].mark : m.profile = d.profile /\ m.version \in Versions}
        live == file[o].body
    IN  IF ~Present(o) THEN "missing"
        ELSE IF \E m \in trusted : live = expected /\ m.hash = live /\ m.docs = d.docs
        THEN "clean"
        ELSE IF \E m \in trusted : live \in {m.hash, expected}
        THEN "mergeable-drift"
        ELSE "dirty-drift"

Between(event) ==
    /\ event \in World
    /\ cmd.pc = "idle"
    /\ cmd' = IdleCmd
    /\ moves < MaxMoves
    /\ moves' = moves + 1

(* scan --fix: its pull request regenerates what drifted or is missing.    *)
MergeFix ==
    /\ Between("proposal")
    /\ \E d \in decl :
          /\ PinCompatible(d, Items(d, tool))
          /\ file' = [o \in Outputs |->
                 IF o \in Items(d, tool) \cap Managed
                    /\ Status(o, d, tool) \in {"missing", "mergeable-drift"}
                 THEN RenderManaged(o, d, tool) ELSE file[o]]
    /\ UNCHANGED <<decl, sidecar, tool>>

(* onboard --open-pr: the declaration, every managed file, and the seeds   *)
(* that are absent, but no sidecar.                                        *)
MergeOnboarding(d) ==
    /\ Between("proposal")
    /\ \A old \in decl :
          /\ d.version = old.version
          /\ old.docs => d.docs
          /\ d.profile # old.profile => Protected(Items(d, tool), old.profile) = {}
    /\ file' = [o \in Outputs |->
           IF o \in Items(d, tool) \cap Managed THEN RenderManaged(o, d, tool)
           ELSE IF o \in Items(d, tool) /\ ~Present(o) THEN Plain(Body(o, d, tool))
           ELSE file[o]]
    /\ decl' = {d}
    /\ UNCHANGED <<sidecar, tool>>

-----------------------------------------------------------------------------
(* What the operator does between commands.                                *)

(* Edits under the marker, over the marker, or of the version in it;       *)
(* deletes.                                                                *)
EditFile(o) ==
    /\ \/ Between("edit") /\ Present(o) /\ file' = [file EXCEPT ![o].body = MineBody]
       \/ Between("own") /\ file' = [file EXCEPT ![o] = Plain(MineBody)]
       \/ /\ Between("tamper")
          /\ file[o].mark # {}
          /\ file' = [file EXCEPT ![o].mark = {[MarkOf(o) EXCEPT !.version = 0]}]
       \/ Between("delete") /\ Present(o) /\ file' = [file EXCEPT ![o] = Absent]
    /\ UNCHANGED <<decl, sidecar, tool>>

EditDeclaration ==
    /\ decl # {}
    /\ \/ Between("docs") /\ \E docs \in DocsChoices : decl' = {[d EXCEPT !.docs = docs] : d \in decl}
       \/ Between("lose") /\ decl' = {}
    /\ UNCHANGED <<file, sidecar, tool>>

EditSidecar ==
    /\ Between("sidecar")
    /\ sidecar' \in {NoSidecar, CorruptSidecar}
    /\ UNCHANGED <<file, decl, tool>>

Install(version) ==
    /\ Between("tool")
    /\ tool' = version
    /\ UNCHANGED <<file, decl, sidecar>>

Command ==
    \/ \E d \in Declaration : OnboardFresh(d)
    \/ \E docs \in DocsChoices : OnboardAgain(docs)
    \/ \E p \in Profiles, docs \in DocsChoices : OnboardMigrating(p, docs)
    \/ \E force, base, override \in BOOLEAN : Sync(force, base, override)
    \/ \E v \in Versions : Repin(v)
    \/ \E keep \in BOOLEAN : Offboard(keep)

CommandStep ==
    \/ \E o \in Outputs : WriteManaged(o) \/ LeaveManaged(o) \/ WriteSeed(o) \/ StripOrDelete(o)
    \/ WriteSidecar \/ WriteDeclaration \/ DeleteDeclaration \/ DeleteSidecar

Operator ==
    \/ \E o \in Outputs : EditFile(o)
    \/ EditDeclaration \/ EditSidecar
    \/ \E v \in Versions : Install(v)
    \/ MergeFix \/ \E d \in Declaration : MergeOnboarding(d)

Next == Command \/ CommandStep \/ Crash \/ Operator

Spec == Init /\ [][Next]_vars

-----------------------------------------------------------------------------
Scaffolding == {"onboard", "migrate", "sync", "repin"}

OperatorsOwn(o) ==
    Present(o) /\ (o \in Seeds \/ file[o].mark = {} \/ file[o].body = MineBody)

(* No command changes a file that is the operator's: a seed, a file without *)
(* a marker, or a managed file edited by hand.  The exceptions are asked    *)
(* for: sync --force replaces managed files, and offboard takes away the    *)
(* files that carry a marker, or only the marker (scaffold and              *)
(* offboarding.offboard, "never clobber").                                  *)
OperatorWorkSurvives ==
    [][\A o \in Outputs :
          cmd.pc # "idle" /\ OperatorsOwn(o) /\ file'[o] # file[o] =>
             /\ o \in Managed
             /\ IF cmd.name = "offboard"
                THEN file[o].mark # {} /\ file'[o] \in {Absent, Plain(file[o].body)}
                ELSE cmd.force]_vars

(* A command that reports success left nothing half done: the declaration   *)
(* says what was asked for, and a managed file is at the declared version   *)
(* and clean in the eyes of diagnosis, or was skipped and diagnosis refuses *)
(* it, too; a seed exists and is on record (scaffold against                *)
(* diagnosis._classify_managed, which must agree on every file).            *)
CompletionIsSettled ==
    cmd.outcome = "done" /\ cmd.name \in Scaffolding =>
       /\ decl = {cmd.d}
       /\ \A o \in Items(cmd.d, cmd.lib) :
             IF o \in Seeds
             THEN Present(o) /\ o \in DOMAIN sidecar.hashes
             ELSE IF o \in cmd.skipped
             THEN Status(o, cmd.d, cmd.lib) = "dirty-drift"
             ELSE /\ Status(o, cmd.d, cmd.lib) = "clean"
                  /\ MarkOf(o).version = cmd.d.version

(* A killed command can be started again: a sync, a re-pin or a repeated    *)
(* onboarding has not lost the seeds' record; an offboarding still has its  *)
(* declaration and is not stopped by what it left behind, or has removed    *)
(* all of the declared set ("a failed file mutation never orphans the       *)
(* declaration", offboard).                                                 *)
InterruptedRunsResume ==
    cmd.outcome = "cut" =>
       /\ cmd.name \in {"onboard", "sync", "repin"} /\ ~cmd.base =>
             ~SeedsUnknown(Items(cmd.d, cmd.lib), FALSE)
       /\ cmd.name = "offboard" =>
             IF decl = {}
             THEN \A o \in Items(cmd.d, tool) \cap Managed : file[o].mark = {}
             ELSE ~OffboardBlocked(Items(cmd.d, tool))

(* What a refused command tells the operator to do, sync --rebaseline-seeds,*)
(* makes the command acceptable (cli._print_seed_integrity_error).          *)
RebaselineHelps ==
    cmd.outcome = "seeds" =>
       \E d \in decl :
          \A o \in Items(cmd.d, cmd.lib) \cap Seeds :
             o \in Items(d, tool) \/ (cmd.name = "migrate" /\ ~Present(o))

(* "After offboarding, no Aviato automation runs and no markers remain to   *)
(* drift-check" (offboarding flow).                                         *)
OffboardLeavesNothing ==
    cmd.name = "offboard" /\ cmd.outcome = "done" =>
       \A o \in Managed : file[o].mark = {}

=============================================================================
