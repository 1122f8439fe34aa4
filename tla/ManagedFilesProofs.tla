------------------------- MODULE ManagedFilesProofs -------------------------
(***************************************************************************)
(* Proofs that the commands on a working tree keep its types, spare the    *)
(* operator's files, leave nothing half done when they report success, and *)
(* can be started again when they were killed, for every set of outputs,   *)
(* profiles, versions and templates.                                       *)
(***************************************************************************)
EXTENDS ManagedFiles, TLAPS

(* A file without a body does not exist, and no marker records a body that *)
(* only an operator writes.                                                *)
FilesInv ==
    \A o \in Outputs :
       /\ file[o].body = NoBody => file[o].mark = {}
       /\ \A m \in file[o].mark : m.hash # MineBody

(* A command works on the outputs it has resolved; offboard on those that  *)
(* carry a marker.                                                         *)
Sound(c) ==
    /\ c.pc \in {"pin", "write"} => c.todo \subseteq Items(c.d, c.lib)
    /\ c.pc \in {"pin", "write", "declare"} => c.name # "offboard"
    /\ c.pc = "remove" =>
          /\ c.name = "offboard"
          /\ \A o \in c.todo : o \in Managed /\ file[o].mark # {}
          /\ c.strip \subseteq c.todo
    /\ c.pc = "unrecord" => c.name = "offboard"

FileInv == TypeOK /\ FilesInv /\ Sound(cmd)

-----------------------------------------------------------------------------
(* Bodies and records.                                                     *)

(* What Aviato writes for an output of the resolved set is a body that no  *)
(* operator writes.                                                        *)
LEMMA BodyIsOurs ==
    ASSUME NEW d \in Declaration, NEW lib \in Versions, NEW o \in Items(d, lib)
    PROVE  /\ o \in Outputs
           /\ Body(o, d, lib) \in Bodies
           /\ Body(o, d, lib) # NoBody
           /\ Body(o, d, lib) # MineBody
<1>1. o \in Outputs /\ Template[<<o, d.profile, lib, d.docs>>] # None
  BY DEF Items
<1>2. d.profile \in Profiles /\ d.docs \in BOOLEAN /\ d.version \in Versions
  BY ManagedFilesAssumption DEF Declaration
<1>3. Template[<<o, d.profile, lib, d.docs>>] \in Tokens
  BY <1>1, <1>2, ManagedFilesAssumption
<1>. QED
  BY <1>1, <1>2, <1>3, ManagedFilesAssumption DEF Body, Bodies, NoBody, MineBody

LEMMA RenderedIsOurs ==
    ASSUME NEW d \in Declaration, NEW lib \in Versions, NEW o \in Items(d, lib)
    PROVE  /\ RenderManaged(o, d, lib) \in [body : Bodies \cup {NoBody}, mark : SUBSET Mark]
           /\ RenderManaged(o, d, lib).body # NoBody
           /\ \A m, n \in RenderManaged(o, d, lib).mark : m = n
           /\ \A m \in RenderManaged(o, d, lib).mark : m.hash # MineBody
<1>1. [profile |-> d.profile, version |-> d.version,
       hash |-> Body(o, d, lib), docs |-> d.docs] \in Mark
  BY BodyIsOurs DEF Mark, Declaration
<1>. QED
  BY <1>1, BodyIsOurs DEF RenderManaged

LEMMA PlainIsUnmarked ==
    ASSUME NEW b \in Bodies
    PROVE  /\ Plain(b) \in [body : Bodies \cup {NoBody}, mark : SUBSET Mark]
           /\ Plain(b).mark = {}
BY DEF Plain

LEMMA AbsentIsUnmarked ==
    /\ Absent \in [body : Bodies \cup {NoBody}, mark : SUBSET Mark]
    /\ Absent.mark = {}
BY DEF Absent

LEMMA MineIsBody == MineBody \in Bodies /\ MineBody # NoBody
BY ManagedFilesAssumption DEF MineBody, NoBody, Bodies

LEMMA NoRecordIsRecord == NoRecord \in Records
<1>1. NoRecord \in [{} -> Bodies]
  BY DEF NoRecord
<1>. QED
  BY <1>1 DEF Records

LEMMA IdleType == IdleCmd \in Cmd
<1>1. AnyDeclaration \in Declaration
  <2>1. PICK p \in Profiles, v \in Versions, b \in DocsChoices : TRUE
    BY ManagedFilesAssumption
  <2>2. [profile |-> p, version |-> v, docs |-> b] \in Declaration
    BY DEF Declaration
  <2>. QED
    BY <2>2 DEF AnyDeclaration
<1>2. AnyVersion \in Versions
  BY ManagedFilesAssumption DEF AnyVersion
<1>. QED
  BY <1>1, <1>2, NoRecordIsRecord DEF IdleCmd, Cmd

-----------------------------------------------------------------------------
(* Starting a command.                                                     *)

LEMMA BegunType ==
    ASSUME TypeOK,
           NEW name \in {"onboard", "migrate", "sync", "repin", "offboard"},
           NEW d \in Declaration, NEW lib \in Versions
    PROVE  /\ Begun(name, d, lib) \in Cmd
           /\ Begun(name, d, lib).name = name
           /\ Begun(name, d, lib).pc = "write"
           /\ Begun(name, d, lib).d = d
           /\ Begun(name, d, lib).lib = lib
           /\ Begun(name, d, lib).todo = Items(d, lib)
<1>1. Items(d, lib) \in SUBSET Outputs
  BY DEF Items
<1>2. sidecar.hashes \in Records
  BY DEF TypeOK
<1>3. IdleCmd \in Cmd
  BY IdleType
<1>. QED
  BY <1>1, <1>2, <1>3 DEF Begun, Cmd

LEMMA RefusedType ==
    ASSUME NEW name \in {"onboard", "migrate", "sync", "repin", "offboard"},
           NEW d \in Declaration, NEW lib \in Versions,
           NEW why \in {"seeds", "protected", "pin", "unmarked"}
    PROVE  Refused(name, d, lib, why) \in Cmd /\ Sound(Refused(name, d, lib, why))
<1>1. IdleCmd \in Cmd /\ IdleCmd.pc = "idle"
  BY IdleType DEF IdleCmd
<1>2. Refused(name, d, lib, why) \in Cmd /\ Refused(name, d, lib, why).pc = "idle"
  BY <1>1 DEF Refused, Cmd
<1>. QED
  BY <1>2 DEF Sound

(* A command that only starts leaves everything else as it is.             *)
LEMMA StartKeeps ==
    ASSUME FileInv, Idle, cmd' \in Cmd, Sound(cmd')
    PROVE  FileInv'
BY DEF FileInv, Idle, TypeOK, FilesInv, Sound

(* What is found of the seeds can be put on record.                        *)
LEMMA FoundIsRecord ==
    ASSUME TypeOK, FilesInv, NEW S \in SUBSET Outputs
    PROVE  [o \in {s \in S \cap Seeds : Present(s)} |-> file[o].body] \in Records
<1>. DEFINE T == {s \in S \cap Seeds : Present(s)}
<1>1. ASSUME NEW o \in T PROVE file[o].body \in Bodies
  <2>1. file[o] \in [body : Bodies \cup {NoBody}, mark : SUBSET Mark]
    BY DEF TypeOK
  <2>2. CASE file[o].body = NoBody
    <3>1. file[o].mark = {}
      BY <2>2 DEF FilesInv
    <3>2. file[o] = Absent
      BY <2>1, <2>2, <3>1 DEF Absent
    <3>. QED
      BY <3>2 DEF Present
  <2>. QED
    BY <2>1, <2>2
<1>2. [o \in T |-> file[o].body] \in [T -> Bodies]
  BY <1>1
<1>. QED
  BY <1>2 DEF Records

(* Every command starts from sound files with a sound record of its own.   *)
LEMMA CommandKeeps == FileInv /\ Command => FileInv'
<1>. SUFFICES ASSUME FileInv, Command PROVE FileInv'
  OBVIOUS
<1>0. TypeOK /\ FilesInv /\ tool \in Versions /\ decl \subseteq Declaration
  BY DEF FileInv, TypeOK
<1>1. ASSUME NEW d \in Declaration, OnboardFresh(d) PROVE FileInv'
  <2>. DEFINE b == Begun("onboard", d, tool)
              found == [o \in {s \in Items(d, tool) \cap Seeds : Present(s)} |-> file[o].body]
              c == [b EXCEPT !.base = TRUE, !.hashes = found]
  <2>1. b \in Cmd /\ b.name = "onboard" /\ b.pc = "write" /\ b.d = d /\ b.lib = tool
        /\ b.todo = Items(d, tool)
    BY <1>0, BegunType
  <2>2. found \in Records
    BY <1>0, FoundIsRecord DEF Items
  <2>3. cmd' = Refused("onboard", d, tool, "seeds") \/ cmd' = c
    BY <1>1 DEF OnboardFresh
  <2>4. c \in Cmd /\ Sound(c)
    <3>. HIDE DEF b, found
    <3>. QED
      BY <2>1, <2>2 DEF Cmd, Sound
  <2>5. cmd' \in Cmd /\ Sound(cmd')
    BY <1>0, <2>3, <2>4, RefusedType
  <2>. QED
    BY <1>1, <2>5, StartKeeps DEF OnboardFresh
<1>2. ASSUME NEW docs \in DocsChoices, OnboardAgain(docs) PROVE FileInv'
  <2>1. PICK old \in decl :
          LET d == [old EXCEPT !.docs = @ \/ docs]
          IN  cmd' = IF SeedsUnknown(Items(d, tool), FALSE)
                     THEN Refused("onboard", d, tool, "seeds")
                     ELSE Begun("onboard", d, tool)
    BY <1>2 DEF OnboardAgain
  <2>. DEFINE d == [old EXCEPT !.docs = @ \/ docs]
  <2>2. d \in Declaration
    <3>1. (old.docs \/ docs) \in DocsChoices
      BY <1>0, ManagedFilesAssumption DEF Declaration
    <3>. QED
      BY <1>0, <3>1 DEF Declaration
  <2>3. cmd' = Refused("onboard", d, tool, "seeds") \/ cmd' = Begun("onboard", d, tool)
    BY <2>1
  <2>. HIDE DEF d
  <2>4. cmd' \in Cmd /\ Sound(cmd')
    BY <1>0, <2>2, <2>3, BegunType, RefusedType DEF Sound
  <2>. QED
    BY <1>2, <2>4, StartKeeps DEF OnboardAgain
<1>3. ASSUME NEW p \in Profiles, NEW docs \in DocsChoices, OnboardMigrating(p, docs)
      PROVE  FileInv'
  <2>1. PICK old \in decl :
          LET d == [old EXCEPT !.profile = p, !.docs = @ \/ docs]
          IN  cmd' \in {Refused("migrate", d, tool, "protected"),
                        Refused("migrate", d, tool, "seeds"),
                        [Begun("migrate", d, tool) EXCEPT !.from = {old.profile}]}
    BY <1>3 DEF OnboardMigrating
  <2>. DEFINE d == [old EXCEPT !.profile = p, !.docs = @ \/ docs]
              b == Begun("migrate", d, tool)
  <2>2. d \in Declaration
    <3>1. (old.docs \/ docs) \in DocsChoices
      BY <1>0, ManagedFilesAssumption DEF Declaration
    <3>. QED
      BY <1>0, <3>1 DEF Declaration
  <2>3. cmd' \in {Refused("migrate", d, tool, "protected"), Refused("migrate", d, tool, "seeds"),
                  [b EXCEPT !.from = {old.profile}]}
    BY <2>1
  <2>. HIDE DEF d
  <2>4. b \in Cmd /\ b.name = "migrate" /\ b.pc = "write" /\ b.d = d /\ b.lib = tool
        /\ b.todo = Items(d, tool)
    BY <1>0, <2>2, BegunType
  <2>. HIDE DEF b
  <2>5. {old.profile} \in SUBSET Profiles
    BY <1>0 DEF Declaration
  <2>6. [b EXCEPT !.from = {old.profile}] \in Cmd /\ Sound([b EXCEPT !.from = {old.profile}])
    BY <2>4, <2>5 DEF Cmd, Sound
  <2>7. cmd' \in Cmd /\ Sound(cmd')
    BY <1>0, <2>2, <2>3, <2>6, RefusedType
  <2>. QED
    BY <1>3, <2>7, StartKeeps DEF OnboardMigrating
<1>4. ASSUME NEW force \in BOOLEAN, NEW base \in BOOLEAN, NEW override \in BOOLEAN,
             Sync(force, base, override)
      PROVE  FileInv'
  <2>. DEFINE found(d) == [o \in {s \in Items(d, tool) \cap Seeds : Present(s)} |-> file[o].body]
              started(d) == [Begun("sync", d, tool) EXCEPT
                               !.force = force, !.base = base,
                               !.hashes = IF base THEN found(d) ELSE @]
  <2>1. PICK d \in decl : cmd' \in {Refused("sync", d, tool, "pin"),
                                    Refused("sync", d, tool, "seeds"), started(d)}
    BY <1>4 DEF Sync
  <2>. DEFINE b == Begun("sync", d, tool)
              h == IF base THEN found(d) ELSE b.hashes
  <2>2. b \in Cmd /\ b.name = "sync" /\ b.pc = "write" /\ b.d = d /\ b.lib = tool
        /\ b.todo = Items(d, tool)
    BY <1>0, BegunType
  <2>3. h \in Records
    BY <1>0, <2>2, FoundIsRecord DEF Items, Cmd
  <2>4. started(d) = [b EXCEPT !.force = force, !.base = base, !.hashes = h]
    OBVIOUS
  <2>. HIDE DEF b, h
  <2>5. started(d) \in Cmd /\ Sound(started(d))
    <3>1. [b EXCEPT !.force = force, !.base = base, !.hashes = h] \in Cmd
      BY <2>2, <2>3 DEF Cmd
    <3>2. Sound([b EXCEPT !.force = force, !.base = base, !.hashes = h])
      BY <2>2 DEF Cmd, Sound
    <3>. QED
      BY <2>4, <3>1, <3>2
  <2>6. cmd' \in Cmd /\ Sound(cmd')
    BY <1>0, <2>1, <2>5, RefusedType
  <2>. QED
    BY <1>4, <2>6, StartKeeps DEF Sync
<1>5. ASSUME NEW v \in Versions, Repin(v) PROVE FileInv'
  <2>1. PICK old \in decl :
          LET d == [old EXCEPT !.version = v]
          IN  cmd' \in {Refused("repin", d, v, "seeds"),
                        [Begun("repin", d, v) EXCEPT !.pc = "pin"]}
    BY <1>5 DEF Repin
  <2>. DEFINE d == [old EXCEPT !.version = v]
              b == Begun("repin", d, v)
  <2>2. d \in Declaration
    BY <1>0 DEF Declaration
  <2>3. cmd' \in {Refused("repin", d, v, "seeds"), [b EXCEPT !.pc = "pin"]}
    BY <2>1
  <2>. HIDE DEF d
  <2>4. b \in Cmd /\ b.name = "repin" /\ b.d = d /\ b.lib = v /\ b.todo = Items(d, v)
    BY <1>0, <2>2, BegunType
  <2>. HIDE DEF b
  <2>5. [b EXCEPT !.pc = "pin"] \in Cmd /\ Sound([b EXCEPT !.pc = "pin"])
    BY <2>4 DEF Cmd, Sound
  <2>6. cmd' \in Cmd /\ Sound(cmd')
    BY <1>0, <2>2, <2>3, <2>5, RefusedType
  <2>. QED
    BY <1>5, <2>6, StartKeeps DEF Repin
<1>6. ASSUME NEW keep \in BOOLEAN, Offboard(keep) PROVE FileInv'
  <2>. DEFINE marked(d) == {o \in Items(d, tool) \cap Managed : file[o].mark # {}}
  <2>1. PICK d \in decl :
          cmd' \in {Refused("offboard", d, tool, "unmarked"),
                    [Begun("offboard", d, tool) EXCEPT
                       !.pc = "remove", !.hashes = NoRecord,
                       !.todo = marked(d), !.strip = Strips(keep, marked(d))]}
    BY <1>6 DEF Offboard
  <2>. DEFINE b == Begun("offboard", d, tool)
              M == marked(d)
              S == Strips(keep, M)
              c == [b EXCEPT !.pc = "remove", !.hashes = NoRecord, !.todo = M, !.strip = S]
  <2>2. b \in Cmd /\ b.name = "offboard"
    BY <1>0, BegunType
  <2>3. M \subseteq Outputs /\ S \subseteq M /\ \A o \in M : o \in Managed /\ file[o].mark # {}
    BY DEF Strips, Managed, Outputs
  <2>4. c \in Cmd /\ Sound(c)
    <3>. HIDE DEF b, M, S
    <3>1. c \in Cmd
      BY <2>2, <2>3, NoRecordIsRecord DEF Cmd
    <3>2. c.pc = "remove" /\ c.name = "offboard" /\ c.todo = M /\ c.strip = S
      BY <2>2 DEF Cmd
    <3>. QED
      BY <2>3, <3>1, <3>2 DEF Sound
  <2>5. cmd' \in Cmd /\ Sound(cmd')
    BY <1>0, <2>1, <2>4, RefusedType
  <2>. QED
    BY <1>6, <2>5, StartKeeps DEF Offboard
<1>. QED
  BY <1>1, <1>2, <1>3, <1>4, <1>5, <1>6 DEF Command

-----------------------------------------------------------------------------
(* The steps of a command.                                                 *)

FileType == [body : Bodies \cup {NoBody}, mark : SUBSET Mark]

GoodFile(f) ==
    /\ f \in FileType
    /\ \A m, n \in f.mark : m = n
    /\ f.body = NoBody => f.mark = {}
    /\ \A m \in f.mark : m.hash # MineBody

(* The part of the invariant that is about files, file by file.            *)
LEMMA FilesAreGood ==
    TypeOK /\ FilesInv <=>
       /\ file \in [Outputs -> FileType]
       /\ \A o \in Outputs : GoodFile(file[o])
       /\ decl \in SUBSET Declaration
       /\ sidecar \in [status : {"ok", "missing", "corrupt"}, hashes : Records]
       /\ sidecar.status # "ok" => sidecar.hashes = NoRecord
       /\ tool \in Versions
       /\ cmd \in Cmd
       /\ moves \in 0..MaxMoves
BY DEF TypeOK, FilesInv, GoodFile, FileType

LEMMA RenderedIsGood ==
    ASSUME NEW d \in Declaration, NEW lib \in Versions, NEW o \in Items(d, lib)
    PROVE  GoodFile(RenderManaged(o, d, lib))
BY RenderedIsOurs DEF GoodFile, FileType

LEMMA PlainIsGood == \A b \in Bodies : GoodFile(Plain(b))
BY PlainIsUnmarked DEF GoodFile, FileType

LEMMA AbsentIsGood == GoodFile(Absent)
BY AbsentIsUnmarked DEF GoodFile, FileType

(* One file is replaced by a good one and the rest keeps its types.        *)
LEMMA OneFileKeeps ==
    ASSUME FileInv, NEW o \in Outputs, NEW f, GoodFile(f),
           file' = [file EXCEPT ![o] = f],
           UNCHANGED <<decl, sidecar, tool>>,
           moves' \in 0..MaxMoves, cmd' \in Cmd, Sound(cmd)'
    PROVE  FileInv'
<1>1. file \in [Outputs -> FileType] /\ \A p \in Outputs : GoodFile(file[p])
  BY FilesAreGood DEF FileInv
<1>2. file' \in [Outputs -> FileType] /\ \A p \in Outputs : GoodFile(file'[p])
  BY <1>1 DEF GoodFile
<1>3. (TypeOK /\ FilesInv)'
  BY <1>2 DEF FileInv, TypeOK, FilesInv, GoodFile, FileType
<1>. QED
  BY <1>3 DEF FileInv

(* Taking an output off the list leaves a command as sound as it was.      *)
LEMMA StepKeeps == FileInv /\ CommandStep => FileInv'
<1>. SUFFICES ASSUME FileInv, CommandStep PROVE FileInv'
  OBVIOUS
<1>0. /\ TypeOK /\ FilesInv /\ Sound(cmd) /\ cmd \in Cmd
      /\ cmd.d \in Declaration /\ cmd.lib \in Versions /\ moves \in 0..MaxMoves
  BY DEF FileInv, TypeOK, Cmd
<1>1. ASSUME NEW o \in Outputs, WriteManaged(o) PROVE FileInv'
  <2>1. o \in Items(cmd.d, cmd.lib) /\ cmd.pc = "write"
    BY <1>0, <1>1 DEF WriteManaged, Step, Foremost, Sound
  <2>2. cmd' \in Cmd /\ Sound(cmd)'
    BY <1>0, <1>1, <2>1 DEF WriteManaged, Cmd, Sound
  <2>. QED
    BY <1>0, <1>1, <2>1, <2>2, RenderedIsGood, OneFileKeeps DEF WriteManaged
<1>2. ASSUME NEW o \in Outputs, LeaveManaged(o) PROVE FileInv'
  <2>1. cmd' \in Cmd /\ Sound(cmd)'
    BY <1>0, <1>2 DEF LeaveManaged, Step, Cmd, Sound
  <2>. QED
    BY <1>0, <1>2, <2>1 DEF LeaveManaged, FileInv, TypeOK, FilesInv
<1>3. ASSUME NEW o \in Outputs, WriteSeed(o) PROVE FileInv'
  <2>. DEFINE body == Body(o, cmd.d, cmd.lib)
              h == [s \in DOMAIN cmd.hashes \cup {o} |-> IF s = o THEN body ELSE cmd.hashes[s]]
  <2>1. o \in Items(cmd.d, cmd.lib) /\ cmd.pc = "write" /\ o \in Seeds
    BY <1>0, <1>3 DEF WriteSeed, Step, Foremost, Sound
  <2>2. body \in Bodies
    BY <1>0, <2>1, BodyIsOurs
  <2>3. h \in Records
    <3>1. PICK S \in SUBSET Seeds : cmd.hashes \in [S -> Bodies]
      BY <1>0 DEF Cmd, Records
    <3>2. h \in [S \cup {o} -> Bodies]
      BY <2>2, <3>1
    <3>. QED
      BY <2>1, <3>2 DEF Records
  <2>4. CASE Present(o)
    <3>1. cmd' = [cmd EXCEPT !.todo = @ \ {o}] /\ UNCHANGED <<file, decl, sidecar, tool, moves>>
      BY <1>3, <2>4 DEF WriteSeed
    <3>2. cmd' \in Cmd /\ Sound(cmd)'
      BY <1>0, <2>1, <3>1 DEF Cmd, Sound
    <3>. QED
      BY <1>0, <3>1, <3>2 DEF FileInv, TypeOK, FilesInv
  <2>5. CASE ~Present(o)
    <3>1. cmd' = [cmd EXCEPT !.todo = @ \ {o}, !.seeded = TRUE, !.hashes = h]
      BY <1>3, <2>5 DEF WriteSeed
    <3>2. cmd' \in Cmd /\ Sound(cmd)'
      <4>. HIDE DEF h
      <4>. QED
        BY <1>0, <2>1, <2>3, <3>1 DEF Cmd, Sound
    <3>3. file' = [file EXCEPT ![o] = Plain(body)] /\ UNCHANGED <<decl, sidecar, tool, moves>>
      BY <1>3, <2>5 DEF WriteSeed
    <3>. QED
      BY <1>0, <2>2, <3>2, <3>3, PlainIsGood, OneFileKeeps
  <2>. QED
    BY <2>4, <2>5
<1>4. ASSUME WriteSidecar PROVE FileInv'
  <2>1. sidecar' \in [status : {"ok", "missing", "corrupt"}, hashes : Records]
        /\ (sidecar'.status # "ok" => sidecar'.hashes = NoRecord)
    BY <1>0, <1>4 DEF WriteSidecar, TypeOK, Cmd
  <2>2. cmd' \in Cmd /\ Sound(cmd)'
    BY <1>0, <1>4, NoRecordIsRecord, ZenonT(60) DEF WriteSidecar, Done, Cmd, Sound
  <2>. QED
    BY <1>0, <1>4, <2>1, <2>2 DEF WriteSidecar, FileInv, TypeOK, FilesInv
<1>5. ASSUME WriteDeclaration PROVE FileInv'
  <2>1. cmd' \in Cmd /\ Sound(cmd)'
    BY <1>0, <1>5, NoRecordIsRecord DEF WriteDeclaration, Done, Cmd, Sound
  <2>. QED
    BY <1>0, <1>5, <2>1 DEF WriteDeclaration, FileInv, TypeOK, FilesInv
<1>6. ASSUME NEW o \in Outputs, StripOrDelete(o) PROVE FileInv'
  <2>1. cmd.pc = "remove" /\ cmd.name = "offboard" /\ o \in cmd.todo /\ file[o].mark # {}
    BY <1>0, <1>6 DEF StripOrDelete, Foremost, Sound
  <2>2. file[o].body \in Bodies /\ file \in [Outputs -> FileType]
    BY <1>0, <2>1 DEF TypeOK, FilesInv, FileType
  <2>. DEFINE f == IF o \in cmd.strip THEN Plain(file[o].body) ELSE Absent
  <2>3. GoodFile(f)
    BY <2>2, PlainIsGood, AbsentIsGood
  <2>4. file' = [file EXCEPT ![o] = f]
    BY <1>6, <2>2 DEF StripOrDelete
  <2>. HIDE DEF f
  <2>5. cmd' = [cmd EXCEPT !.todo = @ \ {o}, !.strip = @ \ {o}]
        /\ UNCHANGED <<decl, sidecar, tool, moves>>
    BY <1>6 DEF StripOrDelete
  <2>6. cmd' \in Cmd /\ cmd'.pc = "remove" /\ cmd'.name = "offboard"
        /\ cmd'.todo = cmd.todo \ {o} /\ cmd'.strip = cmd.strip \ {o}
    BY <1>0, <2>1, <2>5 DEF Cmd
  <2>7. \A p \in cmd.todo \ {o} : file'[p] = file[p]
    BY <2>2, <2>4, <1>0 DEF Cmd
  <2>8. Sound(cmd)'
    BY <1>0, <2>1, <2>6, <2>7 DEF Sound
  <2>. QED
    BY <1>0, <2>3, <2>4, <2>5, <2>6, <2>8, OneFileKeeps
<1>7. ASSUME DeleteDeclaration PROVE FileInv'
  <2>1. cmd' \in Cmd /\ Sound(cmd)'
    BY <1>0, <1>7 DEF DeleteDeclaration, Cmd, Sound
  <2>. QED
    BY <1>0, <1>7, <2>1 DEF DeleteDeclaration, FileInv, TypeOK, FilesInv
<1>8. ASSUME DeleteSidecar PROVE FileInv'
  <2>1. cmd' \in Cmd /\ Sound(cmd)'
    BY <1>0, <1>8, NoRecordIsRecord DEF DeleteSidecar, Done, Cmd, Sound
  <2>. QED
    BY <1>0, <1>8, <2>1, NoRecordIsRecord
       DEF DeleteSidecar, NoSidecar, FileInv, TypeOK, FilesInv
<1>. QED
  BY <1>1, <1>2, <1>3, <1>4, <1>5, <1>6, <1>7, <1>8 DEF CommandStep

LEMMA CrashKeeps == FileInv /\ Crash => FileInv'
<1>. SUFFICES ASSUME FileInv, Crash PROVE FileInv'
  OBVIOUS
<1>1. cmd' \in Cmd /\ cmd'.pc = "idle"
  BY IdleType, ZenonT(60) DEF Crash, FileInv, TypeOK, IdleCmd, Cmd
<1>2. Sound(cmd)'
  BY <1>1 DEF Sound
<1>. QED
  BY <1>1, <1>2 DEF Crash, FileInv, TypeOK, FilesInv

-----------------------------------------------------------------------------
(* Between the commands.                                                   *)

(* Many files are replaced by good ones and the rest keeps its types.      *)
LEMMA BetweenKeeps ==
    ASSUME FileInv, NEW event, Between(event),
           file' \in [Outputs -> FileType], \A o \in Outputs : GoodFile(file'[o]),
           decl' \in SUBSET Declaration, tool' \in Versions,
           sidecar' \in {sidecar, NoSidecar, CorruptSidecar}
    PROVE  FileInv'
<1>1. cmd' \in Cmd /\ Sound(cmd)'
  BY IdleType DEF Between, Sound, IdleCmd
<1>2. moves' \in 0..MaxMoves
  BY ManagedFilesAssumption DEF Between, FileInv, TypeOK
<1>3. sidecar' \in [status : {"ok", "missing", "corrupt"}, hashes : Records]
      /\ (sidecar'.status # "ok" => sidecar'.hashes = NoRecord)
  BY NoRecordIsRecord DEF FileInv, TypeOK, NoSidecar, CorruptSidecar
<1>. QED
  BY <1>1, <1>2, <1>3 DEF FileInv, TypeOK, FilesInv, GoodFile, FileType

LEMMA OperatorKeeps == FileInv /\ Operator => FileInv'
<1>. SUFFICES ASSUME FileInv, Operator PROVE FileInv'
  OBVIOUS
<1>0. /\ file \in [Outputs -> FileType] /\ \A o \in Outputs : GoodFile(file[o])
      /\ decl \subseteq Declaration /\ tool \in Versions
  BY FilesAreGood DEF FileInv
<1>1. ASSUME NEW o \in Outputs, EditFile(o) PROVE FileInv'
  <2>1. ASSUME NEW f, GoodFile(f), NEW event, Between(event),
               file' = [file EXCEPT ![o] = f], UNCHANGED <<decl, sidecar, tool>>
        PROVE  FileInv'
    BY <1>0, <2>1, BetweenKeeps DEF GoodFile
  <2>2. CASE Between("edit") /\ Present(o) /\ file' = [file EXCEPT ![o].body = MineBody]
    <3>1. GoodFile([file[o] EXCEPT !.body = MineBody])
      BY <1>0, MineIsBody DEF GoodFile, FileType
    <3>2. file' = [file EXCEPT ![o] = [file[o] EXCEPT !.body = MineBody]]
      BY <2>2
    <3>. QED
      BY <1>1, <2>1, <2>2, <3>1, <3>2 DEF EditFile
  <2>3. CASE Between("own") /\ file' = [file EXCEPT ![o] = Plain(MineBody)]
    BY <1>1, <2>1, <2>3, PlainIsGood, MineIsBody DEF EditFile
  <2>4. CASE /\ Between("tamper")
             /\ file[o].mark # {}
             /\ file' = [file EXCEPT ![o].mark = {[MarkOf(o) EXCEPT !.version = 0]}]
    <3>1. MarkOf(o) \in file[o].mark
      BY <2>4 DEF MarkOf
    <3>2. MarkOf(o) \in Mark /\ MarkOf(o).hash # MineBody
      BY <1>0, <3>1 DEF GoodFile, FileType
    <3>. DEFINE n == [MarkOf(o) EXCEPT !.version = 0]
                f == [file[o] EXCEPT !.mark = {n}]
    <3>3. n \in Mark /\ n.hash # MineBody
      BY <3>2 DEF Mark
    <3>. HIDE DEF n
    <3>4. GoodFile(f)
      BY <1>0, <2>4, <3>3 DEF GoodFile, FileType
    <3>5. file' = [file EXCEPT ![o] = f]
      BY <2>4 DEF n
    <3>. QED
      BY <1>1, <2>1, <2>4, <3>4, <3>5 DEF EditFile
  <2>5. CASE Between("delete") /\ Present(o) /\ file' = [file EXCEPT ![o] = Absent]
    BY <1>1, <2>1, <2>5, AbsentIsGood DEF EditFile
  <2>. QED
    BY <1>1, <2>2, <2>3, <2>4, <2>5 DEF EditFile
<1>2. ASSUME EditDeclaration PROVE FileInv'
  <2>1. PICK event \in {"docs", "lose"} : Between(event)
    BY <1>2 DEF EditDeclaration
  <2>2. decl' \in SUBSET Declaration
    BY <1>0, <1>2 DEF EditDeclaration, Declaration
  <2>. QED
    BY <1>0, <1>2, <2>1, <2>2, BetweenKeeps DEF EditDeclaration
<1>3. ASSUME EditSidecar PROVE FileInv'
  BY <1>0, <1>3, BetweenKeeps DEF EditSidecar
<1>4. ASSUME NEW v \in Versions, Install(v) PROVE FileInv'
  BY <1>0, <1>4, BetweenKeeps DEF Install
<1>5. ASSUME MergeFix PROVE FileInv'
  <2>1. PICK d \in decl :
          file' = [o \in Outputs |->
             IF o \in Items(d, tool) \cap Managed
                /\ Status(o, d, tool) \in {"missing", "mergeable-drift"}
             THEN RenderManaged(o, d, tool) ELSE file[o]]
    BY <1>5 DEF MergeFix
  <2>2. \A o \in Outputs : GoodFile(file'[o])
    BY <1>0, <2>1, RenderedIsGood
  <2>3. file' \in [Outputs -> FileType]
    BY <2>1, <2>2 DEF GoodFile
  <2>. QED
    BY <1>0, <1>5, <2>2, <2>3, BetweenKeeps DEF MergeFix
<1>6. ASSUME NEW d \in Declaration, MergeOnboarding(d) PROVE FileInv'
  <2>1. file' = [o \in Outputs |->
           IF o \in Items(d, tool) \cap Managed THEN RenderManaged(o, d, tool)
           ELSE IF o \in Items(d, tool) /\ ~Present(o) THEN Plain(Body(o, d, tool))
           ELSE file[o]]
    BY <1>6 DEF MergeOnboarding
  <2>2. \A o \in Outputs : GoodFile(file'[o])
    BY <1>0, <2>1, RenderedIsGood, BodyIsOurs, PlainIsGood
  <2>3. file' \in [Outputs -> FileType]
    BY <2>1, <2>2 DEF GoodFile
  <2>. QED
    BY <1>0, <1>6, <2>2, <2>3, BetweenKeeps DEF MergeOnboarding
<1>. QED
  BY <1>1, <1>2, <1>3, <1>4, <1>5, <1>6 DEF Operator

-----------------------------------------------------------------------------
(* The invariant, and what follows from it.                                *)

LEMMA InitIsSound == Init => FileInv
<1>. SUFFICES ASSUME Init PROVE FileInv
  OBVIOUS
<1>1. \A o \in Outputs : GoodFile(file[o])
  BY PlainIsGood, AbsentIsGood, MineIsBody DEF Init
<1>2. file \in [Outputs -> FileType]
  BY <1>1, PlainIsGood, AbsentIsGood, MineIsBody DEF Init, GoodFile
<1>3. moves \in 0..MaxMoves
  BY ManagedFilesAssumption DEF Init
<1>4. TypeOK /\ FilesInv
  BY <1>1, <1>2, <1>3, IdleType, NoRecordIsRecord, FilesAreGood DEF Init, NoSidecar
<1>5. Sound(cmd)
  BY DEF Init, IdleCmd, Sound
<1>. QED
  BY <1>4, <1>5 DEF FileInv

LEMMA NextKeeps == FileInv /\ [Next]_vars => FileInv'
<1>. SUFFICES ASSUME FileInv, [Next]_vars PROVE FileInv'
  OBVIOUS
<1>1. CASE UNCHANGED vars
  BY <1>1 DEF vars, FileInv, TypeOK, FilesInv, Sound
<1>. QED
  BY <1>1, CommandKeeps, StepKeeps, CrashKeeps, OperatorKeeps DEF Next

(* Whatever the commands and the operator do, files, records and commands  *)
(* have their types; a sidecar that is not sound yields no hashes.         *)
THEOREM FileTypesCorrect == Spec => []TypeOK
<1>1. FileInv => TypeOK
  BY DEF FileInv
<1>. QED
  BY <1>1, InitIsSound, NextKeeps, PTL DEF Spec

(* A step of a command that changes a file of the operator's is one of the *)
(* exceptions asked for.                                                   *)
Spares(o) ==
    cmd.pc # "idle" /\ OperatorsOwn(o) /\ file'[o] # file[o] =>
       /\ o \in Managed
       /\ IF cmd.name = "offboard"
          THEN file[o].mark # {} /\ file'[o] \in {Absent, Plain(file[o].body)}
          ELSE cmd.force

LEMMA StepSpares ==
    ASSUME FileInv, Next, NEW o \in Outputs
    PROVE  Spares(o)
<1>. SUFFICES ASSUME cmd.pc # "idle", OperatorsOwn(o), file'[o] # file[o]
              PROVE  /\ o \in Managed
                     /\ IF cmd.name = "offboard"
                        THEN file[o].mark # {} /\ file'[o] \in {Absent, Plain(file[o].body)}
                        ELSE cmd.force
  BY DEF Spares
<1>0. /\ Sound(cmd) /\ cmd.d \in Declaration /\ cmd.lib \in Versions
      /\ file \in [Outputs -> FileType]
      /\ \A m \in file[o].mark : m.hash # MineBody
      /\ Present(o)
  BY FilesAreGood DEF FileInv, Cmd, FilesInv, OperatorsOwn
<1>1. CASE Command
  BY <1>1 DEF Command, OnboardFresh, OnboardAgain, OnboardMigrating, Sync, Repin, Offboard, Idle
<1>2. CASE CommandStep
  <2>1. ASSUME NEW p \in Outputs, WriteManaged(p) PROVE o \in Managed /\ cmd.name # "offboard" /\ cmd.force
    <3>1. p = o /\ o \in Managed
      BY <1>0, <2>1 DEF WriteManaged
    <3>2. cmd.pc = "write" /\ o \in Items(cmd.d, cmd.lib)
      BY <1>0, <2>1, <3>1 DEF WriteManaged, Step, Foremost, Sound
    <3>3. cmd.name # "offboard"
      BY <1>0, <3>2 DEF Sound
    <3>4. file[o].mark = {} \/ file[o].body = MineBody
      BY <3>1, ManagedFilesAssumption DEF OperatorsOwn
    <3>5. ~Replaceable(o)
      BY <1>0, <3>2, <3>4, BodyIsOurs DEF Replaceable
    <3>. QED
      BY <1>0, <2>1, <3>1, <3>3, <3>5 DEF WriteManaged
  <2>2. ASSUME NEW p \in Outputs, WriteSeed(p) PROVE FALSE
    BY <1>0, <2>2 DEF WriteSeed
  <2>3. ASSUME NEW p \in Outputs, StripOrDelete(p)
        PROVE  /\ o \in Managed /\ cmd.name = "offboard"
               /\ file[o].mark # {} /\ file'[o] \in {Absent, Plain(file[o].body)}
    <3>1. p = o
      BY <1>0, <2>3 DEF StripOrDelete
    <3>2. cmd.name = "offboard" /\ o \in Managed /\ file[o].mark # {}
      BY <1>0, <2>3, <3>1 DEF StripOrDelete, Foremost, Sound
    <3>. QED
      BY <1>0, <2>3, <3>1, <3>2 DEF StripOrDelete
  <2>4. ASSUME \/ \E p \in Outputs : LeaveManaged(p)
               \/ WriteSidecar \/ WriteDeclaration \/ DeleteDeclaration \/ DeleteSidecar
        PROVE  FALSE
    BY <2>4 DEF LeaveManaged, WriteSidecar, WriteDeclaration, DeleteDeclaration, DeleteSidecar
  <2>. QED
    BY <1>2, <2>1, <2>2, <2>3, <2>4 DEF CommandStep
<1>3. CASE Crash
  BY <1>3 DEF Crash
<1>4. CASE Operator
  BY <1>4 DEF Operator, EditFile, EditDeclaration, EditSidecar, Install, MergeFix,
              MergeOnboarding, Between
<1>. QED
  BY <1>1, <1>2, <1>3, <1>4 DEF Next

(* No command changes a file that is the operator's, unless --force or     *)
(* offboard asks for it, whatever the templates, profiles and versions and *)
(* whatever happened to the tree before.                                   *)
THEOREM OperatorWorkIsSafe == Spec => OperatorWorkSurvives
<1>1. FileInv /\ [Next]_vars => [\A o \in Outputs : Spares(o)]_vars
  BY StepSpares
<1>. QED
  BY <1>1, InitIsSound, NextKeeps, PTL DEF Spec, OperatorWorkSurvives, Spares

-----------------------------------------------------------------------------
(* What a command leaves behind, when it ends and when it is cut.          *)

(* What scaffold has made of one output of the resolved set.               *)
Settled(c, o) ==
    IF o \in Seeds THEN Present(o)
    ELSE IF o \in c.skipped THEN Status(o, c.d, c.lib) = "dirty-drift"
    ELSE file[o] = RenderManaged(o, c.d, c.lib)

(* The record of the seeds, if they need one, is sound and complete.       *)
Known(items, record) ==
    items \cap Seeds # {} =>
       /\ record.status = "ok"
       /\ \A o \in items \cap Seeds : o \in DOMAIN record.hashes

Works(c) == c.pc \in {"pin", "write"}
Succeeded(c) == c.outcome = "done" /\ c.name \in Scaffolding

(* Outputs no longer to do are settled, and the record that will be        *)
(* written has every seed that exists.                                     *)
Working(c) ==
    /\ c.outcome # "none" => c.pc = "idle"
    /\ Works(c) =>
          /\ c.name \in Scaffolding
          /\ c.skipped \cap c.todo = {}
          /\ \A o \in Items(c.d, c.lib) \ c.todo : Settled(c, o)
          /\ \A o \in Items(c.d, c.lib) \cap Seeds : Present(o) => o \in DOMAIN c.hashes
          /\ c.base \/ c.seeded \/ c.hashes = sidecar.hashes
    /\ c.pc = "pin" => c.name = "repin"
    /\ c.pc = "declare" => c.name \in {"onboard", "migrate"}
    /\ c.pc = "write" /\ c.name \in {"sync", "repin"} => decl = {c.d}
    /\ c.pc = "declare" \/ Succeeded(c) =>
          \A o \in Items(c.d, c.lib) :
             Settled(c, o) /\ (o \in Seeds => o \in DOMAIN sidecar.hashes)
    /\ Succeeded(c) => decl = {c.d}

(* At any moment, what is on disk would let the command start again.       *)
Resuming(c) ==
    /\ /\ c.name \in {"onboard", "sync", "repin"} /\ ~c.base
       /\ Works(c) \/ c.pc = "declare" \/ c.outcome = "cut"
       => Known(Items(c.d, c.lib), sidecar)
    /\ Works(c) /\ ~c.base => DOMAIN sidecar.hashes \subseteq DOMAIN c.hashes
    /\ c.pc = "remove" =>
          /\ decl # {}
          /\ c.strip \subseteq Passive
          /\ ~OffboardBlocked(Items(c.d, tool))
          /\ \A o \in Items(c.d, tool) \cap Managed : file[o].mark # {} => o \in c.todo
    /\ c.pc = "unrecord" =>
          /\ decl = {}
          /\ \A o \in Items(c.d, tool) \cap Managed : file[o].mark = {}
    /\ c.outcome = "cut" /\ c.name = "offboard" =>
          IF decl = {}
          THEN \A o \in Items(c.d, tool) \cap Managed : file[o].mark = {}
          ELSE ~OffboardBlocked(Items(c.d, tool))

OneDeclaration == \A a, b \in decl : a = b

SettledInv == FileInv /\ OneDeclaration /\ Working(cmd) /\ Resuming(cmd)

-----------------------------------------------------------------------------
(* Starting.                                                               *)

(* The fields of a command that has begun.                                 *)
LEMMA BegunFields ==
    ASSUME NEW name, NEW d, NEW lib
    PROVE  /\ Begun(name, d, lib).outcome = "none"
           /\ Begun(name, d, lib).skipped = {}
           /\ ~Begun(name, d, lib).base
           /\ Begun(name, d, lib).hashes = sidecar.hashes
BY DEF Begun, IdleCmd

(* Seeds whose integrity is known are on record, where they exist.         *)
LEMMA SeedsKnown ==
    ASSUME NEW items
    PROVE  /\ ~SeedsUnknown(items, FALSE) <=> Known(items, sidecar)
           /\ ~SeedsUnknown(items, TRUE) =>
                 \A o \in items \cap Seeds : Present(o) => o \in DOMAIN sidecar.hashes
BY DEF SeedsUnknown, Known

(* A scaffolding command starts with everything still to do.               *)
LEMMA StartWorks ==
    ASSUME Idle, NEW c, cmd' = c, Works(c), c.outcome = "none",
           c.name \in Scaffolding, c.skipped = {}, c.todo = Items(c.d, c.lib),
           c.pc = "pin" => c.name = "repin",
           c.pc = "write" /\ c.name \in {"sync", "repin"} => decl = {c.d},
           \A o \in Items(c.d, c.lib) \cap Seeds : Present(o) => o \in DOMAIN c.hashes,
           c.base \/ c.hashes = sidecar.hashes,
           ~c.base /\ c.name # "migrate" => Known(Items(c.d, c.lib), sidecar)
    PROVE  Working(cmd)' /\ Resuming(cmd)'
<1>1. c.pc \in {"pin", "write"} /\ UNCHANGED <<file, decl, sidecar, tool>>
  BY DEF Works, Idle
<1>2. Working(c) /\ Resuming(c)
  BY <1>1 DEF Working, Resuming, Works, Succeeded
<1>3. Working(cmd)' <=> Working(c)
  BY <1>1 DEF Working, Works, Succeeded, Settled, Present, Status
<1>4. Resuming(cmd)' <=> Resuming(c)
  BY <1>1 DEF Resuming, Works, OffboardBlocked, Present
<1>. QED
  BY <1>2, <1>3, <1>4

(* A refused command has done nothing.                                     *)
LEMMA RefusedWorks ==
    ASSUME NEW name, NEW d, NEW lib, NEW why \in {"seeds", "protected", "pin", "unmarked"},
           cmd' = Refused(name, d, lib, why)
    PROVE  Working(cmd)' /\ Resuming(cmd)'
<1>1. cmd'.pc = "idle" /\ cmd'.outcome = why
  BY DEF Refused, IdleCmd
<1>. QED
  BY <1>1 DEF Working, Resuming, Works, Succeeded

LEMMA CommandSettles == SettledInv /\ Command => SettledInv'
<1>. SUFFICES ASSUME SettledInv, Command PROVE SettledInv'
  OBVIOUS
<1>0. /\ FileInv /\ TypeOK /\ OneDeclaration
      /\ tool \in Versions /\ decl \subseteq Declaration
      /\ FileInv'
  BY CommandKeeps DEF SettledInv, FileInv, TypeOK
<1>1. Idle
  BY DEF Command, OnboardFresh, OnboardAgain, OnboardMigrating, Sync, Repin, Offboard
<1>2. OneDeclaration'
  BY <1>0, <1>1 DEF OneDeclaration, Idle
<1>. SUFFICES Working(cmd)' /\ Resuming(cmd)'
  BY <1>0, <1>2 DEF SettledInv
<1>3. ASSUME NEW d \in Declaration, OnboardFresh(d)
      PROVE  Working(cmd)' /\ Resuming(cmd)'
  <2>. DEFINE b == Begun("onboard", d, tool)
              found == [o \in {s \in Items(d, tool) \cap Seeds : Present(s)} |-> file[o].body]
              c == [b EXCEPT !.base = TRUE, !.hashes = found]
  <2>1. b \in Cmd /\ b.name = "onboard" /\ b.pc = "write" /\ b.d = d /\ b.lib = tool
        /\ b.todo = Items(d, tool) /\ b.outcome = "none" /\ b.skipped = {}
    BY <1>0, BegunType, BegunFields
  <2>2. cmd' = Refused("onboard", d, tool, "seeds") \/ cmd' = c
    BY <1>3 DEF OnboardFresh
  <2>3. DOMAIN found = {s \in Items(d, tool) \cap Seeds : Present(s)}
    OBVIOUS
  <2>4. /\ c.name = "onboard" /\ c.pc = "write" /\ c.d = d /\ c.lib = tool
        /\ c.todo = Items(d, tool) /\ c.outcome = "none" /\ c.skipped = {}
        /\ c.base /\ c.hashes = found
    <3>. HIDE DEF b, found
    <3>. QED
      BY <2>1 DEF Cmd
  <2>. HIDE DEF c, found
  <2>5. cmd' = c => Working(cmd)' /\ Resuming(cmd)'
    BY <1>1, <2>3, <2>4, StartWorks DEF Works, Scaffolding
  <2>. QED
    BY <2>2, <2>5, RefusedWorks
<1>4. ASSUME NEW docs \in DocsChoices, OnboardAgain(docs)
      PROVE  Working(cmd)' /\ Resuming(cmd)'
  <2>1. PICK old \in decl :
          LET d == [old EXCEPT !.docs = @ \/ docs]
          IN  cmd' = IF SeedsUnknown(Items(d, tool), FALSE)
                     THEN Refused("onboard", d, tool, "seeds")
                     ELSE Begun("onboard", d, tool)
    BY <1>4 DEF OnboardAgain
  <2>. DEFINE d == [old EXCEPT !.docs = @ \/ docs]
              b == Begun("onboard", d, tool)
  <2>2. d \in Declaration
    <3>1. (old.docs \/ docs) \in DocsChoices
      BY <1>0, ManagedFilesAssumption DEF Declaration
    <3>. QED
      BY <1>0, <3>1 DEF Declaration
  <2>3. \/ cmd' = Refused("onboard", d, tool, "seeds")
        \/ ~SeedsUnknown(Items(d, tool), FALSE) /\ cmd' = b
    BY <2>1
  <2>. HIDE DEF d
  <2>4. /\ b.name = "onboard" /\ b.pc = "write" /\ b.d = d /\ b.lib = tool
        /\ b.todo = Items(d, tool) /\ b.outcome = "none" /\ b.skipped = {}
        /\ ~b.base /\ b.hashes = sidecar.hashes
    BY <1>0, <2>2, BegunType, BegunFields
  <2>. HIDE DEF b
  <2>5. ~SeedsUnknown(Items(d, tool), FALSE) /\ cmd' = b => Working(cmd)' /\ Resuming(cmd)'
    BY <1>1, <2>4, SeedsKnown, StartWorks DEF Works, Scaffolding, Known
  <2>. QED
    BY <2>3, <2>5, RefusedWorks
<1>5. ASSUME NEW p \in Profiles, NEW docs \in DocsChoices, OnboardMigrating(p, docs)
      PROVE  Working(cmd)' /\ Resuming(cmd)'
  <2>1. PICK old \in decl :
          LET d == [old EXCEPT !.profile = p, !.docs = @ \/ docs]
          IN  \/ cmd' = Refused("migrate", d, tool, "protected")
              \/ cmd' = Refused("migrate", d, tool, "seeds")
              \/ /\ ~SeedsUnknown(Items(d, tool), TRUE)
                 /\ cmd' = [Begun("migrate", d, tool) EXCEPT !.from = {old.profile}]
    BY <1>5 DEF OnboardMigrating
  <2>. DEFINE d == [old EXCEPT !.profile = p, !.docs = @ \/ docs]
              b == Begun("migrate", d, tool)
              c == [b EXCEPT !.from = {old.profile}]
  <2>2. d \in Declaration
    <3>1. (old.docs \/ docs) \in DocsChoices
      BY <1>0, ManagedFilesAssumption DEF Declaration
    <3>. QED
      BY <1>0, <3>1 DEF Declaration
  <2>3. \/ cmd' = Refused("migrate", d, tool, "protected")
        \/ cmd' = Refused("migrate", d, tool, "seeds")
        \/ ~SeedsUnknown(Items(d, tool), TRUE) /\ cmd' = c
    BY <2>1
  <2>. HIDE DEF d
  <2>4. /\ b \in Cmd /\ b.name = "migrate" /\ b.pc = "write" /\ b.d = d /\ b.lib = tool
        /\ b.todo = Items(d, tool) /\ b.outcome = "none" /\ b.skipped = {}
        /\ ~b.base /\ b.hashes = sidecar.hashes
    BY <1>0, <2>2, BegunType, BegunFields
  <2>. HIDE DEF b
  <2>5. /\ c.name = "migrate" /\ c.pc = "write" /\ c.d = d /\ c.lib = tool
        /\ c.todo = Items(d, tool) /\ c.outcome = "none" /\ c.skipped = {}
        /\ ~c.base /\ c.hashes = sidecar.hashes
    BY <2>4 DEF Cmd
  <2>. HIDE DEF c
  <2>6. ~SeedsUnknown(Items(d, tool), TRUE) /\ cmd' = c => Working(cmd)' /\ Resuming(cmd)'
    BY <1>1, <2>5, SeedsKnown, StartWorks DEF Works, Scaffolding, Known
  <2>. QED
    BY <2>3, <2>6, RefusedWorks
<1>6. ASSUME NEW force \in BOOLEAN, NEW base \in BOOLEAN, NEW override \in BOOLEAN,
             Sync(force, base, override)
      PROVE  Working(cmd)' /\ Resuming(cmd)'
  <2>. DEFINE found(d) == [o \in {s \in Items(d, tool) \cap Seeds : Present(s)} |-> file[o].body]
              started(d) == [Begun("sync", d, tool) EXCEPT
                               !.force = force, !.base = base,
                               !.hashes = IF base THEN found(d) ELSE @]
  <2>1. PICK d \in decl : \/ cmd' = Refused("sync", d, tool, "pin")
                          \/ cmd' = Refused("sync", d, tool, "seeds")
                          \/ /\ base \/ ~SeedsUnknown(Items(d, tool), FALSE)
                             /\ cmd' = started(d)
    BY <1>6 DEF Sync
  <2>. DEFINE b == Begun("sync", d, tool)
              h == IF base THEN found(d) ELSE b.hashes
              c == [b EXCEPT !.force = force, !.base = base, !.hashes = h]
  <2>2. b \in Cmd /\ b.name = "sync" /\ b.pc = "write" /\ b.d = d /\ b.lib = tool
        /\ b.todo = Items(d, tool) /\ b.outcome = "none" /\ b.skipped = {}
        /\ b.hashes = sidecar.hashes
    BY <1>0, BegunType, BegunFields
  <2>3. started(d) = c
    OBVIOUS
  <2>4. /\ base => DOMAIN h = {s \in Items(d, tool) \cap Seeds : Present(s)}
        /\ ~base => h = sidecar.hashes
    BY <2>2
  <2>. HIDE DEF b, h
  <2>5. /\ c.name = "sync" /\ c.pc = "write" /\ c.d = d /\ c.lib = tool
        /\ c.todo = Items(d, tool) /\ c.outcome = "none" /\ c.skipped = {}
        /\ c.hashes = h
    BY <2>2 DEF Cmd
  <2>6. c.base = base
    BY <2>2 DEF Cmd
  <2>7. decl = {d}
    BY <1>0 DEF OneDeclaration
  <2>. HIDE DEF c
  <2>8. ASSUME base \/ ~SeedsUnknown(Items(d, tool), FALSE), cmd' = c
        PROVE  Working(cmd)' /\ Resuming(cmd)'
    <3>1. \A o \in Items(c.d, c.lib) \cap Seeds : Present(o) => o \in DOMAIN c.hashes
      BY <2>4, <2>5, <2>8, SeedsKnown DEF Known
    <3>2. c.base \/ c.hashes = sidecar.hashes
      BY <2>4, <2>5, <2>6
    <3>3. ~c.base => Known(Items(c.d, c.lib), sidecar)
      BY <2>5, <2>6, <2>8, SeedsKnown
    <3>. QED
      BY <1>1, <2>5, <2>7, <2>8, <3>1, <3>2, <3>3, StartWorks DEF Works, Scaffolding
  <2>. QED
    BY <2>1, <2>3, <2>8, RefusedWorks
<1>7. ASSUME NEW v \in Versions, Repin(v)
      PROVE  Working(cmd)' /\ Resuming(cmd)'
  <2>1. PICK old \in decl :
          LET d == [old EXCEPT !.version = v]
          IN  \/ cmd' = Refused("repin", d, v, "seeds")
              \/ /\ ~SeedsUnknown(Items(d, v), FALSE)
                 /\ cmd' = [Begun("repin", d, v) EXCEPT !.pc = "pin"]
    BY <1>7 DEF Repin
  <2>. DEFINE d == [old EXCEPT !.version = v]
              b == Begun("repin", d, v)
              c == [b EXCEPT !.pc = "pin"]
  <2>2. d \in Declaration
    BY <1>0 DEF Declaration
  <2>3. \/ cmd' = Refused("repin", d, v, "seeds")
        \/ ~SeedsUnknown(Items(d, v), FALSE) /\ cmd' = c
    BY <2>1
  <2>. HIDE DEF d
  <2>4. b \in Cmd /\ b.name = "repin" /\ b.d = d /\ b.lib = v /\ b.todo = Items(d, v)
        /\ b.outcome = "none" /\ b.skipped = {} /\ ~b.base
        /\ b.hashes = sidecar.hashes
    BY <1>0, <2>2, BegunType, BegunFields
  <2>. HIDE DEF b
  <2>5. /\ c.name = "repin" /\ c.pc = "pin" /\ c.d = d /\ c.lib = v
        /\ c.todo = Items(d, v) /\ c.outcome = "none" /\ c.skipped = {}
        /\ ~c.base /\ c.hashes = sidecar.hashes
    BY <2>4 DEF Cmd
  <2>. HIDE DEF c
  <2>6. ~SeedsUnknown(Items(d, v), FALSE) /\ cmd' = c => Working(cmd)' /\ Resuming(cmd)'
    BY <1>1, <2>5, SeedsKnown, StartWorks DEF Works, Scaffolding, Known
  <2>. QED
    BY <2>3, <2>6, RefusedWorks
<1>8. ASSUME NEW keep \in BOOLEAN, Offboard(keep)
      PROVE  Working(cmd)' /\ Resuming(cmd)'
  <2>. DEFINE marked(d) == {o \in Items(d, tool) \cap Managed : file[o].mark # {}}
  <2>1. PICK d \in decl :
          \/ cmd' = Refused("offboard", d, tool, "unmarked")
          \/ /\ ~OffboardBlocked(Items(d, tool))
             /\ cmd' = [Begun("offboard", d, tool) EXCEPT
                          !.pc = "remove", !.hashes = NoRecord,
                          !.todo = marked(d), !.strip = Strips(keep, marked(d))]
    BY <1>8 DEF Offboard
  <2>. DEFINE b == Begun("offboard", d, tool)
              M == marked(d)
              S == Strips(keep, M)
              c == [b EXCEPT !.pc = "remove", !.hashes = NoRecord, !.todo = M, !.strip = S]
  <2>2. b \in Cmd /\ b.name = "offboard" /\ b.d = d /\ b.outcome = "none"
    BY <1>0, BegunType, BegunFields
  <2>3. S \subseteq Passive
    BY DEF Strips
  <2>4. \A o \in Items(d, tool) \cap Managed : file[o].mark # {} => o \in M
    OBVIOUS
  <2>. HIDE DEF b, M, S
  <2>5. /\ c.pc = "remove" /\ c.name = "offboard" /\ c.todo = M /\ c.strip = S
        /\ c.d = d /\ c.outcome = "none"
    BY <2>2 DEF Cmd
  <2>. HIDE DEF c
  <2>6. ASSUME ~OffboardBlocked(Items(d, tool)), cmd' = c
        PROVE  Working(cmd)' /\ Resuming(cmd)'
    <3>1. Working(cmd)'
      BY <2>5, <2>6 DEF Working, Works, Succeeded
    <3>2. UNCHANGED <<file, decl, tool>>
      BY <1>1 DEF Idle
    <3>3. ~OffboardBlocked(Items(d, tool))'
      BY <2>6, <3>2 DEF OffboardBlocked, Present
    <3>4. Resuming(cmd)'
      BY <2>3, <2>4, <2>5, <2>6, <3>2, <3>3 DEF Resuming, Works
    <3>. QED
      BY <3>1, <3>4
  <2>. QED
    BY <2>1, <2>6, RefusedWorks DEF c, b, M, S
<1>. QED
  BY <1>3, <1>4, <1>5, <1>6, <1>7, <1>8 DEF Command

-----------------------------------------------------------------------------
(* Working through the outputs.                                            *)

(* A settled output stays settled while its file does.                     *)
LEMMA SettledStays ==
    ASSUME NEW o, Settled(cmd, o), file'[o] = file[o],
           cmd'.d = cmd.d, cmd'.lib = cmd.lib,
           o \in cmd'.skipped <=> o \in cmd.skipped
    PROVE  Settled(cmd, o)'
BY DEF Settled, Present, Status

(* A written file is settled; so is one that scaffold and diagnosis both   *)
(* refuse.                                                                 *)
LEMMA WrittenIsClean ==
    ASSUME NEW d \in Declaration, NEW lib \in Versions, NEW o \in Items(d, lib),
           file[o] = RenderManaged(o, d, lib)
    PROVE  Status(o, d, lib) = "clean" /\ MarkOf(o).version = d.version
<1>. DEFINE m == [profile |-> d.profile, version |-> d.version,
                  hash |-> Body(o, d, lib), docs |-> d.docs]
<1>1. file[o].body = Body(o, d, lib) /\ file[o].mark = {m}
  BY DEF RenderManaged
<1>2. Present(o)
  BY <1>1, BodyIsOurs DEF Present, Absent
<1>3. m.profile = d.profile /\ m.version = d.version /\ m.docs = d.docs
      /\ m.hash = Body(o, d, lib) /\ d.version \in Versions
  BY DEF Declaration
<1>. HIDE DEF m
<1>4. MarkOf(o) = m
  BY <1>1 DEF MarkOf
<1>. QED
  BY <1>1, <1>2, <1>3, <1>4 DEF Status

LEMMA RefusedIsDirty ==
    ASSUME NEW o, Present(o), ~Replaceable(o)
    PROVE  Status(o, cmd.d, cmd.lib) = "dirty-drift"
BY DEF Status, Replaceable

(* One more output is settled.                                             *)
LEMMA OneMoreSettled ==
    ASSUME FileInv, Working(cmd), Resuming(cmd), cmd.pc = "write",
           NEW o \in cmd.todo,
           cmd'.pc = "write", cmd'.outcome = cmd.outcome, cmd'.name = cmd.name,
           cmd'.d = cmd.d, cmd'.lib = cmd.lib, cmd'.base <=> cmd.base,
           cmd'.todo = cmd.todo \ {o},
           cmd.skipped \subseteq cmd'.skipped, cmd'.skipped \subseteq cmd.skipped \cup {o},
           UNCHANGED <<decl, sidecar, tool>>,
           \A p \in Outputs : p # o => file'[p] = file[p],
           Settled(cmd, o)',
           DOMAIN cmd.hashes \subseteq DOMAIN cmd'.hashes,
           o \in Seeds => o \in DOMAIN cmd'.hashes,
           cmd'.base \/ cmd'.seeded \/ cmd'.hashes = sidecar.hashes
    PROVE  Working(cmd)' /\ Resuming(cmd)'
<1>. DEFINE items == Items(cmd.d, cmd.lib)
<1>1. /\ cmd.name \in Scaffolding /\ cmd.skipped \cap cmd.todo = {}
      /\ \A p \in items \ cmd.todo : Settled(cmd, p)
      /\ \A p \in items \cap Seeds : Present(p) => p \in DOMAIN cmd.hashes
      /\ cmd.outcome = "none"
  BY DEF Working, Works
<1>2. items = Items(cmd'.d, cmd'.lib) /\ items \subseteq Outputs
  BY DEF Items
<1>. HIDE DEF items
<1>3. ASSUME NEW p \in items \ cmd'.todo PROVE Settled(cmd, p)'
  <2>1. CASE p = o
    BY <2>1
  <2>2. CASE p # o
    BY <1>1, <1>2, <1>3, <2>2, SettledStays
  <2>. QED
    BY <2>1, <2>2
<1>4. \A p \in items \cap Seeds : Present(p)' => p \in DOMAIN cmd'.hashes
  BY <1>1, <1>2 DEF Present
<1>5. cmd.name \in {"sync", "repin"} => decl = {cmd.d}
  BY DEF Working
<1>6. Working(cmd)'
  BY <1>1, <1>2, <1>3, <1>4, <1>5 DEF Working, Works, Succeeded
<1>7. /\ cmd.name \in {"onboard", "sync", "repin"} /\ ~cmd.base => Known(items, sidecar)
      /\ ~cmd.base => DOMAIN sidecar.hashes \subseteq DOMAIN cmd.hashes
  BY DEF Resuming, Works, items
<1>8. Resuming(cmd)'
  BY <1>1, <1>2, <1>7 DEF Resuming, Works
<1>. QED
  BY <1>6, <1>8

(* Managed files and seeds, each in turn.                                  *)
LEMMA ScaffoldSettles ==
    ASSUME FileInv, Working(cmd), Resuming(cmd),
           NEW o \in Outputs, WriteManaged(o) \/ LeaveManaged(o) \/ WriteSeed(o)
    PROVE  Working(cmd)' /\ Resuming(cmd)'
<1>0. /\ cmd.pc = "write" /\ o \in cmd.todo /\ cmd \in Cmd
      /\ cmd.d \in Declaration /\ cmd.lib \in Versions
      /\ o \in Items(cmd.d, cmd.lib)
      /\ file \in [Outputs -> FileType]
      /\ UNCHANGED <<decl, sidecar, tool>>
  BY FilesAreGood
     DEF FileInv, Sound, Cmd, WriteManaged, LeaveManaged, WriteSeed, Step, Foremost
<1>1. /\ cmd.skipped \cap cmd.todo = {}
      /\ cmd.base \/ cmd.seeded \/ cmd.hashes = sidecar.hashes
      /\ \A p \in Items(cmd.d, cmd.lib) \cap Seeds : Present(p) => p \in DOMAIN cmd.hashes
  BY <1>0 DEF Working, Works
<1>2. CASE WriteManaged(o)
  <2>1. /\ cmd' = [cmd EXCEPT !.todo = @ \ {o}]
        /\ file' = [file EXCEPT ![o] = RenderManaged(o, cmd.d, cmd.lib)]
        /\ o \notin Seeds
    BY <1>2, ManagedFilesAssumption DEF WriteManaged
  <2>2. /\ cmd'.pc = "write" /\ cmd'.outcome = cmd.outcome /\ cmd'.name = cmd.name
        /\ cmd'.d = cmd.d /\ cmd'.lib = cmd.lib /\ cmd'.base = cmd.base
        /\ cmd'.todo = cmd.todo \ {o} /\ cmd'.skipped = cmd.skipped
        /\ cmd'.hashes = cmd.hashes /\ cmd'.seeded = cmd.seeded
    BY <1>0, <2>1 DEF Cmd
  <2>3. Settled(cmd, o)'
    BY <1>0, <1>1, <2>1, <2>2 DEF Settled
  <2>. QED
    BY <1>0, <1>1, <2>1, <2>2, <2>3, OneMoreSettled
<1>3. CASE LeaveManaged(o)
  <2>. DEFINE skipped == IF Current(o) THEN cmd.skipped ELSE cmd.skipped \cup {o}
  <2>1. /\ cmd' = [cmd EXCEPT !.todo = @ \ {o}, !.skipped = skipped]
        /\ file' = file
        /\ o \notin Seeds
        /\ ~Current(o) => Present(o) /\ ~Replaceable(o)
    BY <1>3, ManagedFilesAssumption DEF LeaveManaged
  <2>2. /\ cmd.skipped \subseteq skipped /\ skipped \subseteq cmd.skipped \cup {o}
        /\ o \in skipped <=> ~Current(o)
    BY <1>0, <1>1
  <2>. HIDE DEF skipped
  <2>3. /\ cmd'.pc = "write" /\ cmd'.outcome = cmd.outcome /\ cmd'.name = cmd.name
        /\ cmd'.d = cmd.d /\ cmd'.lib = cmd.lib /\ cmd'.base = cmd.base
        /\ cmd'.todo = cmd.todo \ {o} /\ cmd'.skipped = skipped
        /\ cmd'.hashes = cmd.hashes /\ cmd'.seeded = cmd.seeded
    BY <1>0, <2>1 DEF Cmd
  <2>4. Settled(cmd, o)'
    <3>1. CASE Current(o)
      BY <2>1, <2>2, <2>3, <3>1 DEF Settled, Current
    <3>2. CASE ~Current(o)
      <4>1. Status(o, cmd.d, cmd.lib) = "dirty-drift"
        BY <2>1, <3>2, RefusedIsDirty
      <4>2. Status(o, cmd.d, cmd.lib)' = "dirty-drift"
        BY <2>1, <2>3, <4>1 DEF Status, Present
      <4>. QED
        BY <2>1, <2>2, <2>3, <3>2, <4>2 DEF Settled
    <3>. QED
      BY <3>1, <3>2
  <2>. QED
    BY <1>0, <1>1, <2>1, <2>2, <2>3, <2>4, OneMoreSettled
<1>4. CASE WriteSeed(o)
  <2>. DEFINE body == Body(o, cmd.d, cmd.lib)
              h == [s \in DOMAIN cmd.hashes \cup {o} |-> IF s = o THEN body ELSE cmd.hashes[s]]
  <2>0. o \in Seeds
    BY <1>4 DEF WriteSeed
  <2>1. CASE Present(o)
    <3>1. cmd' = [cmd EXCEPT !.todo = @ \ {o}] /\ file' = file
      BY <1>4, <2>1 DEF WriteSeed
    <3>2. /\ cmd'.pc = "write" /\ cmd'.outcome = cmd.outcome /\ cmd'.name = cmd.name
          /\ cmd'.d = cmd.d /\ cmd'.lib = cmd.lib /\ cmd'.base = cmd.base
          /\ cmd'.todo = cmd.todo \ {o} /\ cmd'.skipped = cmd.skipped
          /\ cmd'.hashes = cmd.hashes /\ cmd'.seeded = cmd.seeded
      BY <1>0, <3>1 DEF Cmd
    <3>3. Settled(cmd, o)' /\ o \in DOMAIN cmd.hashes
      BY <1>0, <1>1, <2>0, <2>1, <3>1 DEF Settled, Present
    <3>. QED
      BY <1>0, <1>1, <3>1, <3>2, <3>3, OneMoreSettled
  <2>2. CASE ~Present(o)
    <3>1. /\ cmd' = [cmd EXCEPT !.todo = @ \ {o}, !.seeded = TRUE, !.hashes = h]
          /\ file' = [file EXCEPT ![o] = Plain(body)]
      BY <1>4, <2>2 DEF WriteSeed
    <3>2. DOMAIN h = DOMAIN cmd.hashes \cup {o}
      OBVIOUS
    <3>. HIDE DEF h
    <3>3. /\ cmd'.pc = "write" /\ cmd'.outcome = cmd.outcome /\ cmd'.name = cmd.name
          /\ cmd'.d = cmd.d /\ cmd'.lib = cmd.lib /\ cmd'.base = cmd.base
          /\ cmd'.todo = cmd.todo \ {o} /\ cmd'.skipped = cmd.skipped
          /\ cmd'.hashes = h /\ cmd'.seeded
      BY <1>0, <3>1 DEF Cmd
    <3>4. Settled(cmd, o)'
      BY <1>0, <2>0, <3>1, BodyIsOurs DEF Settled, Present, Plain, Absent
    <3>. QED
      BY <1>0, <1>1, <3>1, <3>2, <3>3, <3>4, OneMoreSettled
  <2>. QED
    BY <2>1, <2>2
<1>. QED
  BY <1>2, <1>3, <1>4

(* The record and the declaration follow.                                  *)
LEMMA RecordSettles ==
    ASSUME FileInv, Working(cmd), Resuming(cmd), WriteSidecar
    PROVE  Working(cmd)' /\ Resuming(cmd)'
<1>. DEFINE items == Items(cmd.d, cmd.lib)
<1>0. /\ cmd.pc = "write" /\ cmd.todo = {} /\ cmd \in Cmd
      /\ UNCHANGED <<file, decl, tool>>
      /\ cmd.outcome = "none" /\ cmd.name \in Scaffolding
      /\ items \subseteq Outputs
  BY DEF WriteSidecar, FileInv, TypeOK, Working, Works, Items
<1>1. /\ \A o \in items : Settled(cmd, o)
      /\ \A o \in items \cap Seeds : o \in DOMAIN cmd.hashes
      /\ cmd.base \/ cmd.seeded \/ cmd.hashes = sidecar.hashes
      /\ cmd.name \in {"sync", "repin"} => decl = {cmd.d}
  BY <1>0 DEF Working, Works, Settled
<1>2. \/ /\ cmd'.pc = "declare" /\ cmd'.outcome = "none" /\ cmd.name \in {"onboard", "migrate"}
      \/ /\ cmd'.pc = "idle" /\ cmd'.outcome = "done" /\ cmd.name \in {"sync", "repin"}
  BY <1>0 DEF WriteSidecar, Done, Cmd, Scaffolding
<1>3. /\ cmd'.name = cmd.name /\ cmd'.d = cmd.d /\ cmd'.lib = cmd.lib
      /\ cmd'.base = cmd.base /\ cmd'.skipped = cmd.skipped
  BY <1>0 DEF WriteSidecar, Done, Cmd
<1>4. /\ sidecar'.hashes = cmd.hashes
      /\ cmd.base \/ cmd.seeded => sidecar'.status = "ok"
      /\ ~(cmd.base \/ cmd.seeded) => sidecar' = sidecar
  BY <1>1 DEF WriteSidecar
<1>5. items = Items(cmd'.d, cmd'.lib)
  BY <1>3
<1>6. \A o \in items : Settled(cmd, o)' /\ (o \in Seeds => o \in DOMAIN sidecar'.hashes)
  BY <1>0, <1>1, <1>3, <1>4, SettledStays
<1>7. Working(cmd)'
  <2>. HIDE DEF items
  <2>. QED
    BY <1>0, <1>1, <1>2, <1>3, <1>5, <1>6 DEF Working, Works, Succeeded
<1>8. cmd.name = "onboard" /\ ~cmd.base => Known(items, sidecar)
  BY <1>0 DEF Resuming, Works
<1>9. cmd.name = "onboard" /\ ~cmd.base => Known(items, sidecar')
  <2>. HIDE DEF items
  <2>1. CASE cmd.base \/ cmd.seeded
    BY <1>1, <1>4, <2>1 DEF Known
  <2>2. CASE ~(cmd.base \/ cmd.seeded)
    BY <1>4, <1>8, <2>2
  <2>. QED
    BY <2>1, <2>2
<1>10. Resuming(cmd)'
  <2>. HIDE DEF items
  <2>. QED
    BY <1>2, <1>3, <1>5, <1>9 DEF Resuming, Works
<1>. QED
  BY <1>7, <1>10

LEMMA DeclarationSettles ==
    ASSUME FileInv, Working(cmd), Resuming(cmd), WriteDeclaration
    PROVE  Working(cmd)' /\ Resuming(cmd)'
<1>. DEFINE items == Items(cmd.d, cmd.lib)
<1>0. /\ cmd.pc \in {"declare", "pin"} /\ cmd \in Cmd
      /\ decl' = {cmd.d} /\ UNCHANGED <<file, sidecar, tool>>
      /\ cmd.outcome = "none" /\ cmd.name \in Scaffolding
  BY DEF WriteDeclaration, FileInv, TypeOK, Working, Works, Scaffolding
<1>1. CASE cmd.pc = "pin"
  <2>1. cmd' = [cmd EXCEPT !.pc = "write"]
    BY <1>1 DEF WriteDeclaration
  <2>2. /\ cmd'.pc = "write" /\ cmd'.outcome = cmd.outcome /\ cmd'.name = cmd.name
        /\ cmd'.d = cmd.d /\ cmd'.lib = cmd.lib /\ cmd'.base = cmd.base
        /\ cmd'.todo = cmd.todo /\ cmd'.skipped = cmd.skipped
        /\ cmd'.hashes = cmd.hashes /\ cmd'.seeded = cmd.seeded
    BY <1>0, <2>1 DEF Cmd
  <2>3. /\ cmd.skipped \cap cmd.todo = {}
        /\ \A o \in items \ cmd.todo : Settled(cmd, o)
        /\ \A o \in items \cap Seeds : Present(o) => o \in DOMAIN cmd.hashes
        /\ cmd.base \/ cmd.seeded \/ cmd.hashes = sidecar.hashes
    BY <1>1 DEF Working, Works
  <2>4. items = Items(cmd'.d, cmd'.lib)
    BY <2>2
  <2>5. /\ \A o \in items \ cmd.todo : Settled(cmd, o)'
        /\ \A o \in items \cap Seeds : Present(o)' => o \in DOMAIN cmd'.hashes
    BY <1>0, <2>2, <2>3, SettledStays DEF Present
  <2>6. Working(cmd)'
    <3>. HIDE DEF items
    <3>. QED
      BY <1>0, <2>2, <2>3, <2>4, <2>5 DEF Working, Works, Succeeded
  <2>7. /\ cmd.name \in {"onboard", "sync", "repin"} /\ ~cmd.base => Known(items, sidecar)
        /\ ~cmd.base => DOMAIN sidecar.hashes \subseteq DOMAIN cmd.hashes
    BY <1>1 DEF Resuming, Works
  <2>8. Resuming(cmd)'
    <3>. HIDE DEF items
    <3>. QED
      BY <1>0, <2>2, <2>4, <2>7 DEF Resuming, Works
  <2>. QED
    BY <2>6, <2>8
<1>2. CASE cmd.pc = "declare"
  <2>1. /\ cmd'.pc = "idle" /\ cmd'.outcome = "done" /\ cmd'.name = cmd.name
        /\ cmd'.d = cmd.d /\ cmd'.lib = cmd.lib /\ cmd'.skipped = cmd.skipped
    BY <1>0, <1>2 DEF WriteDeclaration, Done, Cmd
  <2>2. \A o \in items : Settled(cmd, o) /\ (o \in Seeds => o \in DOMAIN sidecar.hashes)
    BY <1>2 DEF Working
  <2>3. \A o \in items : Settled(cmd, o)' /\ (o \in Seeds => o \in DOMAIN sidecar'.hashes)
    BY <1>0, <2>1, <2>2, SettledStays
  <2>4. items = Items(cmd'.d, cmd'.lib)
    BY <2>1
  <2>. HIDE DEF items
  <2>5. Working(cmd)'
    BY <1>0, <2>1, <2>3, <2>4 DEF Working, Works, Succeeded
  <2>6. Resuming(cmd)'
    BY <2>1 DEF Resuming, Works
  <2>. QED
    BY <2>5, <2>6
<1>. QED
  BY <1>0, <1>1, <1>2

-----------------------------------------------------------------------------
(* Offboarding.                                                            *)

(* What is stripped or deleted no longer carries a marker, and a workflow  *)
(* is deleted, not stripped: it stops no second offboarding.               *)
LEMMA RemovalResumes ==
    ASSUME FileInv, Working(cmd), Resuming(cmd), NEW o \in Outputs, StripOrDelete(o)
    PROVE  Working(cmd)' /\ Resuming(cmd)'
<1>. DEFINE items == Items(cmd.d, tool)
            f == IF o \in cmd.strip THEN Plain(file[o].body) ELSE Absent
<1>0. /\ cmd.pc = "remove" /\ cmd \in Cmd /\ cmd.outcome = "none"
      /\ file \in [Outputs -> FileType] /\ items \subseteq Outputs
      /\ UNCHANGED <<decl, sidecar, tool>>
      /\ cmd' = [cmd EXCEPT !.todo = @ \ {o}, !.strip = @ \ {o}]
  BY FilesAreGood DEF StripOrDelete, FileInv, Working, Items
<1>1. /\ cmd'.pc = "remove" /\ cmd'.outcome = "none" /\ cmd'.d = cmd.d
      /\ cmd'.todo = cmd.todo \ {o} /\ cmd'.strip = cmd.strip \ {o}
  BY <1>0 DEF Cmd
<1>2. file' = [file EXCEPT ![o] = f]
  BY <1>0 DEF StripOrDelete
<1>3. /\ decl # {} /\ cmd.strip \subseteq Passive
      /\ ~OffboardBlocked(items)
      /\ \A p \in items \cap Managed : file[p].mark # {} => p \in cmd.todo
  BY <1>0 DEF Resuming
<1>4. /\ f.mark = {}
      /\ o \in Automation => f = Absent
  BY <1>3, AbsentIsUnmarked, ManagedFilesAssumption DEF Plain
<1>5. items = Items(cmd'.d, tool')
  BY <1>0, <1>1
<1>. HIDE DEF f, items
<1>6. \A p \in items \cap Managed : file'[p].mark # {} => p \in cmd'.todo
  BY <1>0, <1>1, <1>2, <1>3, <1>4
<1>7. \A p \in items \cap Automation : file'[p] # Absent => file'[p].mark # {}
  <2>1. \A p \in items \cap Automation : file[p] # Absent => file[p].mark # {}
    BY <1>3 DEF OffboardBlocked, Present
  <2>. QED
    BY <1>0, <1>2, <1>4, <2>1
<1>8. ~OffboardBlocked(items)'
  <2>1. items' = items
    BY <1>0, <1>1 DEF items
  <2>. QED
    BY <1>7, <2>1 DEF OffboardBlocked, Present
<1>9. Working(cmd)'
  BY <1>1 DEF Working, Works, Succeeded
<1>10. Resuming(cmd)'
  <2>1. ~OffboardBlocked(Items(cmd.d, tool))'
    BY <1>8 DEF items
  <2>. QED
    BY <1>0, <1>1, <1>3, <1>5, <1>6, <2>1 DEF Resuming, Works
<1>. QED
  BY <1>9, <1>10

(* The declaration goes when no declared file carries a marker, and the    *)
(* record goes last.                                                       *)
LEMMA UnrecordingResumes ==
    ASSUME FileInv, Working(cmd), Resuming(cmd), DeleteDeclaration \/ DeleteSidecar
    PROVE  Working(cmd)' /\ Resuming(cmd)'
<1>0. cmd \in Cmd /\ cmd.outcome = "none" /\ UNCHANGED <<file, tool>>
  BY DEF DeleteDeclaration, DeleteSidecar, FileInv, TypeOK, Working
<1>1. CASE DeleteDeclaration
  <2>1. /\ cmd'.pc = "unrecord" /\ cmd'.d = cmd.d /\ cmd'.outcome = "none"
        /\ decl' = {} /\ cmd.pc = "remove" /\ cmd.todo = {}
    BY <1>0, <1>1 DEF DeleteDeclaration, Cmd
  <2>2. \A o \in Items(cmd.d, tool) \cap Managed : file[o].mark = {}
    BY <2>1 DEF Resuming
  <2>3. Working(cmd)'
    BY <2>1 DEF Working, Works, Succeeded
  <2>4. Resuming(cmd)'
    BY <1>0, <2>1, <2>2 DEF Resuming, Works
  <2>. QED
    BY <2>3, <2>4
<1>2. CASE DeleteSidecar
  <2>1. cmd.name = "offboard"
    BY <1>2 DEF DeleteSidecar, FileInv, Sound
  <2>2. cmd'.pc = "idle" /\ cmd'.outcome = "done" /\ cmd'.name = "offboard"
    BY <1>0, <1>2, <2>1 DEF DeleteSidecar, Done, Cmd
  <2>. QED
    BY <2>2 DEF Working, Resuming, Works, Succeeded, Scaffolding
<1>. QED
  BY <1>1, <1>2

-----------------------------------------------------------------------------
(* The theorems.                                                           *)

LEMMA StepSettles == SettledInv /\ CommandStep => SettledInv'
<1>. SUFFICES ASSUME SettledInv, CommandStep PROVE SettledInv'
  OBVIOUS
<1>1. FileInv /\ Working(cmd) /\ Resuming(cmd) /\ FileInv'
  BY StepKeeps DEF SettledInv
<1>2. Working(cmd)' /\ Resuming(cmd)'
  BY <1>1, ScaffoldSettles, RecordSettles, DeclarationSettles, RemovalResumes,
     UnrecordingResumes DEF CommandStep
<1>3. decl' \in {decl, {}, {cmd.d}}
  BY DEF CommandStep, WriteManaged, LeaveManaged, WriteSeed, StripOrDelete, WriteSidecar,
     WriteDeclaration, DeleteDeclaration, DeleteSidecar
<1>4. OneDeclaration'
  BY <1>3 DEF OneDeclaration, SettledInv
<1>. QED
  BY <1>1, <1>2, <1>4 DEF SettledInv

(* A killed command leaves what its invariant says of that moment.         *)
LEMMA CrashResumes == SettledInv /\ Crash => SettledInv'
<1>. SUFFICES ASSUME SettledInv, Crash PROVE SettledInv'
  OBVIOUS
<1>1. /\ FileInv' /\ OneDeclaration' /\ UNCHANGED <<file, decl, sidecar, tool>>
      /\ cmd \in Cmd /\ cmd.pc # "idle"
  BY CrashKeeps DEF SettledInv, Crash, OneDeclaration, FileInv, TypeOK
<1>2. /\ cmd'.pc = "idle" /\ cmd'.outcome = "cut" /\ cmd'.name = cmd.name
      /\ cmd'.d = cmd.d /\ cmd'.lib = cmd.lib /\ cmd'.base = cmd.base
  BY DEF Crash, IdleCmd
<1>3. Working(cmd)'
  BY <1>2 DEF Working, Works, Succeeded
<1>sound. /\ cmd.pc \in {"pin", "write", "declare"} => cmd.name # "offboard"
          /\ cmd.pc \in {"remove", "unrecord"} => cmd.name = "offboard"
          /\ cmd.pc \in {"pin", "write", "declare", "remove", "unrecord"}
  <2>1. Sound(cmd)
    BY DEF SettledInv, FileInv
  <2>2. cmd.pc \in {"idle", "pin", "write", "declare", "remove", "unrecord"}
    BY <1>1 DEF Cmd
  <2>. QED
    BY <1>1, <2>1, <2>2 DEF Sound
<1>4. cmd.name = "offboard" => cmd.pc \in {"remove", "unrecord"}
  BY <1>sound
<1>5. cmd.name # "offboard" => Works(cmd) \/ cmd.pc = "declare"
  BY <1>sound DEF Works
<1>6. cmd.name \in {"onboard", "sync", "repin"} /\ ~cmd.base =>
         Known(Items(cmd.d, cmd.lib), sidecar)
  BY <1>5 DEF SettledInv, Resuming
<1>7. cmd.name = "offboard" =>
         IF decl = {}
         THEN \A o \in Items(cmd.d, tool) \cap Managed : file[o].mark = {}
         ELSE ~OffboardBlocked(Items(cmd.d, tool))
  BY <1>4 DEF SettledInv, Resuming
<1>8. ~OffboardBlocked(Items(cmd.d, tool)) => ~OffboardBlocked(Items(cmd.d, tool))'
  BY <1>1, <1>2 DEF OffboardBlocked, Present
<1>9. Resuming(cmd)'
  BY <1>1, <1>2, <1>6, <1>7, <1>8 DEF Resuming, Works
<1>. QED
  BY <1>1, <1>3, <1>9 DEF SettledInv

LEMMA OperatorSettles == SettledInv /\ Operator => SettledInv'
<1>. SUFFICES ASSUME SettledInv, Operator PROVE SettledInv'
  OBVIOUS
<1>1. FileInv'
  BY OperatorKeeps DEF SettledInv
<1>2. cmd' = IdleCmd
  BY DEF Operator, EditFile, EditDeclaration, EditSidecar, Install, MergeFix,
     MergeOnboarding, Between
<1>3. Working(cmd)' /\ Resuming(cmd)'
  BY <1>2 DEF Working, Resuming, Works, Succeeded, IdleCmd
<1>4. \/ decl' = decl \/ decl' = {}
      \/ \E d : decl' = {d}
      \/ \E docs : decl' = {[d EXCEPT !.docs = docs] : d \in decl}
  BY DEF Operator, EditFile, EditDeclaration, EditSidecar, Install, MergeFix,
     MergeOnboarding
<1>5. OneDeclaration'
  BY <1>4 DEF OneDeclaration, SettledInv
<1>. QED
  BY <1>1, <1>3, <1>5 DEF SettledInv

LEMMA SettledIsInvariant == Spec => []SettledInv
<1>1. Init => SettledInv
  <2>1. ASSUME Init PROVE Working(cmd) /\ Resuming(cmd) /\ OneDeclaration
    BY <2>1 DEF Init, Working, Resuming, Works, Succeeded, IdleCmd, OneDeclaration
  <2>. QED
    BY <2>1, InitIsSound DEF SettledInv
<1>2. SettledInv /\ [Next]_vars => SettledInv'
  <2>1. ASSUME SettledInv, UNCHANGED vars PROVE SettledInv'
    <3>1. FileInv'
      BY <2>1, NextKeeps DEF SettledInv
    <3>2. UNCHANGED <<file, decl, sidecar, tool, cmd>>
      BY <2>1 DEF vars
    <3>3. OneDeclaration'
      BY <2>1, <3>2 DEF SettledInv, OneDeclaration
    <3>4. Working(cmd)'
      BY <2>1, <3>2 DEF SettledInv, Working, Works, Succeeded, Settled, Present, Status
    <3>5. Resuming(cmd)'
      BY <2>1, <3>2 DEF SettledInv, Resuming, Works, OffboardBlocked, Present
    <3>. QED
      BY <3>1, <3>3, <3>4, <3>5 DEF SettledInv
  <2>. QED
    BY <2>1, CommandSettles, StepSettles, CrashResumes, OperatorSettles DEF Next
<1>. QED
  BY <1>1, <1>2, PTL DEF Spec

(* A command that reports success has declared what was asked for, brought *)
(* every managed file it did not skip to the declared version, clean for   *)
(* diagnosis, skipped only what diagnosis refuses, too, and recorded every *)
(* seed: whatever the templates, and whatever happened to the tree before. *)
THEOREM SuccessIsSettled == Spec => []CompletionIsSettled
<1>1. SettledInv => CompletionIsSettled
  <2>. SUFFICES ASSUME SettledInv, cmd.outcome = "done", cmd.name \in Scaffolding,
                       NEW o \in Items(cmd.d, cmd.lib)
                PROVE  /\ decl = {cmd.d}
                       /\ IF o \in Seeds
                          THEN Present(o) /\ o \in DOMAIN sidecar.hashes
                          ELSE IF o \in cmd.skipped
                          THEN Status(o, cmd.d, cmd.lib) = "dirty-drift"
                          ELSE /\ Status(o, cmd.d, cmd.lib) = "clean"
                               /\ MarkOf(o).version = cmd.d.version
    BY DEF CompletionIsSettled, SettledInv, Working, Succeeded
  <2>1. /\ decl = {cmd.d} /\ Settled(cmd, o)
        /\ o \in Seeds => o \in DOMAIN sidecar.hashes
        /\ cmd.d \in Declaration /\ cmd.lib \in Versions
    BY DEF SettledInv, Working, Succeeded, FileInv, TypeOK, Cmd
  <2>. QED
    BY <2>1, WrittenIsClean DEF Settled
<1>. QED
  BY <1>1, SettledIsInvariant, PTL

(* Wherever a command is killed, it can be started again: sync, re-pin and *)
(* a repeated onboarding find their record of the seeds, and an offboarding *)
(* finds its declaration and is not stopped by what it left, or has left   *)
(* no marker on a declared file.                                           *)
THEOREM KilledCommandsResume == Spec => []InterruptedRunsResume
<1>1. SettledInv => InterruptedRunsResume
  BY SeedsKnown DEF SettledInv, Resuming, InterruptedRunsResume
<1>. QED
  BY <1>1, SettledIsInvariant, PTL

=============================================================================
