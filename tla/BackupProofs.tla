---------------------------- MODULE BackupProofs ----------------------------
(***************************************************************************)
(* For any services, names, contents and mishaps, at whatever step a       *)
(* command fails or is killed, and whatever is run after it:               *)
(*   - what a restore puts in place was in the volume at one moment of the *)
(*     backup (RestoredIsSaved);                                           *)
(*   - what a command stopped it starts again, or names (ServicesPutBack); *)
(*   - no writer is started on half-moved contents (StartedOnWhole);       *)
(*   - the old contents are kept until the snapshot is in place, as long   *)
(*     as no rename of the old contents fails (OldIsKept).                 *)
(*                                                                         *)
(* The first rests on the writers: those that still run are the ones the   *)
(* block has yet to stop (StopInv), so the volume stands still while it is *)
(* read, and while the script works on it (ArchiveInv, ScriptInv).  The    *)
(* last follows the contents the script took over from step to step        *)
(* (OwedInv): where they are tells which rename is at work.                *)
(***************************************************************************)
EXTENDS Backup, TLAPS

Entries == Names \X Contents
SwapDirs == {"staging", "previous"}
Dumps == Rows \cup {NoDb}

Saved ==
    [files : SUBSET Entries, junk : SUBSET SwapDirs, dump : Dumps, moment : SUBSET Entries]

Points == {"idle", "stop", "start", "dump", "read", "seal", "server", "load", "swap", "drop",
           "down", "replace"}

Commands ==
    [cmd : {"none", "backup", "restore"}, pc : Points, item : {"db", "files"},
     targets : SUBSET Services, stopped : SUBSET Services, failed : BOOLEAN,
     partial : Saved, startedHere : BOOLEAN]

Disks ==
    [vol : SUBSET Entries, staging : SUBSET Entries, previous : SUBSET Entries,
     dirs : SUBSET SwapDirs]

Databases == [live : Dumps, temp : Dumps, old : Dumps]

\* A directory has one entry of a name.
Single(dir) == \A d, e \in dir : d[1] = e[1] => d = e

TypeInv ==
    /\ disk \in Disks /\ owed \in SUBSET Entries /\ junk \in SUBSET SwapDirs
    /\ db \in Databases
    /\ archives \in SUBSET Saved
    /\ run \in Commands
    /\ up \in SUBSET Services /\ was \in SUBSET Services /\ said \in SUBSET Services

\* What the script has made of its directories by the step it is at.
PhaseInv ==
    /\ Single(disk.vol) /\ Single(disk.staging)
    /\ disk.staging # {} => "staging" \in disk.dirs
    /\ disk.previous # {} => "previous" \in disk.dirs
    /\ sh = "unpack" => disk.previous = {} /\ "staging" \in disk.dirs
    /\ sh \in {"out", "in", "undo", "back"} => disk.dirs = SwapDirs
    /\ sh = "clean" => disk.staging = {} /\ disk.dirs = {"previous"}

\* Which command is at which point.
CommandInv ==
    /\ run.cmd = "none" <=> At("idle")
    /\ sh # "none" => At("replace")
    /\ run.pc \in {"dump", "read", "seal"} => run.cmd = "backup"
    /\ run.pc \in {"server", "load", "swap", "drop", "down", "replace"} => run.cmd = "restore"
    /\ At("replace") => run.item = "files"
    /\ run.pc \in {"server", "load"} => run.item = "db"
    /\ run.cmd = "backup" => At("dump") \/ run.item = "files"
    /\ run.startedHere => run.item = "db" /\ run.cmd = "restore"

\* What runs of what a block stops.
StopInv ==
    /\ At("stop") => run.targets \subseteq up
    /\ At("stop") /\ run.item = "files" => up \cap Writers \subseteq run.targets
    /\ run.pc \in {"read", "replace"} => up \cap Writers = {}
    /\ run.pc \in {"stop", "read", "swap", "replace"} => run.stopped \cap up = {}
    /\ run.pc \in {"idle", "dump", "server", "load", "down"} => run.stopped = {}
    /\ At("seal") => run.stopped \subseteq up

\* What runs, or will when the command starts what it stopped, is what ran
\* before it, and the server it started.
PutBackInv ==
    /\ run.pc \in {"dump", "server"} => up = was
    /\ run.startedHere => Server \notin was
    /\ \A s \in Services \ said :
          s \in up \cup run.stopped
              <=> s \in was \/ (run.startedHere /\ s = Server)

\* What is read into an archive, and the archive.
ArchiveInv ==
    /\ At("dump") \/ (At("stop") /\ run.cmd = "backup") =>
         run.partial.files = {} /\ run.partial.moment = {}
    /\ At("read") =>
         /\ run.partial.files \subseteq disk.vol
         /\ run.partial.moment = IF run.partial.files = {} THEN {} ELSE disk.vol
    /\ At("seal") \/ (At("start") /\ run.cmd = "backup" /\ ~run.failed) =>
         run.partial.files = run.partial.moment /\ Single(run.partial.files)
    /\ \A saved \in archives : saved.files = saved.moment /\ Single(saved.files)
    /\ \A saved, other \in archives : saved = other

\* Where the snapshot is that the script unpacked.
ScriptInv ==
    /\ sh = "unpack" => \A saved \in archives : disk.staging \subseteq saved.files
    /\ sh = "out" => \E saved \in archives : disk.staging = saved.files
    /\ sh = "in" => \E saved \in archives : disk.vol \cup disk.staging = saved.files
    /\ sh = "clean" => \E saved \in archives : disk.vol = saved.files
    /\ sh \in {"clean", "restored"} => owed = {}

\* A writer runs, or will when the command starts what it stopped, only on
\* whole contents, unless the operator started one.
WholeInv ==
    ~At("replace") /\ (up \cup run.stopped) \cap Writers # {} => owed \subseteq disk.vol \/ accepted

\* Where the contents are that the script took over.
OwedInv ==
    /\ owed \subseteq disk.vol \cup disk.previous
    /\ sh \in {"unpack", "out", "in", "undo", "back"} => Single(owed)
    /\ sh = "unpack" => owed = disk.vol
    /\ sh \in {"out", "back"} => owed = disk.vol \cup disk.previous
    /\ sh \in {"in", "undo"} => owed = disk.previous

BackupInv ==
    /\ TypeInv /\ PhaseInv /\ CommandInv /\ StopInv /\ PutBackInv /\ ArchiveInv /\ ScriptInv
    /\ WholeInv

-----------------------------------------------------------------------------
(* The fields of a command. *)

\* What a step makes of the command under way.
Becomes(cmd, pc, item, stopped, startedHere) ==
    /\ run'.cmd = cmd /\ run'.pc = pc /\ run'.item = item
    /\ run'.stopped = stopped /\ run'.startedHere = startedHere

Keeps(pc, stopped) == Becomes(run.cmd, pc, run.item, stopped, run.startedHere)

LEMMA Fields ==
    ASSUME TypeInv
    PROVE  /\ run.cmd \in {"none", "backup", "restore"} /\ run.pc \in Points
           /\ run.item \in {"db", "files"} /\ run.targets \subseteq Services
           /\ run.stopped \subseteq Services /\ run.failed \in BOOLEAN
           /\ run.partial \in Saved /\ run.startedHere \in BOOLEAN
BY DEF TypeInv, Commands

LEMMA IdleFields ==
    /\ Idle \in Commands /\ Idle.cmd = "none" /\ Idle.pc = "idle" /\ Idle.item = "db"
    /\ Idle.stopped = {} /\ Idle.startedHere = FALSE /\ Idle.failed = FALSE
    /\ Idle.partial = Nothing /\ Nothing.files = {} /\ Nothing.moment = {}
BY DEF Idle, Nothing, Commands, Points, Saved, Dumps

\* A command that goes on.
LEMMA GoesFields ==
    ASSUME TypeInv, NEW pc \in Points, Goes(pc)
    PROVE  /\ run' \in Commands /\ Keeps(pc, run.stopped)
           /\ run'.partial = run.partial /\ run'.failed = run.failed
BY DEF TypeInv, Goes, Commands, Keeps, Becomes

\* An error on its way out of the command.
LEMMA RaisesFields ==
    ASSUME TypeInv, Raises
    PROVE  /\ run' \in Commands
           /\ \/ ~run.startedHere /\ Becomes("none", "idle", "db", {}, FALSE)
              \/ run.startedHere /\ Keeps("down", {})
<1>1. CASE run.startedHere
  BY <1>1 DEF TypeInv, Raises, Commands, Keeps, Becomes, Points
<1>2. CASE ~run.startedHere
  BY <1>2, IdleFields DEF Raises, Ends, Becomes
<1> QED BY <1>1, <1>2

\* A block that begins.
LEMMA BlockFields ==
    ASSUME TypeInv, NEW item \in {"db", "files"}, NEW running \in SUBSET Services
    PROVE  LET block == Block(item, running) IN
           /\ block \in Commands /\ block.cmd = run.cmd /\ block.pc = "stop"
           /\ block.item = item /\ block.stopped = {} /\ block.targets = running
           /\ block.startedHere = run.startedHere /\ block.partial = run.partial
           /\ block.failed = run.failed
BY DEF TypeInv, Block, Commands, Points

\* What does not depend on the command but on what it works on.
LEMMA DataKept ==
    ASSUME BackupInv, UNCHANGED <<disk, sh, owed, archives>>
    PROVE  PhaseInv' /\ ScriptInv'
BY DEF BackupInv, PhaseInv, ScriptInv

-----------------------------------------------------------------------------
(* The steps of a block of stopped services. *)

LEMMA StopStep ==
    ASSUME BackupInv, Stop
    PROVE  BackupInv'
<1>1. PICK s \in run.targets :
         up' = up \ {s} /\ run' = [run EXCEPT !.targets = @ \ {s}, !.stopped = @ \cup {s}]
  BY DEF Stop
<1>2. At("stop") /\ UNCHANGED <<dataVars, history, said>>
  BY DEF Stop
<1>3. /\ run' \in Commands /\ Keeps("stop", run.stopped \cup {s})
      /\ run'.targets = run.targets \ {s} /\ run'.partial = run.partial
      /\ run'.failed = run.failed
  BY <1>1, <1>2, Fields DEF BackupInv, TypeInv, Commands, At, Keeps, Becomes, Points
<1>4. s \in up /\ s \in Services
  BY <1>2, Fields DEF BackupInv, StopInv
<1>5. TypeInv'
  BY <1>1, <1>2, <1>3 DEF BackupInv, TypeInv, dataVars, history, swapVars
<1>6. PhaseInv' /\ ScriptInv'
  BY <1>2, DataKept DEF dataVars, swapVars
<1>7. CommandInv'
  BY <1>2, <1>3 DEF BackupInv, CommandInv, Keeps, Becomes, At, dataVars, swapVars
<1>8. StopInv'
  BY <1>1, <1>2, <1>3, <1>4 DEF BackupInv, StopInv, Keeps, Becomes, At
<1>9. PutBackInv'
  BY <1>1, <1>2, <1>3, <1>4 DEF BackupInv, PutBackInv, Keeps, Becomes, At, history
<1>10. ArchiveInv'
  BY <1>2, <1>3 DEF BackupInv, ArchiveInv, Keeps, Becomes, At, dataVars, swapVars
<1>11. WholeInv'
  BY <1>1, <1>2, <1>3, <1>4 DEF BackupInv, WholeInv, Keeps, Becomes, At, dataVars, swapVars, history
<1> QED BY <1>5, <1>6, <1>7, <1>8, <1>9, <1>10, <1>11 DEF BackupInv

LEMMA StopFailsStep ==
    ASSUME BackupInv, StopFails
    PROVE  BackupInv'
<1>1. PICK s \in run.targets : up' \in {up, up \ {s}} /\ said' = said \cup {s}
  BY DEF StopFails
<1>2. At("stop") /\ UNCHANGED <<dataVars, history>>
  BY DEF StopFails
<1>3. /\ run' \in Commands /\ Keeps("start", run.stopped)
      /\ run'.partial = run.partial /\ run'.failed = TRUE
  BY Fields DEF StopFails, BackupInv, TypeInv, Commands, Keeps, Becomes, Points
<1>4. s \in up /\ s \in Services
  BY <1>2, Fields DEF BackupInv, StopInv
<1>5. TypeInv'
  BY <1>1, <1>2, <1>3, <1>4 DEF BackupInv, TypeInv, dataVars, history, swapVars
<1>6. PhaseInv' /\ ScriptInv'
  BY <1>2, DataKept DEF dataVars, swapVars
<1>7. CommandInv'
  BY <1>2, <1>3 DEF BackupInv, CommandInv, Keeps, Becomes, At, dataVars, swapVars
<1>8. StopInv'
  BY <1>3 DEF StopInv, Keeps, Becomes, At
<1>9. PutBackInv'
  BY <1>1, <1>2, <1>3, <1>4 DEF BackupInv, PutBackInv, Keeps, Becomes, At, history
<1>10. ArchiveInv'
  BY <1>2, <1>3 DEF BackupInv, ArchiveInv, Keeps, Becomes, At, dataVars, swapVars
<1>11. WholeInv'
  BY <1>1, <1>2, <1>3, <1>4 DEF BackupInv, WholeInv, Keeps, Becomes, At, dataVars, swapVars, history
<1> QED BY <1>5, <1>6, <1>7, <1>8, <1>9, <1>10, <1>11 DEF BackupInv

LEMMA StopsDoneStep ==
    ASSUME BackupInv, StopsDone
    PROVE  BackupInv'
<1>1. /\ At("stop") /\ run.targets = {}
      /\ UNCHANGED <<disk, junk, owed, db, archives, up, was, said>>
  BY DEF StopsDone
<1>2. PICK pc \in {"swap", "read", "replace"} :
         /\ Goes(pc)
         /\ pc = "swap" => run.item = "db" /\ UNCHANGED <<sh, accepted>>
         /\ pc = "read" => run.item = "files" /\ run.cmd = "backup" /\ UNCHANGED <<sh, accepted>>
         /\ pc = "replace" => run.item = "files" /\ run.cmd = "restore" /\ sh' = "check"
  BY DEF StopsDone
<1>3. /\ run' \in Commands /\ Keeps(pc, run.stopped)
      /\ run'.partial = run.partial /\ run'.failed = run.failed
  BY <1>2, GoesFields DEF BackupInv, Points
<1>4. TypeInv'
  BY <1>1, <1>3 DEF BackupInv, TypeInv
<1>5. sh = "none" /\ (sh' = "none" \/ (pc = "replace" /\ sh' = "check"))
  BY <1>1, <1>2 DEF BackupInv, CommandInv, At
<1>6. PhaseInv'
  BY <1>1, <1>5 DEF BackupInv, PhaseInv
<1>7. ScriptInv'
  BY <1>1, <1>5 DEF BackupInv, ScriptInv
<1>8. CommandInv'
  BY <1>1, <1>2, <1>3, <1>5, Fields DEF BackupInv, CommandInv, Keeps, Becomes, At
<1>9. StopInv'
  BY <1>1, <1>2, <1>3 DEF BackupInv, StopInv, Keeps, Becomes, At
<1>10. PutBackInv'
  BY <1>1, <1>2, <1>3 DEF BackupInv, PutBackInv, Keeps, Becomes, At
<1>11. ArchiveInv'
  BY <1>1, <1>2, <1>3 DEF BackupInv, ArchiveInv, Keeps, Becomes, At
<1>12. WholeInv'
  BY <1>1, <1>2, <1>3 DEF BackupInv, WholeInv, Keeps, Becomes, At
<1> QED BY <1>4, <1>6, <1>7, <1>8, <1>9, <1>10, <1>11, <1>12 DEF BackupInv

\* What follows an error: nothing more is stopped, and what the command says
\* makes up for what it leaves down.
LEMMA RaisesStep ==
    ASSUME BackupInv, Raises, UNCHANGED <<swapVars, archives, was, accepted>>,
           db' \in Databases,
           run.pc \in {"start", "swap", "load"},
           up' \in SUBSET Services, said' \in SUBSET Services,
           up \subseteq up', up' \subseteq up \cup run.stopped,
           said \subseteq said', run.stopped \subseteq up' \cup said'
    PROVE  BackupInv'
<1>1. /\ run' \in Commands
      /\ \/ ~run.startedHere /\ Becomes("none", "idle", "db", {}, FALSE)
         \/ run.startedHere /\ Keeps("down", {})
  BY RaisesFields DEF BackupInv
<1>2. sh = "none" /\ sh' = "none"
  BY DEF BackupInv, CommandInv, At, swapVars
<1>3. TypeInv'
  BY <1>1 DEF BackupInv, TypeInv, swapVars
<1>4. PhaseInv' /\ ScriptInv'
  BY DataKept DEF swapVars
<1>5. CommandInv'
  BY <1>1, <1>2 DEF BackupInv, CommandInv, Keeps, Becomes, At
<1>6. StopInv'
  BY <1>1 DEF StopInv, Keeps, Becomes, At
<1>7. PutBackInv'
  BY <1>1 DEF BackupInv, PutBackInv, Keeps, Becomes, At
<1>8. ArchiveInv'
  BY <1>1 DEF BackupInv, ArchiveInv, Keeps, Becomes, At, swapVars
<1>9. WholeInv'
  BY <1>1 DEF BackupInv, WholeInv, Keeps, Becomes, At, swapVars
<1> QED BY <1>3, <1>4, <1>5, <1>6, <1>7, <1>8, <1>9 DEF BackupInv

\* The end of a block that went well.
LEMMA StartedStep ==
    ASSUME BackupInv, Start, ~run.failed
    PROVE  BackupInv'
<1>1. At("start") /\ up' = up \cup run.stopped /\ UNCHANGED <<dataVars, history, said>>
  BY DEF Start
<1>2. /\ run' \in Commands
      /\ \/ run.item = "db" /\ Keeps("down", {})
         \/ /\ run.item = "files" /\ run.cmd = "backup" /\ Keeps("seal", run.stopped)
            /\ run'.partial = run.partial
         \/ run.item = "files" /\ run.cmd # "backup" /\ Becomes("none", "idle", "db", {}, FALSE)
  <2>1. CASE run.item = "db"
    <3>1. run' = [run EXCEPT !.pc = "down", !.stopped = {}]
      BY <2>1 DEF Start
    <3> QED BY <2>1, <3>1 DEF BackupInv, TypeInv, Commands, Keeps, Becomes, Points
  <2>2. CASE run.item = "files" /\ run.cmd = "backup"
    <3>1. Goes("seal")
      BY <2>2 DEF Start
    <3> QED BY <2>2, <3>1, GoesFields DEF BackupInv, Points
  <2>3. CASE run.item = "files" /\ run.cmd # "backup"
    <3>1. run' = Idle
      BY <2>3 DEF Start, Ends
    <3> QED BY <2>3, <3>1, IdleFields DEF Becomes
  <2> QED BY <2>1, <2>2, <2>3, Fields DEF BackupInv
<1>3. TypeInv'
  BY <1>1, <1>2, Fields DEF BackupInv, TypeInv, dataVars, history, swapVars
<1>4. PhaseInv' /\ ScriptInv'
  BY <1>1, DataKept DEF dataVars, swapVars
<1>5. CommandInv'
  BY <1>1, <1>2, Fields DEF BackupInv, CommandInv, Keeps, Becomes, At, dataVars, swapVars
<1>6. StopInv'
  BY <1>1, <1>2 DEF BackupInv, StopInv, Keeps, Becomes, At
<1>7. PutBackInv'
  BY <1>1, <1>2, Fields DEF BackupInv, CommandInv, StopInv, PutBackInv, Keeps, Becomes, At, history
<1>8. ArchiveInv'
  BY <1>1, <1>2, Fields DEF BackupInv, ArchiveInv, Keeps, Becomes, At, dataVars, swapVars
<1>9. WholeInv'
  BY <1>1, <1>2 DEF BackupInv, WholeInv, Keeps, Becomes, At, dataVars, swapVars, history
<1> QED BY <1>3, <1>4, <1>5, <1>6, <1>7, <1>8, <1>9 DEF BackupInv

LEMMA StartStep ==
    ASSUME BackupInv, Start
    PROVE  BackupInv'
<1>1. CASE run.failed
  <2>1. Raises /\ up' = up \cup run.stopped /\ UNCHANGED <<dataVars, history, said>> /\ At("start")
    BY <1>1 DEF Start
  <2> QED BY <2>1, Fields, RaisesStep DEF BackupInv, TypeInv, history, dataVars, At
<1> QED BY <1>1, StartedStep

LEMMA StartFailsStep ==
    ASSUME BackupInv, StartFails
    PROVE  BackupInv'
<1>1. /\ At("start") /\ Raises /\ UNCHANGED <<dataVars, history>>
      /\ said' = said \cup run.stopped
      /\ \E some \in SUBSET run.stopped : up' = up \cup some
  BY DEF StartFails
<1> QED BY <1>1, Fields, RaisesStep DEF BackupInv, TypeInv, history, dataVars, At

LEMMA CallFailsStep ==
    ASSUME BackupInv, CallFails
    PROVE  BackupInv'
<1>0. run.pc \in {"read", "swap"} /\ UNCHANGED <<dataVars, up, history>> /\ BlockFails
  BY DEF CallFails
<1>a. CASE run.pc = "swap"
  <2>1. Raises /\ said' = said \cup run.stopped
    BY <1>0, <1>a DEF BlockFails, BackupInv, CommandInv
  <2> QED BY <1>0, <1>a, <2>1, Fields, RaisesStep DEF BackupInv, TypeInv, history, dataVars
<1>b. CASE run.pc = "read"
  <2>1. run' = [run EXCEPT !.pc = "start", !.failed = TRUE] /\ UNCHANGED said
    BY <1>0, <1>b DEF BlockFails, BackupInv, CommandInv
  <2>2. run' \in Commands /\ Keeps("start", run.stopped) /\ run'.failed = TRUE
    BY <2>1 DEF BackupInv, TypeInv, Commands, Keeps, Becomes, Points
  <2>3. TypeInv'
    BY <1>0, <2>1, <2>2 DEF BackupInv, TypeInv, dataVars, history, swapVars
  <2>4. PhaseInv' /\ ScriptInv'
    BY <1>0, DataKept DEF dataVars, swapVars
  <2>5. CommandInv'
    BY <1>0, <1>b, <2>2 DEF BackupInv, CommandInv, Keeps, Becomes, At, dataVars, swapVars
  <2>6. StopInv'
    BY <2>2 DEF StopInv, Keeps, Becomes, At
  <2>7. PutBackInv'
    BY <1>0, <1>b, <2>1, <2>2 DEF BackupInv, PutBackInv, Keeps, Becomes, At, history
  <2>8. ArchiveInv'
    BY <1>0, <2>2 DEF BackupInv, ArchiveInv, Keeps, Becomes, At, dataVars, swapVars
  <2>9. WholeInv'
    BY <1>0, <1>b, <2>2 DEF BackupInv, WholeInv, Keeps, Becomes, At, dataVars, swapVars, history
  <2> QED BY <2>3, <2>4, <2>5, <2>6, <2>7, <2>8, <2>9 DEF BackupInv
<1> QED BY <1>0, <1>a, <1>b

-----------------------------------------------------------------------------
(* The steps of a backup and of a restore. *)

LEMMA BeginsStep ==
    ASSUME BackupInv, BackupBegins \/ RestoreBegins
    PROVE  BackupInv'
<1>1. /\ At("idle") /\ was' = up /\ said' = {} /\ UNCHANGED <<dataVars, up, accepted>>
  BY DEF BackupBegins, RestoreBegins, Begins
<1>2. /\ run' \in Commands /\ run'.partial = Nothing
      /\ Becomes("backup", "dump", "db", {}, FALSE) \/ Becomes("restore", "server", "db", {}, FALSE)
  <2>1. run' = [Idle EXCEPT !.cmd = "backup", !.pc = "dump"]
        \/ run' = [Idle EXCEPT !.cmd = "restore", !.pc = "server"]
    BY DEF BackupBegins, RestoreBegins, Begins
  <2> QED BY <2>1, IdleFields DEF Commands, Points, Becomes
<1>3. TypeInv'
  BY <1>1, <1>2 DEF BackupInv, TypeInv, dataVars, history, swapVars
<1>4. PhaseInv' /\ ScriptInv'
  BY <1>1, DataKept DEF dataVars, swapVars
<1>5. CommandInv'
  BY <1>1, <1>2 DEF BackupInv, CommandInv, Keeps, Becomes, At, dataVars, swapVars
<1>6. StopInv'
  BY <1>1, <1>2 DEF BackupInv, StopInv, Keeps, Becomes, At
<1>7. PutBackInv'
  BY <1>1, <1>2 DEF BackupInv, PutBackInv, Keeps, Becomes, At, history
<1>8. ArchiveInv'
  BY <1>1, <1>2, IdleFields DEF BackupInv, ArchiveInv, Keeps, Becomes, At, dataVars, swapVars
<1>9. WholeInv'
  BY <1>1, <1>2 DEF BackupInv, WholeInv, Keeps, Becomes, At, dataVars, swapVars, history
<1> QED BY <1>3, <1>4, <1>5, <1>6, <1>7, <1>8, <1>9 DEF BackupInv

LEMMA DumpStep ==
    ASSUME BackupInv, Dump
    PROVE  BackupInv'
<1>1. At("dump") /\ UNCHANGED <<dataVars, up, history, said>>
  BY DEF Dump
<1>2. /\ run' \in Commands
      /\ \/ Becomes("none", "idle", "db", {}, FALSE)
         \/ /\ Becomes(run.cmd, "stop", "files", {}, run.startedHere)
            /\ run'.targets = Writers \cap up
            /\ run'.partial.files = run.partial.files
            /\ run'.partial.moment = run.partial.moment
  <2>1. CASE Ends
    BY <2>1, IdleFields DEF Ends, Becomes
  <2>2. CASE run' = [Block("files", Writers \cap up) EXCEPT !.partial.dump = db.live]
    <3> DEFINE block == Block("files", Writers \cap up)
    <3>1. /\ block \in Commands /\ block.cmd = run.cmd /\ block.pc = "stop"
          /\ block.item = "files" /\ block.stopped = {} /\ block.targets = Writers \cap up
          /\ block.startedHere = run.startedHere /\ block.partial = run.partial
      BY BlockFields DEF BackupInv, TypeInv
    <3>2. run' = [block EXCEPT !.partial.dump = db.live] /\ db.live \in Dumps
      BY <2>2 DEF BackupInv, TypeInv, Databases
    <3> HIDE DEF block
    <3>3. block.partial \in Saved
      BY <3>1 DEF Commands
    <3>4. [block.partial EXCEPT !.dump = db.live] \in Saved
          /\ [block.partial EXCEPT !.dump = db.live].files = block.partial.files
          /\ [block.partial EXCEPT !.dump = db.live].moment = block.partial.moment
      BY <3>2, <3>3 DEF Saved
    <3>5. run' = [block EXCEPT !.partial = [block.partial EXCEPT !.dump = db.live]]
      BY <3>2
    <3> QED BY <3>1, <3>4, <3>5 DEF Commands, Becomes
  <2> QED BY <2>1, <2>2 DEF Dump
<1>3. TypeInv'
  BY <1>1, <1>2 DEF BackupInv, TypeInv, dataVars, history, swapVars
<1>4. PhaseInv' /\ ScriptInv'
  BY <1>1, DataKept DEF dataVars, swapVars
<1>5. CommandInv'
  BY <1>1, <1>2 DEF BackupInv, CommandInv, Keeps, Becomes, At, dataVars, swapVars
<1>6. StopInv'
  BY <1>1, <1>2 DEF BackupInv, StopInv, Keeps, Becomes, At
<1>7. PutBackInv'
  BY <1>1, <1>2, Fields DEF BackupInv, CommandInv, StopInv, PutBackInv, Keeps, Becomes, At, history
<1>8. ArchiveInv'
  BY <1>1, <1>2 DEF BackupInv, ArchiveInv, Keeps, Becomes, At, dataVars, swapVars
<1>9. WholeInv'
  BY <1>1, <1>2 DEF BackupInv, WholeInv, Keeps, Becomes, At, dataVars, swapVars, history
<1> QED BY <1>3, <1>4, <1>5, <1>6, <1>7, <1>8, <1>9 DEF BackupInv

\* One more entry is read, or all have been: what was read is what the volume
\* has held all along.
LEMMA ReadStep ==
    ASSUME BackupInv, Read
    PROVE  BackupInv'
<1> DEFINE read == run.partial.files
           left == {e \in disk.vol : \A x \in read : x[1] # e[1]}
<1>1. At("read") /\ UNCHANGED <<dataVars, up, history, said>>
  BY DEF Read
<1>a. /\ read \subseteq disk.vol /\ Single(disk.vol)
      /\ run.partial.moment = IF read = {} THEN {} ELSE disk.vol
      /\ run.partial \in Saved /\ disk.vol \in SUBSET Entries /\ disk.dirs \in SUBSET SwapDirs
  BY <1>1 DEF BackupInv, ArchiveInv, PhaseInv, TypeInv, Commands, Disks, At
<1>2. /\ run' \in Commands
      /\ \/ /\ Keeps("read", run.stopped) /\ run'.partial.moment = disk.vol
            /\ run'.partial.files \subseteq disk.vol /\ run'.partial.files # {}
         \/ /\ Keeps("start", run.stopped)
            /\ run'.partial.files = run'.partial.moment /\ Single(run'.partial.files)
  <2>1. ASSUME NEW e \in left,
               run' = [run EXCEPT !.partial.files = read \cup {e},
                                  !.partial.moment = IF read = {} THEN disk.vol ELSE @]
        PROVE  /\ run' \in Commands /\ Keeps("read", run.stopped)
               /\ run'.partial.moment = disk.vol
               /\ run'.partial.files \subseteq disk.vol /\ run'.partial.files # {}
    <3> DEFINE now == [run.partial EXCEPT !.files = read \cup {e},
                                          !.moment = IF read = {} THEN disk.vol ELSE @]
    <3>1. now \in Saved /\ now.moment = disk.vol /\ now.files = read \cup {e}
      BY <1>a DEF Saved
    <3>2. run' = [run EXCEPT !.partial = now]
      BY <2>1 DEF BackupInv, TypeInv, Commands
    <3> HIDE DEF now
    <3> QED BY <1>1, <1>a, <3>1, <3>2 DEF BackupInv, TypeInv, Commands, Keeps, Becomes, At
  <2>2. ASSUME left = {}, run' = [run EXCEPT !.pc = "start", !.partial.junk = disk.dirs]
        PROVE  /\ run' \in Commands /\ Keeps("start", run.stopped)
               /\ run'.partial.files = run'.partial.moment /\ Single(run'.partial.files)
    <3> DEFINE now == [run.partial EXCEPT !.junk = disk.dirs]
    <3>1. now \in Saved /\ now.moment = run.partial.moment /\ now.files = read
      BY <1>a DEF Saved
    <3>2. run' = [run EXCEPT !.pc = "start", !.partial = now]
      BY <2>2 DEF BackupInv, TypeInv, Commands
    <3>3. read = disk.vol
      <4>1. \A e \in disk.vol : \E x \in read : x[1] = e[1]
        BY <2>2
      <4>2. \A e, x \in disk.vol : x[1] = e[1] => x = e
        BY <1>a DEF Single
      <4>3. ASSUME NEW e \in disk.vol PROVE e \in read
        <5>1. PICK x \in read : x[1] = e[1]
          BY <4>1
        <5> QED BY <1>a, <4>2, <5>1
      <4> QED BY <1>a, <4>3
    <3> HIDE DEF now
    <3> QED BY <1>a, <3>1, <3>2, <3>3 DEF BackupInv, TypeInv, Commands, Keeps, Becomes, Points
  <2> QED BY <2>1, <2>2 DEF Read
<1> HIDE DEF read, left
<1>3. TypeInv'
  BY <1>1, <1>2 DEF BackupInv, TypeInv, dataVars, history, swapVars
<1>4. PhaseInv' /\ ScriptInv'
  BY <1>1, DataKept DEF dataVars, swapVars
<1>5. CommandInv'
  BY <1>1, <1>2, Fields DEF BackupInv, CommandInv, Keeps, Becomes, At, dataVars, swapVars
<1>6. StopInv'
  BY <1>1, <1>2, Fields DEF BackupInv, StopInv, Keeps, Becomes, At
<1>7. PutBackInv'
  BY <1>1, <1>2, Fields DEF BackupInv, CommandInv, StopInv, PutBackInv, Keeps, Becomes, At,
     history
<1>8. ArchiveInv'
  BY <1>1, <1>2, Fields DEF BackupInv, CommandInv, ArchiveInv, Keeps, Becomes, At, dataVars, swapVars
<1>9. WholeInv'
  BY <1>1, <1>2, Fields DEF BackupInv, WholeInv, Keeps, Becomes, At, dataVars, swapVars, history
<1> QED BY <1>3, <1>4, <1>5, <1>6, <1>7, <1>8, <1>9 DEF BackupInv

LEMMA SealStep ==
    ASSUME BackupInv, Seal
    PROVE  BackupInv'
<1>1. At("seal") /\ archives' = {run.partial} /\ UNCHANGED <<swapVars, db, up, history, said>>
  BY DEF Seal
<1>2. run' \in Commands /\ Becomes("none", "idle", "db", {}, FALSE)
  BY IdleFields DEF Seal, Ends, Becomes
<1>3. TypeInv'
  BY <1>1, <1>2, Fields DEF BackupInv, TypeInv, history, swapVars
<1>4. PhaseInv' /\ ScriptInv'
  BY <1>1 DEF BackupInv, PhaseInv, ScriptInv, CommandInv, At, swapVars
<1>5. CommandInv'
  BY <1>1, <1>2 DEF BackupInv, CommandInv, Becomes, At, swapVars
<1>6. StopInv'
  BY <1>2 DEF StopInv, Becomes, At
<1>7. PutBackInv'
  BY <1>1, <1>2 DEF BackupInv, CommandInv, StopInv, PutBackInv, Becomes, At, history
<1>8. ArchiveInv'
  BY <1>1, <1>2 DEF BackupInv, ArchiveInv, Becomes, At
<1>9. WholeInv'
  BY <1>1, <1>2 DEF BackupInv, WholeInv, Becomes, At, swapVars, history
<1> QED BY <1>3, <1>4, <1>5, <1>6, <1>7, <1>8, <1>9 DEF BackupInv

LEMMA StartServerStep ==
    ASSUME BackupInv, StartServer
    PROVE  BackupInv'
<1>0. Server \in Services /\ Server \notin Writers
  BY ServerAssumption DEF Services
<1>1. At("server") /\ UNCHANGED <<dataVars, history>>
  BY DEF StartServer
<1>2. /\ run' \in Commands /\ up' \in {up, up \cup {Server}}
      /\ \/ /\ Keeps("load", run.stopped) \/ run'.startedHere # run.startedHere
            /\ Becomes(run.cmd, "load", run.item, run.stopped, Server \notin up)
            /\ up' = up \cup {Server} /\ said' = said
         \/ /\ Becomes("none", "idle", "db", {}, FALSE) /\ said' = said \cup {Server}
  <2>1. CASE /\ up' = up \cup {Server} /\ UNCHANGED said
             /\ run' = [run EXCEPT !.pc = "load", !.startedHere = Server \notin up]
    BY <2>1 DEF BackupInv, TypeInv, Commands, Points, Keeps, Becomes
  <2>2. CASE Ends /\ up' \in {up, up \cup {Server}} /\ said' = said \cup {Server}
    BY <2>2, IdleFields DEF Ends, Becomes
  <2> QED BY <2>1, <2>2 DEF StartServer
<1>3. TypeInv'
  BY <1>1, <1>2, <1>0 DEF BackupInv, TypeInv, dataVars, history, swapVars
<1>4. PhaseInv' /\ ScriptInv'
  BY <1>1, DataKept DEF dataVars, swapVars
<1>5. CommandInv'
  BY <1>1, <1>2, Fields DEF BackupInv, CommandInv, Keeps, Becomes, At, dataVars, swapVars
<1>6. StopInv'
  BY <1>1, <1>2, Fields DEF BackupInv, StopInv, Keeps, Becomes, At
<1>7. PutBackInv'
  BY <1>0, <1>1, <1>2, Fields DEF BackupInv, CommandInv, StopInv, PutBackInv, Keeps, Becomes, At,
     history
<1>8. ArchiveInv'
  BY <1>1, <1>2, Fields DEF BackupInv, CommandInv, ArchiveInv, Keeps, Becomes, At, dataVars, swapVars
<1>9. WholeInv'
  BY <1>0, <1>1, <1>2, Fields DEF BackupInv, WholeInv, Keeps, Becomes, At, dataVars, swapVars, history
<1> QED BY <1>3, <1>4, <1>5, <1>6, <1>7, <1>8, <1>9 DEF BackupInv

LEMMA LoadedStep ==
    ASSUME BackupInv, NEW saved \in archives, Load(saved), run' = Block("db", Clients \cap up)
    PROVE  BackupInv'
<1>1. /\ At("load") /\ UNCHANGED <<swapVars, archives, up, history, said>>
      /\ db' \in Databases
  <2>1. saved.dump \in Dumps /\ db \in Databases
    BY DEF BackupInv, TypeInv, Saved
  <2>2. db' \in {db, [db EXCEPT !.temp = saved.dump], [db EXCEPT !.temp = NoDb]}
    BY DEF Load
  <2>3. NoDb \in Dumps
    BY DEF Dumps
  <2> QED BY <2>1, <2>2, <2>3 DEF Load, Databases
<1>2. /\ run' \in Commands /\ Becomes(run.cmd, "stop", "db", {}, run.startedHere)
      /\ run'.targets = Clients \cap up
  BY BlockFields DEF BackupInv, TypeInv, Becomes
<1>3. TypeInv'
  BY <1>1, <1>2, Fields DEF BackupInv, TypeInv, history, swapVars
<1>4. PhaseInv' /\ ScriptInv'
  BY <1>1, DataKept DEF swapVars
<1>5. CommandInv'
  BY <1>1, <1>2, Fields DEF BackupInv, CommandInv, Keeps, Becomes, At, swapVars
<1>6. StopInv'
  BY <1>1, <1>2, Fields DEF BackupInv, StopInv, Keeps, Becomes, At
<1>7. PutBackInv'
  BY <1>1, <1>2, Fields DEF BackupInv, CommandInv, StopInv, PutBackInv, Keeps, Becomes, At,
     history
<1>8. ArchiveInv'
  BY <1>1, <1>2, Fields DEF BackupInv, CommandInv, ArchiveInv, Keeps, Becomes, At, swapVars
<1>9. WholeInv'
  BY <1>1, <1>2, Fields DEF BackupInv, WholeInv, Keeps, Becomes, At, swapVars, history
<1> QED BY <1>3, <1>4, <1>5, <1>6, <1>7, <1>8, <1>9 DEF BackupInv

LEMMA LoadStep ==
    ASSUME BackupInv, NEW saved \in archives, Load(saved)
    PROVE  BackupInv'
<1>1. At("load") /\ UNCHANGED <<swapVars, archives, up, history, said>>
  BY DEF Load
<1>2. CASE Raises /\ db' \in {db, [db EXCEPT !.temp = NoDb]}
  <2>1. db' \in Databases
    BY <1>2 DEF BackupInv, TypeInv, Databases, Dumps
  <2>2. up' = up /\ said' = said /\ run.stopped = {} /\ up \in SUBSET Services
        /\ said \in SUBSET Services /\ UNCHANGED <<was, accepted>>
    BY <1>1 DEF BackupInv, TypeInv, StopInv, At, history
  <2> QED BY <1>1, <1>2, <2>1, <2>2, RaisesStep DEF At
<1> QED BY <1>1, <1>2, LoadedStep DEF Load

\* The two renames, and what follows them.
LEMMA SwapStep ==
    ASSUME BackupInv, Swap \/ Drop
    PROVE  BackupInv'
<1>0. UNCHANGED <<swapVars, archives, up, history, said>>
  BY DEF Swap, Drop
<1>1. UNCHANGED <<swapVars, archives, up, history, said>> /\ db' \in Databases
  <2>1. db \in Databases
    BY DEF BackupInv, TypeInv
  <2>2. db' \in {db, [live |-> db.temp, temp |-> NoDb, old |-> db.live],
                 [db EXCEPT !.old = NoDb]}
    BY DEF Swap, Drop
  <2> QED BY <1>0, <2>1, <2>2 DEF Databases, Dumps
<1>2. /\ run' \in Commands
      /\ \/ At("swap") /\ Keeps("drop", run.stopped)
         \/ At("drop") /\ Keeps("start", run.stopped)
  <2>1. (At("swap") /\ Goes("drop")) \/ (At("drop") /\ Goes("start"))
    BY DEF Swap, Drop
  <2> QED BY <2>1, GoesFields DEF BackupInv, Points
<1>3. TypeInv'
  BY <1>1, <1>2, Fields DEF BackupInv, TypeInv, history, swapVars
<1>4. PhaseInv' /\ ScriptInv'
  BY <1>1, DataKept DEF swapVars
<1>5. CommandInv'
  BY <1>1, <1>2, Fields DEF BackupInv, CommandInv, Keeps, Becomes, At, swapVars
<1>6. StopInv'
  BY <1>1, <1>2, Fields DEF BackupInv, StopInv, Keeps, Becomes, At
<1>7. PutBackInv'
  BY <1>1, <1>2, Fields DEF BackupInv, CommandInv, StopInv, PutBackInv, Keeps, Becomes, At,
     history
<1>8. ArchiveInv'
  BY <1>1, <1>2, Fields DEF BackupInv, CommandInv, ArchiveInv, Keeps, Becomes, At, swapVars
<1>9. WholeInv'
  BY <1>1, <1>2, Fields DEF BackupInv, WholeInv, Keeps, Becomes, At, swapVars, history
<1> QED BY <1>3, <1>4, <1>5, <1>6, <1>7, <1>8, <1>9 DEF BackupInv

LEMMA StopServerStep ==
    ASSUME BackupInv, StopServer
    PROVE  BackupInv'
<1>1. At("down") /\ UNCHANGED <<swapVars, db, archives, history>>
  BY DEF StopServer, dataVars
<1>0. Server \in Services /\ Server \notin Writers /\ run.stopped = {}
  BY <1>1, ServerAssumption DEF Services, BackupInv, StopInv, At
<1>2. /\ run' \in Commands
      /\ up' = up \/ (run.startedHere /\ up' = up \ {Server})
      /\ \/ /\ Becomes("none", "idle", "db", {}, FALSE) \/
               (Becomes(run.cmd, "stop", "files", {}, FALSE) /\ run'.targets = Writers \cap up')
            /\ up' = IF run.startedHere THEN up \ {Server} ELSE up
            /\ said' = said
         \/ /\ Becomes("none", "idle", "db", {}, FALSE) /\ run.startedHere
            /\ said' = said \cup {Server} /\ up' = up
  <2>1. CASE /\ up' = IF run.startedHere THEN up \ {Server} ELSE up
             /\ UNCHANGED said /\ Ends
    BY <2>1, IdleFields DEF Ends, Becomes
  <2>2. CASE /\ up' = IF run.startedHere THEN up \ {Server} ELSE up
             /\ UNCHANGED said
             /\ run' = [Block("files", Writers \cap up') EXCEPT !.startedHere = FALSE]
    <3> DEFINE block == Block("files", Writers \cap up')
    <3>1. Writers \cap up' \in SUBSET Services
      BY DEF Services
    <3>2. /\ block \in Commands /\ block.cmd = run.cmd /\ block.pc = "stop"
          /\ block.item = "files" /\ block.stopped = {} /\ block.targets = Writers \cap up'
      BY <3>1, BlockFields DEF BackupInv
    <3> HIDE DEF block
    <3>3. run' = [block EXCEPT !.startedHere = FALSE]
      BY <2>2 DEF block
    <3> QED BY <2>2, <3>2, <3>3 DEF Commands, Becomes
  <2>3. CASE run.startedHere /\ said' = said \cup {Server} /\ Ends /\ UNCHANGED up
    BY <2>3, IdleFields DEF Ends, Becomes
  <2> QED BY <2>1, <2>2, <2>3 DEF StopServer
<1>3. TypeInv'
  BY <1>0, <1>1, <1>2, Fields DEF BackupInv, TypeInv, history, swapVars
<1>4. PhaseInv' /\ ScriptInv'
  BY <1>1, DataKept DEF swapVars
<1>5. CommandInv'
  BY <1>0, <1>1, <1>2, Fields DEF BackupInv, CommandInv, Keeps, Becomes, At, swapVars
<1>6. StopInv'
  BY <1>0, <1>1, <1>2, Fields DEF BackupInv, StopInv, Keeps, Becomes, At
<1>7. PutBackInv'
  BY <1>0, <1>1, <1>2, Fields DEF BackupInv, CommandInv, StopInv, PutBackInv, Keeps, Becomes, At,
     history
<1>8. ArchiveInv'
  BY <1>0, <1>1, <1>2, Fields DEF BackupInv, CommandInv, ArchiveInv, Keeps, Becomes, At, swapVars
<1>9. WholeInv'
  BY <1>0, <1>1, <1>2, Fields DEF BackupInv, WholeInv, Keeps, Becomes, At, swapVars, history
<1> QED BY <1>3, <1>4, <1>5, <1>6, <1>7, <1>8, <1>9 DEF BackupInv

LEMMA ReplacedStep ==
    ASSUME BackupInv, Replaced
    PROVE  BackupInv'
<1>1. /\ At("replace") /\ sh' = "none"
      /\ UNCHANGED <<disk, junk, owed, db, archives, up, history>>
  BY DEF Replaced
<1>0. run.cmd = "restore" /\ run.item = "files" /\ ~run.startedHere /\ up \cap Writers = {}
  BY <1>1 DEF BackupInv, CommandInv, StopInv, At
<1>2. /\ run' \in Commands
      /\ \/ sh = "restored" /\ Keeps("start", run.stopped) /\ said' = said
         \/ Becomes("none", "idle", "db", {}, FALSE) /\ said' = said \cup run.stopped
  <2>1. CASE sh = "restored"
    <3>1. Goes("start") /\ UNCHANGED said
      BY <2>1 DEF Replaced
    <3> QED BY <2>1, <3>1, GoesFields DEF BackupInv, Points
  <2>2. CASE sh # "restored"
    <3>1. Raises /\ said' = said \cup run.stopped
      BY <1>0, <2>2 DEF Replaced, BlockFails
    <3> QED BY <1>0, <3>1, RaisesFields DEF BackupInv
  <2> QED BY <2>1, <2>2
<1>3. TypeInv'
  BY <1>1, <1>2, Fields DEF BackupInv, TypeInv, history
<1>4. PhaseInv' /\ ScriptInv'
  BY <1>1 DEF BackupInv, PhaseInv, ScriptInv
<1>5. CommandInv'
  BY <1>0, <1>1, <1>2 DEF BackupInv, CommandInv, Keeps, Becomes, At
<1>6. StopInv'
  BY <1>1, <1>2 DEF BackupInv, StopInv, Keeps, Becomes, At
<1>7. PutBackInv'
  BY <1>0, <1>1, <1>2 DEF BackupInv, PutBackInv, Keeps, Becomes, At, history
<1>8. ArchiveInv'
  BY <1>0, <1>1, <1>2 DEF BackupInv, ArchiveInv, Keeps, Becomes, At
<1>9. WholeInv'
  <2>1. sh = "restored" => owed = {}
    BY DEF BackupInv, ScriptInv
  <2> QED BY <1>0, <1>1, <1>2, <2>1 DEF WholeInv, Keeps, Becomes, At
<1> QED BY <1>3, <1>4, <1>5, <1>6, <1>7, <1>8, <1>9 DEF BackupInv

-----------------------------------------------------------------------------
(* What happens beside a command. *)

LEMMA KilledStep ==
    ASSUME BackupInv, Killed
    PROVE  BackupInv'
<1>1. /\ sh' = "none" /\ was' = up /\ said' = {}
      /\ UNCHANGED <<disk, junk, owed, db, archives, up, accepted>>
  BY DEF Killed
<1>2. run' \in Commands /\ Becomes("none", "idle", "db", {}, FALSE)
  BY IdleFields DEF Killed, Ends, Becomes
<1>3. TypeInv'
  BY <1>1, <1>2 DEF BackupInv, TypeInv
<1>4. PhaseInv' /\ ScriptInv'
  BY <1>1 DEF BackupInv, PhaseInv, ScriptInv
<1>5. CommandInv'
  BY <1>1, <1>2 DEF CommandInv, Becomes, At
<1>6. StopInv'
  BY <1>2 DEF StopInv, Becomes, At
<1>7. PutBackInv'
  BY <1>1, <1>2 DEF PutBackInv, Becomes, At
<1>8. ArchiveInv'
  BY <1>1, <1>2 DEF BackupInv, ArchiveInv, Becomes, At
<1>9. WholeInv'
  BY <1>1, <1>2 DEF BackupInv, WholeInv, StopInv, Becomes, At
<1> QED BY <1>3, <1>4, <1>5, <1>6, <1>7, <1>8, <1>9 DEF BackupInv

\* An entry that replaces the one of its name.
LEMMA PutFacts ==
    ASSUME NEW dir \in SUBSET Entries, NEW e \in Entries
    PROVE  /\ Put(dir, e) \in SUBSET Entries
           /\ Put(dir, e) \subseteq dir \cup {e} /\ e \in Put(dir, e)
           /\ \A d \in dir : d[1] # e[1] => d \in Put(dir, e)
           /\ Single(dir) => Single(Put(dir, e))
BY DEF Put, Single

\* A writer writes only while no block has stopped it, and takes what it
\* replaces over.
LEMMA WriteFileStep ==
    ASSUME BackupInv, WriteFile
    PROVE  BackupInv'
<1> DEFINE mine(n) == {e \in disk.vol : e[1] = n}
<1>1. PICK n \in Names :
         /\ \/ \E c \in Contents : disk' = [disk EXCEPT !.vol = Put(@, <<n, c>>)]
            \/ disk' = [disk EXCEPT !.vol = @ \ mine(n)]
         /\ owed' = owed \ mine(n)
  BY DEF WriteFile
<1>2. up \cap Writers # {} /\ UNCHANGED <<junk, sh, db, archives, up, run, history, said>>
  BY DEF WriteFile
<1>3. disk \in Disks /\ disk.vol \in SUBSET Entries /\ Single(disk.vol)
  BY DEF BackupInv, TypeInv, PhaseInv, Disks
<1>4. PICK vol \in SUBSET Entries :
         /\ disk' = [disk EXCEPT !.vol = vol] /\ Single(vol)
         /\ \A e \in disk.vol \ mine(n) : e \in vol
  <2>1. ASSUME NEW c \in Contents, disk' = [disk EXCEPT !.vol = Put(@, <<n, c>>)]
        PROVE  \E vol \in SUBSET Entries :
                 /\ disk' = [disk EXCEPT !.vol = vol] /\ Single(vol)
                 /\ \A e \in disk.vol \ mine(n) : e \in vol
    <3>1. <<n, c>> \in Entries /\ <<n, c>>[1] = n
      BY DEF Entries
    <3> DEFINE vol == Put(disk.vol, <<n, c>>)
    <3>2. vol \in SUBSET Entries /\ Single(vol) /\ \A e \in disk.vol \ mine(n) : e \in vol
      BY <1>3, <3>1, PutFacts
    <3>3. disk' = [disk EXCEPT !.vol = vol]
      BY <2>1
    <3> HIDE DEF vol
    <3> QED BY <3>2, <3>3
  <2>2. ASSUME disk' = [disk EXCEPT !.vol = @ \ mine(n)]
        PROVE  \E vol \in SUBSET Entries :
                 /\ disk' = [disk EXCEPT !.vol = vol] /\ Single(vol)
                 /\ \A e \in disk.vol \ mine(n) : e \in vol
    <3> DEFINE vol == disk.vol \ mine(n)
    <3>1. vol \in SUBSET Entries /\ Single(vol) /\ disk' = [disk EXCEPT !.vol = vol]
      BY <1>3, <2>2 DEF Single
    <3> HIDE DEF vol
    <3>2. \A e \in disk.vol \ mine(n) : e \in vol
      BY DEF vol
    <3> QED BY <3>1, <3>2
  <2> QED BY <1>1, <2>1, <2>2
<1>5. /\ disk' \in Disks /\ disk'.vol = vol /\ disk'.staging = disk.staging
      /\ disk'.previous = disk.previous /\ disk'.dirs = disk.dirs
  BY <1>3, <1>4 DEF Disks
<1>6. ~At("read") /\ ~At("replace") /\ sh = "none"
  BY <1>2 DEF BackupInv, StopInv, CommandInv, At
<1>7. TypeInv'
  BY <1>1, <1>2, <1>5 DEF BackupInv, TypeInv, history
<1>8. PhaseInv' /\ ScriptInv'
  BY <1>2, <1>4, <1>5, <1>6 DEF BackupInv, PhaseInv, ScriptInv
<1>9. CommandInv' /\ StopInv' /\ PutBackInv'
  BY <1>2 DEF BackupInv, CommandInv, StopInv, PutBackInv, At, history
<1>10. ArchiveInv'
  BY <1>2, <1>6 DEF BackupInv, ArchiveInv, At
<1>11. WholeInv'
  <2>1. owed \subseteq disk.vol => owed' \subseteq disk'.vol
    BY <1>1, <1>4, <1>5
  <2>2. owed \subseteq disk.vol \/ accepted
    BY <1>2, <1>6 DEF BackupInv, WholeInv
  <2> QED BY <1>2, <2>1, <2>2 DEF WholeInv, history
<1> QED BY <1>7, <1>8, <1>9, <1>10, <1>11 DEF BackupInv

LEMMA WriteRowStep ==
    ASSUME BackupInv, WriteRow
    PROVE  BackupInv'
<1>1. UNCHANGED <<swapVars, archives, up, run, history, said>>
      /\ \E c \in Rows : db' = [db EXCEPT !.live = c]
  BY DEF WriteRow
<1>2. TypeInv'
  BY <1>1 DEF BackupInv, TypeInv, Databases, Dumps, swapVars, history
<1>3. PhaseInv' /\ ScriptInv'
  BY <1>1, DataKept DEF swapVars
<1>4. CommandInv' /\ StopInv' /\ PutBackInv' /\ ArchiveInv' /\ WholeInv'
  BY <1>1 DEF BackupInv, CommandInv, StopInv, PutBackInv, ArchiveInv, WholeInv, At, swapVars,
     history
<1> QED BY <1>2, <1>3, <1>4 DEF BackupInv

\* The operator acts between commands, and knows what he starts a writer on.
LEMMA OperatorStep ==
    ASSUME BackupInv, Operator
    PROVE  BackupInv'
<1>1. /\ At("idle") /\ was' = up' /\ said' = {}
      /\ UNCHANGED <<junk, sh, archives, run>>
  BY DEF Operator
<1>0. /\ run.stopped = {} /\ run.startedHere = FALSE /\ sh = "none" /\ run.cmd = "none"
      /\ up \in SUBSET Services /\ disk \in Disks /\ db \in Databases
  BY <1>1, Fields DEF BackupInv, StopInv, CommandInv, TypeInv, At
<1>2. /\ up' \in SUBSET Services /\ disk' \in Disks /\ owed' \subseteq owed
      /\ db' \in Databases
      /\ disk'.vol = disk.vol
      /\ \/ /\ disk' = disk
            /\ \/ accepted' = (accepted \/ (up' \ up) \cap Writers # {})
               \/ UNCHANGED <<up, accepted>>
         \/ /\ disk'.staging = {} /\ disk'.previous = {} /\ disk'.dirs = {} /\ owed' = {}
  <2>1. CASE /\ \E s \in Services : up' \in {up \cup {s}, up \ {s}}
             /\ accepted' = (accepted \/ (up' \ up) \cap Writers # {})
             /\ UNCHANGED <<disk, owed, db>>
    BY <1>0, <2>1
  <2>2. CASE /\ disk' = [disk EXCEPT !.staging = {}, !.previous = {}, !.dirs = {}]
             /\ owed' = {} /\ UNCHANGED <<up, accepted, db>>
    BY <1>0, <2>2 DEF Disks
  <2>3. CASE db' = [db EXCEPT !.old = NoDb] /\ UNCHANGED <<up, accepted, disk, owed>>
    BY <1>0, <2>3 DEF Databases, Dumps
  <2> QED BY <2>1, <2>2, <2>3 DEF Operator
<1>3. TypeInv'
  BY <1>1, <1>2 DEF BackupInv, TypeInv
<1>4. PhaseInv' /\ ScriptInv'
  BY <1>0, <1>1, <1>2 DEF BackupInv, PhaseInv, ScriptInv, Single
<1>5. CommandInv' /\ StopInv'
  BY <1>1 DEF BackupInv, CommandInv, StopInv, At
<1>6. PutBackInv'
  BY <1>0, <1>1 DEF PutBackInv, At
<1>7. ArchiveInv'
  BY <1>0, <1>1 DEF BackupInv, ArchiveInv, At
<1>8. WholeInv'
  <2>1. accepted' = (accepted \/ (up' \ up) \cap Writers # {})
          => (accepted => accepted') /\ ((up' \ up) \cap Writers # {} => accepted')
    BY Zenon
  <2>2. up \cap Writers # {} => owed \subseteq disk.vol \/ accepted
    BY <1>0, <1>1 DEF BackupInv, WholeInv, At
  <2> QED BY <1>0, <1>1, <1>2, <2>1, <2>2 DEF WholeInv, At
<1> QED BY <1>3, <1>4, <1>5, <1>6, <1>7, <1>8 DEF BackupInv

-----------------------------------------------------------------------------
(* The script. *)

SwapTyped == disk \in Disks /\ owed \in SUBSET Entries /\ junk \in SUBSET SwapDirs

SwapInv == SwapTyped /\ PhaseInv /\ ScriptInv

LEMMA DiskFields ==
    ASSUME SwapTyped
    PROVE  /\ disk.vol \in SUBSET Entries /\ disk.staging \in SUBSET Entries
           /\ disk.previous \in SUBSET Entries /\ disk.dirs \in SUBSET SwapDirs
BY DEF SwapTyped, Disks

\* A rename, in each of the four move_all: where the entry was and where it
\* goes, and what stays.
LEMMA MoveFields ==
    ASSUME SwapTyped, Move
    PROVE  /\ disk' \in Disks /\ disk'.dirs = disk.dirs /\ UNCHANGED <<junk, sh, owed>>
           /\ \/ /\ sh = "out" /\ disk'.staging = disk.staging
                 /\ \E e \in disk.vol :
                       /\ disk'.vol = disk.vol \ {e}
                       /\ disk'.previous = Put(disk.previous, e)
              \/ /\ sh = "in" /\ disk'.previous = disk.previous
                 /\ \E e \in disk.staging :
                       /\ disk'.staging = disk.staging \ {e}
                       /\ disk'.vol = Put(disk.vol, e)
              \/ /\ sh = "undo" /\ disk'.previous = disk.previous
                 /\ \E e \in disk.vol :
                       /\ disk'.vol = disk.vol \ {e}
                       /\ disk'.staging = Put(disk.staging, e)
              \/ /\ sh = "back" /\ disk'.staging = disk.staging
                 /\ \E e \in disk.previous :
                       /\ disk'.previous = disk.previous \ {e}
                       /\ disk'.vol = Put(disk.vol, e)
<1>1. sh \in {"out", "in", "undo", "back"} /\ UNCHANGED <<junk, sh, owed>>
  BY DEF Move, Moves
<1>2. disk \in Disks
  BY DEF SwapTyped
<1>3. CASE sh = "out"
  <2>1. PICK e \in disk.vol :
           disk' = [disk EXCEPT !.vol = @ \ {e}, !.previous = Put(@, e)]
    BY <1>2, <1>3 DEF Move, Moves, Disks
  <2> DEFINE put == Put(disk.previous, e)
  <2>2. put \in SUBSET Entries
    BY DiskFields, PutFacts
  <2>3. disk' = [disk EXCEPT !.vol = @ \ {e}, !.previous = put]
    BY <1>2, <2>1 DEF Disks
  <2> HIDE DEF put
  <2>4. disk' \in Disks /\ disk'.dirs = disk.dirs /\ disk'.staging = disk.staging
        /\ disk'.vol = disk.vol \ {e} /\ disk'.previous = put
    BY <1>2, <2>2, <2>3 DEF Disks
  <2> QED BY <1>1, <1>3, <2>4 DEF put
<1>4. CASE sh = "in"
  <2>1. PICK e \in disk.staging :
           disk' = [disk EXCEPT !.staging = @ \ {e}, !.vol = Put(@, e)]
    BY <1>2, <1>4 DEF Move, Moves, Disks
  <2> DEFINE put == Put(disk.vol, e)
  <2>2. put \in SUBSET Entries
    BY DiskFields, PutFacts
  <2>3. disk' = [disk EXCEPT !.staging = @ \ {e}, !.vol = put]
    BY <1>2, <2>1 DEF Disks
  <2> HIDE DEF put
  <2>4. disk' \in Disks /\ disk'.dirs = disk.dirs /\ disk'.previous = disk.previous
        /\ disk'.staging = disk.staging \ {e} /\ disk'.vol = put
    BY <1>2, <2>2, <2>3 DEF Disks
  <2> QED BY <1>1, <1>4, <2>4 DEF put
<1>5. CASE sh = "undo"
  <2>1. PICK e \in disk.vol :
           disk' = [disk EXCEPT !.vol = @ \ {e}, !.staging = Put(@, e)]
    BY <1>2, <1>5 DEF Move, Moves, Disks
  <2> DEFINE put == Put(disk.staging, e)
  <2>2. put \in SUBSET Entries
    BY DiskFields, PutFacts
  <2>3. disk' = [disk EXCEPT !.vol = @ \ {e}, !.staging = put]
    BY <1>2, <2>1 DEF Disks
  <2> HIDE DEF put
  <2>4. disk' \in Disks /\ disk'.dirs = disk.dirs /\ disk'.previous = disk.previous
        /\ disk'.vol = disk.vol \ {e} /\ disk'.staging = put
    BY <1>2, <2>2, <2>3 DEF Disks
  <2> QED BY <1>1, <1>5, <2>4 DEF put
<1>6. CASE sh = "back"
  <2>1. PICK e \in disk.previous :
           disk' = [disk EXCEPT !.previous = @ \ {e}, !.vol = Put(@, e)]
    BY <1>2, <1>6 DEF Move, Moves, Disks
  <2> DEFINE put == Put(disk.vol, e)
  <2>2. put \in SUBSET Entries
    BY DiskFields, PutFacts
  <2>3. disk' = [disk EXCEPT !.previous = @ \ {e}, !.vol = put]
    BY <1>2, <2>1 DEF Disks
  <2> HIDE DEF put
  <2>4. disk' \in Disks /\ disk'.dirs = disk.dirs /\ disk'.staging = disk.staging
        /\ disk'.previous = disk.previous \ {e} /\ disk'.vol = put
    BY <1>2, <2>2, <2>3 DEF Disks
  <2> QED BY <1>1, <1>6, <2>4 DEF put
<1> QED BY <1>1, <1>3, <1>4, <1>5, <1>6

\* A rename keeps one entry of a name, and loses none of the snapshot.
LEMMA MoveStep ==
    ASSUME BackupInv, Move, UNCHANGED archives
    PROVE  SwapInv'
<1>0. SwapTyped /\ Single(disk.vol) /\ Single(disk.staging) /\ disk.dirs = SwapDirs
      /\ sh \in {"out", "in", "undo", "back"}
  BY DEF BackupInv, SwapTyped, TypeInv, PhaseInv, Move, Moves
<1>1. disk' \in Disks /\ disk'.dirs = SwapDirs /\ UNCHANGED <<junk, sh, owed>>
  BY <1>0, MoveFields
<1>2. SwapTyped'
  BY <1>0, <1>1 DEF SwapTyped
<1>3. Single(disk'.vol) /\ Single(disk'.staging)
  <2>1. \A dir \in SUBSET Entries, e \in Entries : Single(dir) => Single(Put(dir, e))
    BY PutFacts
  <2>2. \A dir \in SUBSET Entries, e \in Entries : Single(dir) => Single(dir \ {e})
    BY DEF Single
  <2> QED BY <1>0, <2>1, <2>2, DiskFields, MoveFields
<1>4. PhaseInv'
  BY <1>0, <1>1, <1>3 DEF PhaseInv, SwapDirs
<1>5. ScriptInv'
  <2>1. CASE sh = "out"
    BY <1>0, <1>1, <2>1, MoveFields DEF BackupInv, ScriptInv
  <2>2. CASE sh = "in"
    <3>1. PICK saved \in archives : disk.vol \cup disk.staging = saved.files
      BY <2>2 DEF BackupInv, ScriptInv
    <3>2. PICK e \in disk.staging :
             disk'.staging = disk.staging \ {e} /\ disk'.vol = Put(disk.vol, e)
      BY <1>0, <2>2, MoveFields
    <3>3. Single(saved.files)
      BY DEF BackupInv, ArchiveInv
    <3>4. \A d \in disk.vol : d[1] = e[1] => d = e
      BY <3>1, <3>2, <3>3 DEF Single
    <3>5. disk'.vol = disk.vol \cup {e}
      BY <3>2, <3>4 DEF Put
    <3>6. disk'.vol \cup disk'.staging = saved.files
      BY <3>1, <3>2, <3>5
    <3> QED BY <1>1, <2>2, <3>6 DEF ScriptInv
  <2>3. CASE sh \in {"undo", "back"}
    BY <1>1, <2>3 DEF ScriptInv
  <2> QED BY <1>0, <2>1, <2>2, <2>3
<1> QED BY <1>2, <1>4, <1>5 DEF SwapInv

\* The end of a move_all.
LEMMA MovedStep ==
    ASSUME BackupInv, Moved, UNCHANGED archives
    PROVE  SwapInv'
<1>0. /\ disk \in Disks /\ owed \in SUBSET Entries /\ junk \in SUBSET SwapDirs
      /\ Single(disk.vol) /\ Single(disk.staging) /\ disk.dirs = SwapDirs
      /\ sh \in {"out", "in", "undo", "back"}
  BY DEF BackupInv, TypeInv, PhaseInv, Moved, Moves
<1>1. CASE sh = "out"
  <2>1. disk.vol = {} /\ sh' = "in" /\ UNCHANGED <<disk, junk, owed>>
    BY <1>1 DEF Moved, Moves, Exits
  <2>2. SwapTyped' /\ PhaseInv'
    BY <1>0, <2>1 DEF BackupInv, SwapTyped, PhaseInv
  <2>3. ScriptInv'
    BY <1>1, <2>1 DEF BackupInv, ScriptInv
  <2> QED BY <2>2, <2>3 DEF SwapInv
<1>2. CASE (sh = "in" /\ Stuck) \/ sh = "undo"
  <2>1. sh' \in {"undo", "back"} /\ UNCHANGED <<disk, junk, owed>>
    BY <1>2 DEF Moved, Exits
  <2>2. SwapTyped' /\ PhaseInv'
    BY <1>0, <2>1 DEF BackupInv, SwapTyped, PhaseInv
  <2>3. ScriptInv'
    BY <2>1 DEF ScriptInv
  <2> QED BY <2>2, <2>3 DEF SwapInv
<1>3. CASE sh = "in" /\ ~Stuck
  <2>1. /\ disk.staging = {} /\ sh' = "clean" /\ owed' = {} /\ junk' = {}
        /\ disk' = [disk EXCEPT !.dirs = {"previous"}]
    BY <1>3 DEF Moved, Moves
  <2>2. /\ disk' \in Disks /\ disk'.vol = disk.vol /\ disk'.staging = {}
        /\ disk'.previous = disk.previous /\ disk'.dirs = {"previous"}
    BY <1>0, <2>1 DEF Disks, SwapDirs
  <2>3. SwapTyped' /\ PhaseInv'
    BY <1>0, <2>1, <2>2 DEF SwapTyped, PhaseInv
  <2>4. ScriptInv'
    BY <1>3, <2>1, <2>2 DEF BackupInv, ScriptInv
  <2> QED BY <2>3, <2>4 DEF SwapInv
<1>4. CASE sh = "back"
  <2>1. /\ disk.previous = {} /\ sh' = "unchanged" /\ junk' = {} /\ UNCHANGED owed
        /\ disk' = [disk EXCEPT !.staging = {}, !.dirs = {}]
    BY <1>4 DEF Moved, Moves
  <2>2. /\ disk' \in Disks /\ disk'.vol = disk.vol /\ disk'.staging = {}
        /\ disk'.previous = {} /\ disk'.dirs = {}
    BY <1>0, <2>1 DEF Disks
  <2>3. SwapTyped' /\ PhaseInv' /\ ScriptInv'
    BY <1>0, <2>1, <2>2 DEF SwapTyped, PhaseInv, ScriptInv, Single
  <2> QED BY <2>3 DEF SwapInv
<1> QED BY <1>0, <1>1, <1>2, <1>3, <1>4

LEMMA CheckStep ==
    ASSUME BackupInv, Check, UNCHANGED archives
    PROVE  SwapInv'
<1>0. /\ disk \in Disks /\ owed \in SUBSET Entries /\ junk \in SUBSET SwapDirs
      /\ Single(disk.vol)
  BY DEF BackupInv, TypeInv, PhaseInv
<1>1. CASE "previous" \in disk.dirs
  <2>1. sh' = "leftover" /\ UNCHANGED <<disk, junk, owed>>
    BY <1>1 DEF Check, Exits
  <2> QED BY <2>1 DEF BackupInv, SwapInv, SwapTyped, TypeInv, PhaseInv, ScriptInv
<1>2. CASE "previous" \notin disk.dirs
  <2>1. /\ sh' = "unpack" /\ junk' = {} /\ owed' = disk.vol /\ disk.previous = {}
        /\ disk' = [disk EXCEPT !.staging = {}, !.dirs = {"staging"}]
    BY <1>2 DEF Check, BackupInv, PhaseInv
  <2>2. /\ disk' \in Disks /\ disk'.vol = disk.vol /\ disk'.staging = {}
        /\ disk'.previous = {} /\ disk'.dirs = {"staging"} /\ disk.vol \in SUBSET Entries
    BY <1>0, <2>1 DEF Disks, SwapDirs
  <2> QED BY <1>0, <2>1, <2>2 DEF SwapInv, SwapTyped, PhaseInv, ScriptInv, Single
<1> QED BY <1>1, <1>2

LEMMA UnpackStep ==
    ASSUME BackupInv, NEW saved \in archives, Unpack(saved), UNCHANGED archives
    PROVE  SwapInv'
<1>0. /\ disk \in Disks /\ owed \in SUBSET Entries /\ junk \in SUBSET SwapDirs
      /\ Single(disk.vol) /\ Single(disk.staging) /\ disk.staging \in SUBSET Entries
      /\ disk.previous = {} /\ "staging" \in disk.dirs /\ sh = "unpack" /\ UNCHANGED owed
  BY DEF BackupInv, TypeInv, PhaseInv, Unpack, Disks
<1>1. /\ saved \in Saved /\ saved.files \in SUBSET Entries /\ saved.junk \in SUBSET SwapDirs
      /\ Single(saved.files) /\ disk.staging \subseteq saved.files
      /\ \A other \in archives : other = saved
  BY <1>0 DEF BackupInv, TypeInv, Saved, ArchiveInv, ScriptInv
<1>2. ASSUME NEW e \in saved.files \ disk.staging,
             disk' = [disk EXCEPT !.staging = Put(@, e)], UNCHANGED <<junk, sh>>
      PROVE  SwapInv'
  <2> DEFINE put == Put(disk.staging, e)
  <2>1. put \in SUBSET Entries /\ put \subseteq saved.files /\ Single(put)
    BY <1>0, <1>1, PutFacts
  <2>2. disk' = [disk EXCEPT !.staging = put]
    BY <1>2
  <2> HIDE DEF put
  <2>3. /\ disk' \in Disks /\ disk'.vol = disk.vol /\ disk'.staging = put
        /\ disk'.previous = disk.previous /\ disk'.dirs = disk.dirs
    BY <1>0, <2>1, <2>2 DEF Disks
  <2>4. SwapTyped' /\ PhaseInv'
    BY <1>0, <1>2, <2>1, <2>3 DEF SwapTyped, PhaseInv
  <2>5. ScriptInv'
    BY <1>0, <1>1, <1>2, <2>1, <2>3 DEF ScriptInv
  <2> QED BY <2>4, <2>5 DEF SwapInv
<1>3. ASSUME saved.files \subseteq disk.staging, junk' = saved.junk, sh' = "out",
             disk' = [disk EXCEPT !.dirs = {"staging", "previous"}]
      PROVE  SwapInv'
  <2>1. /\ disk' \in Disks /\ disk'.vol = disk.vol /\ disk'.staging = disk.staging
        /\ disk'.previous = disk.previous /\ disk'.dirs = SwapDirs
    BY <1>0, <1>3 DEF Disks, SwapDirs
  <2>2. SwapTyped' /\ PhaseInv'
    BY <1>0, <1>1, <1>3, <2>1 DEF SwapTyped, PhaseInv, SwapDirs
  <2>3. disk'.staging = saved.files
    BY <1>1, <1>3, <2>1
  <2>4. ScriptInv'
    BY <1>3, <2>3 DEF ScriptInv
  <2> QED BY <2>2, <2>4 DEF SwapInv
<1> QED BY <1>2, <1>3 DEF Unpack

\* What fails ends the script, or turns it round.
LEMMA ScriptFailsStep ==
    ASSUME BackupInv, UnpackFails \/ MoveFails \/ UndoFails \/ CleanFails \/ Dies,
           UNCHANGED archives
    PROVE  SwapInv'
<1>0. /\ disk \in Disks /\ owed \in SUBSET Entries /\ junk \in SUBSET SwapDirs
      /\ Single(disk.vol)
  BY DEF BackupInv, TypeInv, PhaseInv
<1>1. CASE UnpackFails
  <2>1. /\ sh' = "unchanged" /\ UNCHANGED <<junk, owed>> /\ disk.previous = {}
        /\ disk' = [disk EXCEPT !.staging = {}, !.dirs = {}]
    BY <1>1 DEF UnpackFails, BackupInv, PhaseInv
  <2>2. /\ disk' \in Disks /\ disk'.vol = disk.vol /\ disk'.staging = {}
        /\ disk'.previous = {} /\ disk'.dirs = {}
    BY <1>0, <2>1 DEF Disks
  <2> QED BY <1>0, <2>1, <2>2 DEF SwapInv, SwapTyped, PhaseInv, ScriptInv, Single
<1>2. CASE MoveFails \/ UndoFails \/ CleanFails \/ Dies
  <2>1. /\ UNCHANGED <<disk, junk, owed>>
        /\ \/ sh' = "undo" /\ sh \in {"out", "in"}
           \/ sh' = "restored" /\ sh = "clean"
           \/ sh' \in {"both", "unknown"}
    BY <1>2 DEF MoveFails, UndoFails, CleanFails, Dies, Exits
  <2>2. SwapTyped'
    BY <1>0, <2>1 DEF SwapTyped
  <2>3. PhaseInv'
    BY <2>1 DEF BackupInv, PhaseInv
  <2>4. ScriptInv'
    BY <2>1 DEF BackupInv, ScriptInv
  <2> QED BY <2>2, <2>3, <2>4 DEF SwapInv
<1> QED BY <1>1, <1>2

LEMMA CleanStep ==
    ASSUME BackupInv, Clean, UNCHANGED archives
    PROVE  SwapInv'
<1>0. /\ disk \in Disks /\ owed \in SUBSET Entries /\ junk \in SUBSET SwapDirs
      /\ Single(disk.vol) /\ sh = "clean" /\ disk.staging = {} /\ disk.dirs = {"previous"}
      /\ UNCHANGED <<junk, owed>> /\ disk.previous \in SUBSET Entries
  BY DEF BackupInv, TypeInv, PhaseInv, Clean, Disks
<1>1. /\ disk' \in Disks /\ disk'.vol = disk.vol /\ disk'.staging = {}
      /\ \/ sh' = "clean" /\ disk'.dirs = {"previous"}
         \/ sh' = "restored" /\ disk'.previous = {}
  <2>1. CASE (\E e \in disk.previous : disk' = [disk EXCEPT !.previous = @ \ {e}]) /\ sh' = sh
    BY <1>0, <2>1 DEF Disks
  <2>2. CASE disk.previous = {} /\ disk' = [disk EXCEPT !.dirs = {}] /\ sh' = "restored"
    BY <1>0, <2>2 DEF Disks
  <2> QED BY <2>1, <2>2 DEF Clean
<1>2. SwapTyped' /\ PhaseInv'
  BY <1>0, <1>1 DEF SwapTyped, PhaseInv, Single
<1>3. ScriptInv'
  BY <1>0, <1>1 DEF BackupInv, ScriptInv
<1> QED BY <1>2, <1>3 DEF SwapInv

LEMMA ScriptStep ==
    ASSUME BackupInv, Script
    PROVE  BackupInv'
<1>1. UNCHANGED <<db, archives, up, run, history, said>> /\ sh # "none"
  BY DEF Script, Check, Unpack, UnpackFails, Move, Moves, Moved, Clean, MoveFails, UndoFails,
         CleanFails, Dies
<1>2. SwapInv'
  <2>1. Check \/ Move \/ Moved \/ Clean \/ (\E saved \in archives : Unpack(saved))
          \/ UnpackFails \/ MoveFails \/ UndoFails \/ CleanFails \/ Dies
    BY DEF Script
  <2> QED BY <1>1, <2>1, CheckStep, MoveStep, MovedStep, CleanStep, UnpackStep, ScriptFailsStep
<1>3. At("replace")
  BY <1>1 DEF BackupInv, CommandInv
<1>4. TypeInv'
  BY <1>1, <1>2 DEF BackupInv, TypeInv, SwapInv, SwapTyped, history
<1>5. CommandInv' /\ StopInv' /\ PutBackInv'
  BY <1>1, <1>3 DEF BackupInv, CommandInv, StopInv, PutBackInv, At, history
<1>6. ArchiveInv'
  BY <1>1, <1>3 DEF BackupInv, ArchiveInv, At
<1>7. WholeInv'
  BY <1>1, <1>3 DEF WholeInv, At
<1> QED BY <1>2, <1>4, <1>5, <1>6, <1>7 DEF BackupInv, SwapInv

-----------------------------------------------------------------------------
(* The contents the script took over. *)

\* A rename moves what is owed between the volume and the directory of
\* previous contents, or leaves it where it is.
LEMMA OwedMoves ==
    ASSUME BackupInv, OwedInv, Move
    PROVE  OwedInv'
<1>0. SwapTyped /\ sh' = sh /\ owed' = owed
  BY MoveFields DEF BackupInv, SwapTyped, TypeInv
<1>1. CASE sh = "out"
  <2>1. PICK e \in disk.vol :
           disk'.vol = disk.vol \ {e} /\ disk'.previous = Put(disk.previous, e)
    BY <1>0, <1>1, MoveFields
  <2>2. owed = disk.vol \cup disk.previous /\ Single(owed)
    BY <1>1 DEF OwedInv
  <2>3. \A d \in disk.previous : d[1] = e[1] => d = e
    BY <2>1, <2>2 DEF Single
  <2>4. disk'.previous = disk.previous \cup {e}
    BY <2>3, <2>1 DEF Put
  <2>5. disk'.vol \cup disk'.previous = owed
    BY <2>1, <2>2, <2>4
  <2> QED BY <1>0, <1>1, <2>2, <2>5 DEF OwedInv
<1>2. CASE sh = "back"
  <2>1. PICK e \in disk.previous :
           disk'.previous = disk.previous \ {e} /\ disk'.vol = Put(disk.vol, e)
    BY <1>0, <1>2, MoveFields
  <2>2. owed = disk.vol \cup disk.previous /\ Single(owed)
    BY <1>2 DEF OwedInv
  <2>3. \A d \in disk.vol : d[1] = e[1] => d = e
    BY <2>1, <2>2 DEF Single
  <2>4. disk'.vol = disk.vol \cup {e}
    BY <2>3, <2>1 DEF Put
  <2>5. disk'.vol \cup disk'.previous = owed
    BY <2>1, <2>2, <2>4
  <2> QED BY <1>0, <1>2, <2>2, <2>5 DEF OwedInv
<1>3. CASE sh \in {"in", "undo"}
  <2>1. disk'.previous = disk.previous
    BY <1>0, <1>3, MoveFields
  <2>2. owed = disk.previous /\ Single(owed)
    BY <1>3 DEF OwedInv
  <2> QED BY <1>0, <1>3, <2>1, <2>2 DEF OwedInv
<1> QED BY <1>1, <1>2, <1>3 DEF Move, Moves

LEMMA OwedScript ==
    ASSUME "out" \notin Mishaps, BackupInv, OwedInv, Script
    PROVE  OwedInv'
<1>0. /\ disk \in Disks /\ Single(disk.vol)
      /\ disk.previous # {} => "previous" \in disk.dirs
  BY DEF BackupInv, TypeInv, PhaseInv
<1>1. CASE Check
  <2>1. CASE "previous" \in disk.dirs
    BY <1>1, <2>1 DEF Check, Exits, OwedInv
  <2>2. CASE "previous" \notin disk.dirs
    <3>1. /\ sh' = "unpack" /\ owed' = disk.vol
          /\ disk' = [disk EXCEPT !.staging = {}, !.dirs = {"staging"}]
      BY <1>1, <2>2 DEF Check
    <3>2. disk'.vol = disk.vol
      BY <1>0, <3>1 DEF Disks
    <3> QED BY <1>0, <3>1, <3>2 DEF OwedInv
  <2> QED BY <2>1, <2>2
<1>2. CASE \E saved \in archives : Unpack(saved)
  <2>1. PICK saved \in archives : Unpack(saved)
    BY <1>2
  <2>2. sh = "unpack" /\ owed' = owed /\ sh' \in {"unpack", "out"} /\ disk.previous = {}
    BY <2>1 DEF Unpack, BackupInv, PhaseInv
  <2>3. disk'.vol = disk.vol /\ disk'.previous = disk.previous
    <3>1. disk' = [disk EXCEPT !.dirs = {"staging", "previous"}]
          \/ \E e \in saved.files : disk' = [disk EXCEPT !.staging = Put(@, e)]
      BY <2>1 DEF Unpack
    <3> QED BY <1>0, <3>1 DEF Disks
  <2> QED BY <2>2, <2>3 DEF OwedInv
<1>3. CASE Move
  BY <1>3, OwedMoves
<1>4. CASE Moved
  <2>1. CASE sh = "out"
    <3>1. disk.vol = {} /\ sh' = "in" /\ UNCHANGED <<disk, owed>>
      BY <1>4, <2>1 DEF Moved, Moves, Exits
    <3> QED BY <2>1, <3>1 DEF OwedInv
  <2>2. CASE sh = "in" /\ Stuck
    <3>1. sh' = "undo" /\ UNCHANGED <<disk, owed>>
      BY <1>4, <2>2 DEF Moved, Exits
    <3> QED BY <2>2, <3>1 DEF OwedInv
  <2>3. CASE sh = "in" /\ ~Stuck
    <3>1. sh' = "clean" /\ owed' = {}
      BY <1>4, <2>3 DEF Moved
    <3> QED BY <3>1 DEF OwedInv
  <2>4. CASE sh = "undo"
    <3>1. disk.vol = {} /\ sh' = "back" /\ UNCHANGED <<disk, owed>>
      BY <1>4, <2>4 DEF Moved, Moves, Exits
    <3> QED BY <2>4, <3>1 DEF OwedInv
  <2>5. CASE sh = "back"
    <3>1. /\ disk.previous = {} /\ sh' = "unchanged" /\ UNCHANGED owed
          /\ disk' = [disk EXCEPT !.staging = {}, !.dirs = {}]
      BY <1>4, <2>5 DEF Moved, Moves
    <3>2. disk'.vol = disk.vol
      BY <1>0, <3>1 DEF Disks
    <3> QED BY <2>5, <3>1, <3>2 DEF OwedInv
  <2> QED BY <1>4, <2>1, <2>2, <2>3, <2>4, <2>5 DEF Moved, Moves
<1>5. CASE Clean
  <2>1. owed' = {} /\ sh' \in {"clean", "restored"}
    BY <1>5 DEF Clean, BackupInv, ScriptInv
  <2> QED BY <2>1 DEF OwedInv
<1>6. CASE UnpackFails
  <2>1. /\ owed = disk.vol /\ owed' = owed /\ sh' = "unchanged"
        /\ disk' = [disk EXCEPT !.staging = {}, !.dirs = {}]
    BY <1>6 DEF UnpackFails, OwedInv
  <2>2. disk'.vol = disk.vol
    BY <1>0, <2>1 DEF Disks
  <2> QED BY <2>1, <2>2 DEF OwedInv
<1>7. CASE MoveFails /\ Mishap(sh)
  <2>1. sh = "in" /\ sh' = "undo" /\ UNCHANGED <<disk, owed>>
    BY <1>7 DEF MoveFails, Exits, Mishap
  <2> QED BY <2>1 DEF OwedInv
<1>8. CASE UndoFails \/ CleanFails \/ Dies
  <2>1. sh' \in {"both", "restored", "unknown"} /\ UNCHANGED <<disk, owed>>
    BY <1>8 DEF UndoFails, CleanFails, Dies, Exits
  <2> QED BY <2>1 DEF OwedInv
<1> QED BY <1>1, <1>2, <1>3, <1>4, <1>5, <1>6, <1>7, <1>8 DEF Script

LEMMA OwedStep ==
    ASSUME "out" \notin Mishaps, BackupInv, OwedInv, [Next]_vars
    PROVE  OwedInv'
<1>1. CASE UNCHANGED swapVars
  BY <1>1 DEF OwedInv, swapVars
<1>2. CASE Script
  BY <1>2, OwedScript
<1>3. CASE UNCHANGED <<disk, owed>> /\ sh' \in {"none", "check"}
  BY <1>3 DEF OwedInv
<1>4. CASE WriteFile
  <2>1. PICK n \in Names :
           /\ \/ \E c \in Contents : disk' = [disk EXCEPT !.vol = Put(@, <<n, c>>)]
              \/ disk' = [disk EXCEPT !.vol = @ \ {e \in disk.vol : e[1] = n}]
           /\ owed' = owed \ {e \in disk.vol : e[1] = n}
    BY <1>4 DEF WriteFile
  <2>2. sh' = "none" /\ disk \in Disks
    BY <1>4 DEF WriteFile, BackupInv, StopInv, CommandInv, TypeInv, At
  <2>3. disk'.previous = disk.previous /\ \A e \in disk.vol : e[1] # n => e \in disk'.vol
    BY <2>1, <2>2 DEF Disks, Put
  <2>4. owed' \subseteq disk'.vol \cup disk'.previous
    BY <2>1, <2>3 DEF OwedInv
  <2> QED BY <2>2, <2>4 DEF OwedInv
<1>5. CASE Operator
  <2>1. sh' = "none"
    BY <1>5 DEF Operator, BackupInv, CommandInv, At
  <2>2. UNCHANGED <<disk, owed>> \/ owed' = {}
    BY <1>5 DEF Operator
  <2> QED BY <2>1, <2>2 DEF OwedInv
<1>6. StopsDone => UNCHANGED swapVars \/ (UNCHANGED <<disk, owed>> /\ sh' = "check")
  BY DEF StopsDone, swapVars
<1>7. Replaced \/ Killed => UNCHANGED <<disk, owed>> /\ sh' = "none"
  BY DEF Replaced, Killed
<1>8. Stop \/ StopFails \/ Start \/ StartFails \/ CallFails => UNCHANGED swapVars
  BY DEF Stop, StopFails, Start, StartFails, CallFails, dataVars
<1>9. BackupBegins \/ Dump \/ Read \/ Seal \/ RestoreBegins => UNCHANGED swapVars
  BY DEF BackupBegins, RestoreBegins, Begins, Dump, Read, Seal, dataVars
<1>10. ASSUME NEW saved \in archives, Load(saved) PROVE UNCHANGED swapVars
  BY <1>10 DEF Load
<1>11. StartServer \/ Swap \/ Drop \/ StopServer \/ WriteRow \/ UNCHANGED vars
         => UNCHANGED swapVars
  BY DEF StartServer, Swap, Drop, StopServer, WriteRow, vars, dataVars
<1>12. CASE StopsDone \/ Replaced \/ Killed
  BY <1>1, <1>3, <1>6, <1>7, <1>12
<1> QED BY <1>1, <1>2, <1>4, <1>5, <1>8, <1>9, <1>10, <1>11, <1>12 DEF Next

-----------------------------------------------------------------------------
(* The theorems. *)

LEMMA InitHolds == Init => BackupInv /\ OwedInv
<1> SUFFICES ASSUME Init PROVE BackupInv /\ OwedInv
  OBVIOUS
<1>1. PICK c \in Contents :
         disk = [vol |-> {<<n, c>> : n \in Names}, staging |-> {}, previous |-> {}, dirs |-> {}]
  BY DEF Init, SwapInit
<1>2. junk = {} /\ sh = "none" /\ owed = {}
  BY DEF Init, SwapInit
<1>3. /\ disk \in Disks /\ Single(disk.vol) /\ disk.staging = {} /\ disk.previous = {}
  BY <1>1 DEF Disks, Entries, Single
<1>4. /\ archives = {} /\ run = Idle /\ up = Services /\ was = Services /\ said = {}
      /\ db \in Databases
  BY DEF Init, Databases, Dumps
<1>5. TypeInv
  BY <1>2, <1>3, <1>4, IdleFields DEF TypeInv
<1>6. PhaseInv
  BY <1>2, <1>3 DEF PhaseInv, Single
<1>7. CommandInv /\ StopInv /\ PutBackInv
  BY <1>2, <1>4, IdleFields DEF CommandInv, StopInv, PutBackInv, At
<1>8. ArchiveInv /\ ScriptInv /\ WholeInv /\ OwedInv
  BY <1>2, <1>4, IdleFields DEF ArchiveInv, ScriptInv, WholeInv, OwedInv, At
<1> QED BY <1>5, <1>6, <1>7, <1>8 DEF BackupInv

LEMMA BackupStep ==
    ASSUME BackupInv, [Next]_vars
    PROVE  BackupInv'
<1>1. CASE UNCHANGED vars
  BY <1>1 DEF BackupInv, TypeInv, PhaseInv, CommandInv, StopInv, PutBackInv, ArchiveInv,
     ScriptInv, WholeInv, At, vars, dataVars, swapVars, history
<1>2. CASE Next
  BY <1>2, StopStep, StopFailsStep, StopsDoneStep, StartStep, StartFailsStep, BeginsStep,
     DumpStep, ReadStep, SealStep, StartServerStep, LoadStep, SwapStep, StopServerStep,
     ScriptStep, ReplacedStep, CallFailsStep, KilledStep, WriteFileStep, WriteRowStep,
     OperatorStep DEF Next
<1> QED BY <1>1, <1>2

\* The inductive invariant, in every reachable state.
THEOREM BackupInvariant == Spec => []BackupInv
BY InitHolds, BackupStep, PTL DEF Spec

\* The swap directories and the commands keep their shape.
THEOREM BackupTypeCorrect == Spec => []TypeOK
<1>1. BackupInv => TypeOK
  BY DEF BackupInv, TypeInv, PhaseInv, CommandInv, StopInv, TypeOK, Disks, Entries
<1> QED BY <1>1, BackupInvariant, PTL

\* What a restore puts in place is exactly what the volume held at one moment
\* of the backup.
THEOREM RestoresOneMoment == Spec => []RestoredIsSaved
<1>1. BackupInv => RestoredIsSaved
  BY DEF BackupInv, ScriptInv, ArchiveInv, RestoredIsSaved
<1> QED BY <1>1, BackupInvariant, PTL

\* When a command ends, by an error too, exactly the services that ran before
\* it run, but for those an error named.
THEOREM ServicesComeBack == Spec => []ServicesPutBack
<1>1. BackupInv => ServicesPutBack
  BY DEF BackupInv, TypeInv, CommandInv, StopInv, PutBackInv, ServicesPutBack, At
<1> QED BY <1>1, BackupInvariant, PTL

\* No command starts a writer on a volume whose contents are half moved,
\* unless the operator did before.
THEOREM WritersStartOnWhole == Spec => StartedOnWhole
<1>1. BackupInv /\ [Next]_vars =>
        [At("start") /\ (up' \ up) \cap Writers # {} =>
           owed \subseteq disk.vol \/ accepted]_vars
  <2> SUFFICES ASSUME BackupInv, Next, At("start"), (up' \ up) \cap Writers # {}
               PROVE  owed \subseteq disk.vol \/ accepted
    OBVIOUS
  <2>1. up' \subseteq up \cup run.stopped
    BY DEF Next, At, Stop, StopFails, StopsDone, Start, StartFails, BackupBegins, RestoreBegins,
       Begins, Dump, Read, Seal, StartServer, Load, Swap, Drop, StopServer, Script, Replaced,
       CallFails, Killed, WriteFile, WriteRow, Operator
  <2> QED BY <2>1 DEF BackupInv, WholeInv, At
<1> QED BY <1>1, BackupInvariant, PTL DEF Spec, StartedOnWhole

\* What a volume held when a restore took it over is in it, or in the
\* directory of its previous contents, until the snapshot is in its place, if
\* no rename of the old contents fails: the rollback from there loses them.
THEOREM PreviousIsKept ==
    ASSUME "out" \notin Mishaps
    PROVE  Spec => []OldIsKept
<1>1. BackupInv /\ OwedInv /\ [Next]_vars => OwedInv'
  BY OwedStep
<1>2. OwedInv => OldIsKept
  BY DEF OwedInv, OldIsKept
<1> QED BY <1>1, <1>2, InitHolds, BackupInvariant, PTL DEF Spec
=============================================================================
