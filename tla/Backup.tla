------------------------------- MODULE Backup -------------------------------
(***************************************************************************)
(* `ordo backup` and `ordo restore` (ordo/host/backup.py) of a database    *)
(* and of a volume that is saved with its writers stopped, beside the      *)
(* services that use them and the operator.  A command runs on the host,   *)
(* one call of docker after another, and may be killed between any two.    *)
(***************************************************************************)
EXTENDS VolumeSwap

CONSTANTS
    Writers,        \* the volume's writer and the members of its network namespace
    Clients,        \* the services that depend on the database's server
    Server,
    Rows,           \* what the database may hold
    NoDb,           \* no such database
    Mishaps,        \* what may go wrong, as often as it likes
    Counted,        \* the mishaps that are counted, and
    MaxMishaps      \* how many of those there may be

\* A database's server mounts its data and no volume that is saved as files.
ASSUME ServerAssumption == Server \notin Writers

VARIABLES
    up,             \* the services that run
    db,             \* the database, the one a dump is loaded into, the one swapped out
    archives,       \* the last archive, if there is one
    run,            \* the command under way
    was,            \* the services that ran when it began (history)
    said,           \* the services named in an error (history)
    accepted,       \* the operator started a writer on a half-restored volume (history)
    mishaps         \* how much of what is counted went wrong

dataVars == <<swapVars, db, archives>>
history == <<was, accepted>>
vars == <<dataVars, up, run, history, said, mishaps>>

Services == Writers \cup Clients \cup {Server}

\* A command: the call it is at, what it works on, the services that
\* _StoppedServices has still to stop and has stopped, whether an error is on
\* its way out, what a backup has saved, whether a restore started the server.
Nothing == [files |-> {}, junk |-> {}, dump |-> NoDb, moment |-> {}]
Idle == [cmd |-> "none", pc |-> "idle", item |-> "db", targets |-> {}, stopped |-> {},
         failed |-> FALSE, partial |-> Nothing, startedHere |-> FALSE]

Init ==
    /\ SwapInit
    /\ db \in {[live |-> c, temp |-> NoDb, old |-> NoDb] : c \in Rows}
    /\ archives = {} /\ run = Idle
    /\ up = Services /\ was = Services /\ said = {} /\ accepted = FALSE
    /\ mishaps = 0

Mishap(kind) ==
    /\ kind \in Mishaps
    /\ IF kind \in Counted THEN mishaps < MaxMishaps /\ mishaps' = mishaps + 1
       ELSE UNCHANGED mishaps

At(pc) == run.pc = pc
Goes(to) == run' = [run EXCEPT !.pc = to]
Ends == run' = Idle

\* An error ends the command, once a server it started is stopped.
Raises ==
    IF run.startedHere
    THEN run' = [run EXCEPT !.pc = "down", !.targets = {}, !.stopped = {}, !.failed = TRUE]
    ELSE Ends

-----------------------------------------------------------------------------
(* _StoppedServices *)

\* Only what runs is stopped, and started again.
Block(item, running) ==
    [run EXCEPT !.pc = "stop", !.item = item, !.stopped = {}, !.targets = running]

\* Mutant: the stops are recorded when all are done.
StopRecordsLast ==
    /\ At("stop")
    /\ \E s \in run.targets :
       /\ up' = up \ {s}
       /\ run' = [run EXCEPT !.targets = @ \ {s},
                             !.stopped = IF run.targets = {s} THEN was \ up' ELSE {}]
    /\ UNCHANGED <<dataVars, history, said, mishaps>>

\* One is stopped after the other, in any order; each stop is recorded as it
\* succeeds.
Stop ==
    /\ At("stop")
    /\ \E s \in run.targets :
       /\ up' = up \ {s}
       /\ run' = [run EXCEPT !.targets = @ \ {s}, !.stopped = @ \cup {s}]
    /\ UNCHANGED <<dataVars, history, said, mishaps>>

\* A stop fails, whatever it did: what was stopped before it is started again,
\* in a restore too.
StopFails ==
    /\ At("stop") /\ Mishap("stop")
    /\ \E s \in run.targets :
       /\ up' \in {up, up \ {s}}
       /\ said' = said \cup {s}
    /\ run' = [run EXCEPT !.pc = "start", !.targets = {}, !.failed = TRUE]
    /\ UNCHANGED <<dataVars, history>>

\* The block begins; that of a volume's restore is the script.
StopsDone ==
    /\ At("stop") /\ run.targets = {}
    /\ \/ run.item = "db" /\ Goes("swap") /\ UNCHANGED <<sh, accepted>>
       \/ run.item = "files" /\ run.cmd = "backup" /\ Goes("read") /\ UNCHANGED <<sh, accepted>>
       \/ /\ run.item = "files" /\ run.cmd = "restore"
          /\ Goes("replace") /\ sh' = "check" /\ accepted' = FALSE
    /\ UNCHANGED <<disk, junk, owed, db, archives, up, was, said, mishaps>>

\* _start, with its check of the GPU lease, and `compose start`; then the next
\* item, or the end of the command.
Start ==
    /\ At("start")
    /\ up' = up \cup run.stopped
    /\ CASE run.failed -> Raises
         [] ~run.failed /\ run.item = "db" -> run' = [run EXCEPT !.pc = "down", !.stopped = {}]
         [] OTHER -> IF run.cmd = "backup" THEN Goes("seal") ELSE Ends
    /\ UNCHANGED <<dataVars, history, said, mishaps>>

StartFails ==
    /\ At("start") /\ run.stopped # {} /\ Mishap("start")
    /\ \E some \in SUBSET run.stopped : up' = up \cup some
    /\ said' = said \cup run.stopped
    /\ Raises
    /\ UNCHANGED <<dataVars, history>>

\* Mutant: a restore that fails starts what it stopped, as a backup does.
BlockStartsAgain ==
    run' = [run EXCEPT !.pc = "start", !.failed = TRUE] /\ UNCHANGED said

\* The block fails: a backup starts what it stopped; a restore leaves it
\* stopped, and says so.
BlockFails ==
    IF run.cmd = "backup"
    THEN run' = [run EXCEPT !.pc = "start", !.failed = TRUE] /\ UNCHANGED said
    ELSE Raises /\ said' = said \cup run.stopped

-----------------------------------------------------------------------------
(* run_backup and run_restore *)

Begins(cmd, pc) ==
    /\ At("idle")
    /\ run' = [Idle EXCEPT !.cmd = cmd, !.pc = pc]
    /\ was' = up /\ said' = {}
    /\ UNCHANGED <<dataVars, up, accepted, mishaps>>

BackupBegins == Begins("backup", "dump")
RestoreBegins == archives # {} /\ Begins("restore", "server")

\* Mutant: the volume is saved with its writers running.
DumpThenRead ==
    /\ At("dump")
    /\ IF Server \in up
       THEN run' = [run EXCEPT !.pc = "read", !.item = "files", !.partial.dump = db.live]
       ELSE Ends
    /\ UNCHANGED <<dataVars, up, history, said, mishaps>>

\* pg_dump, online; a server that does not run fails the backup.
Dump ==
    /\ At("dump")
    /\ IF Server \in up
       THEN run' = [Block("files", Writers \cap up) EXCEPT !.partial.dump = db.live]
       ELSE Ends
    /\ UNCHANGED <<dataVars, up, history, said, mishaps>>

\* tar -c reads the volume file by file, what a restore left in it included.
Read ==
    /\ At("read")
    /\ LET read == run.partial.files
           left == {e \in disk.vol : \A x \in read : x[1] # e[1]}
       IN  \/ \E e \in left :
                 run' = [run EXCEPT !.partial.files = read \cup {e},
                                    !.partial.moment = IF read = {} THEN disk.vol ELSE @]
           \/ left = {} /\ run' = [run EXCEPT !.pc = "start", !.partial.junk = disk.dirs]
    /\ UNCHANGED <<dataVars, up, history, said, mishaps>>

\* The archive gets its name when it is complete.
Seal ==
    /\ At("seal")
    /\ archives' = {run.partial}
    /\ Ends
    /\ UNCHANGED <<swapVars, db, up, history, said, mishaps>>

\* _restore_database: a server that does not run is started, which the lease
\* may refuse.
StartServer ==
    /\ At("server")
    /\ \/ /\ up' = up \cup {Server}
          /\ run' = [run EXCEPT !.pc = "load", !.startedHere = Server \notin up]
          /\ UNCHANGED <<said, mishaps>>
       \/ /\ Server \notin up /\ Mishap("start")
          /\ up' \in {up, up \cup {Server}}
          /\ said' = said \cup {Server}
          /\ Ends
    /\ UNCHANGED <<dataVars, history>>

\* pg_restore_to_temp: a leftover of an earlier swap refuses; the temporary
\* database is made anew, and dropped when the load fails.
Load(saved) ==
    /\ At("load")
    /\ \/ db.old # NoDb /\ Raises /\ UNCHANGED <<db, mishaps>>
       \/ /\ db.old = NoDb /\ db' = [db EXCEPT !.temp = saved.dump]
          /\ run' = Block("db", Clients \cap up) /\ UNCHANGED mishaps
       \/ db.old = NoDb /\ Mishap("load") /\ db' = [db EXCEPT !.temp = NoDb] /\ Raises
    /\ UNCHANGED <<swapVars, archives, up, history, said>>

\* pg_swap: two renames in one transaction, then the old database is dropped,
\* or else left with a warning.
Swap ==
    /\ At("swap")
    /\ db' = [live |-> db.temp, temp |-> NoDb, old |-> db.live]
    /\ Goes("drop")
    /\ UNCHANGED <<swapVars, archives, up, history, said, mishaps>>

Drop ==
    /\ At("drop")
    /\ \/ db' = [db EXCEPT !.old = NoDb] /\ UNCHANGED mishaps
       \/ UNCHANGED db /\ Mishap("load")
    /\ Goes("start")
    /\ UNCHANGED <<swapVars, archives, up, history, said>>

\* A server started here is stopped; the volume is next, unless there was an
\* error.
StopServer ==
    /\ At("down")
    /\ \/ /\ up' = IF run.startedHere THEN up \ {Server} ELSE up
          /\ IF run.failed THEN Ends
             ELSE run' = [Block("files", Writers \cap up') EXCEPT !.startedHere = FALSE]
          /\ UNCHANGED <<said, mishaps>>
       \/ /\ run.startedHere /\ Mishap("stop")
          /\ said' = said \cup {Server} /\ Ends /\ UNCHANGED up
    /\ UNCHANGED <<dataVars, history>>

\* replace_volume: the script, and what its exit code says.
Script ==
    /\ \/ /\ Check \/ Move \/ Moved \/ Clean \/ \E saved \in archives : Unpack(saved)
          /\ UNCHANGED mishaps
       \/ UnpackFails /\ Mishap("unpack")
       \/ MoveFails /\ Mishap(sh)
       \/ UndoFails /\ Mishap("undo")
       \/ CleanFails /\ Mishap("clean")
       \/ Dies /\ Mishap("killed")
    /\ UNCHANGED <<db, archives, up, run, history, said>>

Replaced ==
    /\ At("replace") /\ sh \in Endings
    /\ sh' = "none"
    /\ IF sh = "restored" THEN Goes("start") /\ UNCHANGED said ELSE BlockFails
    /\ UNCHANGED <<disk, junk, owed, db, archives, up, history, mishaps>>

\* Another call made in a block fails: tar, or the swap.
CallFails ==
    /\ run.pc \in {"read", "swap"} /\ Mishap("call")
    /\ BlockFails
    /\ UNCHANGED <<dataVars, up, history>>

-----------------------------------------------------------------------------
(* Beside a command. *)

\* The host goes down, or the command and its helper container are killed:
\* nothing is started again.
Killed ==
    /\ ~At("idle") /\ Mishap("killed")
    /\ Ends /\ sh' = "none"
    /\ was' = up /\ said' = {}
    /\ UNCHANGED <<disk, junk, owed, db, archives, up, accepted>>

\* A running writer changes, makes or removes a file; what it replaces is its
\* own, and no restore owes it any longer.
WriteFile ==
    /\ up \cap Writers # {}
    /\ \E n \in Names :
         LET mine == {e \in disk.vol : e[1] = n} IN
         /\ \/ \E c \in Contents : disk' = [disk EXCEPT !.vol = Put(@, <<n, c>>)]
            \/ disk' = [disk EXCEPT !.vol = @ \ mine]
         /\ owed' = owed \ mine
    /\ UNCHANGED <<junk, sh, db, archives, up, run, history, said, mishaps>>

WriteRow ==
    /\ Server \in up /\ up \cap Clients # {}
    /\ \E c \in Rows : db' = [db EXCEPT !.live = c]
    /\ UNCHANGED <<swapVars, archives, up, run, history, said, mishaps>>

\* Between commands the operator starts and stops services, on the data as it
\* is, and removes what a restore that stopped part way left, as he is told to.
Operator ==
    /\ At("idle")
    /\ \/ /\ \E s \in Services : up' \in {up \cup {s}, up \ {s}}
          /\ accepted' = (accepted \/ (up' \ up) \cap Writers # {})
          /\ UNCHANGED <<disk, owed, db>>
       \/ /\ "previous" \in disk.dirs
          /\ disk' = [disk EXCEPT !.staging = {}, !.previous = {}, !.dirs = {}]
          /\ owed' = {} /\ UNCHANGED <<up, accepted, db>>
       \/ /\ db.old # NoDb /\ db' = [db EXCEPT !.old = NoDb]
          /\ UNCHANGED <<up, accepted, disk, owed>>
    /\ was' = up' /\ said' = {}
    /\ UNCHANGED <<junk, sh, archives, run, mishaps>>

Next ==
    \/ Stop \/ StopFails \/ StopsDone \/ Start \/ StartFails
    \/ BackupBegins \/ Dump \/ Read \/ Seal
    \/ RestoreBegins \/ StartServer \/ \E saved \in archives : Load(saved)
    \/ Swap \/ Drop \/ StopServer \/ Script \/ Replaced \/ CallFails
    \/ Killed \/ WriteFile \/ WriteRow \/ Operator

Spec == Init /\ [][Next]_vars

-----------------------------------------------------------------------------
(* Properties. *)

\* The shape of the swap directories and of a command.
TypeOK ==
    /\ disk.vol \cup disk.staging \cup disk.previous \cup owed \subseteq Names \X Contents
    /\ disk.staging # {} => "staging" \in disk.dirs
    /\ disk.previous # {} => "previous" \in disk.dirs
    /\ sh # "none" => At("replace")
    /\ up \subseteq Services
    /\ run.pc \in {"stop", "read", "swap", "replace"} => run.stopped \cap up = {}
    /\ run.cmd = "none" <=> At("idle")

\* "Nothing is destroyed before its replacement is proven" (docs/data.md): what
\* a volume held when a restore took it over is in it, or in the directory of
\* its previous contents, until the snapshot is in its place, through failed
\* renames, kills at any step and further restores; only its own writers and
\* the operator remove it (REPLACE_VOLUME_SCRIPT).
OldIsKept == owed \subseteq disk.vol \cup disk.previous

\* What a restore puts in place is exactly what the volume held at one moment
\* of the backup: nothing of a snapshot read while it changed, of the previous
\* contents or of what an earlier restore left (_backup_volume, the script).
RestoredIsSaved == sh = "clean" => \E saved \in archives : disk.vol = saved.moment

\* No command starts a writer on a volume whose contents are half moved, unless
\* the operator did before (_StoppedServices, run_restore).
StartedOnWhole ==
    [][At("start") /\ (up' \ up) \cap Writers # {} =>
          owed \subseteq disk.vol \/ accepted]_vars

\* "Starts only those that were running" (docs/data.md): when a command ends,
\* by an error too, exactly the services that ran before it run, but for those
\* an error named (_StoppedServices, _restore_database).
ServicesPutBack ==
    At("idle") => (was \ up) \cup (up \ was) \subseteq said

\* "A rename failed and was rolled back; the volume is unchanged": the script
\* that ends with SWAP_UNCHANGED leaves the contents it found.
UnchangedIsUnchanged == sh = "unchanged" => owed = disk.vol
=============================================================================
