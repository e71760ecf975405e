----------------------------- MODULE VolumeSwap -----------------------------
(***************************************************************************)
(* REPLACE_VOLUME_SCRIPT of ordo/host/backup.py: the shell script of a     *)
(* restore that swaps a snapshot in for the contents of a volume, one      *)
(* rename at a time.  A directory is a set of entries, one per name.       *)
(***************************************************************************)
EXTENDS Naturals

CONSTANTS
    Names,      \* the names at the volume's root
    Contents    \* what a file may hold

VARIABLES
    disk,       \* the entries of the volume, of .ordo-restore-staging and of
                \* .ordo-restore-previous, and which of the two directories there are
    junk,       \* the swap directories that are in the snapshot unpacked
    sh,         \* the step the script is at, or how it ended
    owed        \* the contents it took over and has not replaced yet (history)

swapVars == <<disk, junk, sh, owed>>

Put(dir, e) == {x \in dir : x[1] # e[1]} \cup {e}

SwapInit ==
    /\ \E c \in Contents :
          disk = [vol |-> {<<n, c>> : n \in Names}, staging |-> {}, previous |-> {}, dirs |-> {}]
    /\ junk = {} /\ sh = "none" /\ owed = {}

Exits(code) == sh' = code /\ UNCHANGED <<disk, junk, owed>>

\* Mutant: clear the directory of a restore that stopped part way, as is done
\* with the staging directory.
CheckClears ==
    /\ sh = "check" /\ sh' = "unpack"
    /\ disk' = [disk EXCEPT !.staging = {}, !.previous = {}, !.dirs = {"staging"}]
    /\ junk' = {} /\ owed' = owed \cup disk.vol

\* A leftover directory of previous contents refuses; a stale staging directory
\* is cleared.
Check ==
    /\ sh = "check"
    /\ IF "previous" \in disk.dirs THEN Exits("leftover")
       ELSE /\ sh' = "unpack"
            /\ disk' = [disk EXCEPT !.staging = {}, !.dirs = {"staging"}]
            /\ junk' = {} /\ owed' = disk.vol

\* tar -x, file by file; then the directory for the previous contents is made.
Unpack(saved) ==
    /\ sh = "unpack" /\ UNCHANGED owed
    /\ \/ /\ \E e \in saved.files \ disk.staging : disk' = [disk EXCEPT !.staging = Put(@, e)]
          /\ UNCHANGED <<junk, sh>>
       \/ /\ saved.files \subseteq disk.staging
          /\ disk' = [disk EXCEPT !.dirs = {"staging", "previous"}]
          /\ junk' = saved.junk /\ sh' = "out"

\* The unpack, a stat or the mkdir fails: the staging directory is removed.
UnpackFails ==
    /\ sh = "unpack" /\ sh' = "unchanged"
    /\ disk' = [disk EXCEPT !.staging = {}, !.dirs = {}]
    /\ UNCHANGED <<junk, owed>>

\* The four move_all: the old contents out, the new ones in; and the rollback.
Moves == [out  |-> [from |-> "vol",      to |-> "previous"],
          in   |-> [from |-> "staging",  to |-> "vol"],
          undo |-> [from |-> "vol",      to |-> "staging"],
          back |-> [from |-> "previous", to |-> "vol"]]

Move ==
    /\ sh \in DOMAIN Moves
    /\ \E e \in disk[Moves[sh].from] :
          disk' = [disk EXCEPT ![Moves[sh].from] = @ \ {e}, ![Moves[sh].to] = Put(@, e)]
    /\ UNCHANGED <<junk, sh, owed>>

\* A swap directory that came with the snapshot is moved in last, and cannot be
\* renamed over the one in the volume unless that one is empty.
Stuck == "staging" \in junk \/ ("previous" \in junk /\ disk.previous # {})

Moved ==
    /\ sh \in DOMAIN Moves /\ disk[Moves[sh].from] = {}
    /\ CASE sh = "out" -> Exits("in")
         [] sh = "in" /\ Stuck -> Exits("undo")
         [] sh = "in" /\ ~Stuck ->
              /\ sh' = "clean" /\ owed' = {} /\ junk' = {}
              /\ disk' = [disk EXCEPT !.dirs = {"previous"}]
         [] sh = "undo" -> Exits("back")
         [] OTHER ->
              /\ sh' = "unchanged" /\ junk' = {} /\ UNCHANGED owed
              /\ disk' = [disk EXCEPT !.staging = {}, !.dirs = {}]

\* A chown, chmod or mv fails: roll back; if that fails, both copies stay.
MoveFails == sh \in {"out", "in"} /\ Exits("undo")
UndoFails == sh \in {"undo", "back"} /\ Exits("both")

\* rm -rf of the previous contents, file by file; a failed one still exits 0.
Clean ==
    /\ sh = "clean" /\ UNCHANGED <<junk, owed>>
    /\ \/ /\ \E e \in disk.previous : disk' = [disk EXCEPT !.previous = @ \ {e}]
          /\ UNCHANGED sh
       \/ /\ disk.previous = {}
          /\ disk' = [disk EXCEPT !.dirs = {}] /\ sh' = "restored"

CleanFails == sh = "clean" /\ Exits("restored")

\* The helper container is killed: its exit code is none of the script's own.
Endings == {"restored", "leftover", "unchanged", "both", "unknown"}
Dies == sh \notin {"none"} \cup Endings /\ Exits("unknown")
=============================================================================
