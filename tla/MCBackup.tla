------------------------------ MODULE MCBackup ------------------------------
(* Instances of Backup for TLC. *)
EXTENDS Backup, TLC

CONSTANTS f, g, x, y, rows, app, side, server

\* The volume's writer with a member of its network namespace, and a client of
\* the database.
MCWriters == {app, side}
MCClients == {app}

Symmetry == Permutations({f, g}) \cup Permutations({x, y})
=============================================================================
