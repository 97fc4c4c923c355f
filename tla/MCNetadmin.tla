------------------------------ MODULE MCNetadmin -------------------------------
(***************************************************************************)
(* Two copies of netadmin, the lists of one; two users, one call.        *)
(***************************************************************************)
EXTENDS Netadmin

CONSTANTS a, b

MCUsers == {1, 2}
MCCalls == {11}
InUse == [Schema(6) EXCEPT !.users = [u \in MCUsers |-> [NewUser EXCEPT !.online = TRUE]]]
MCFound == {<<NoDb, NoDb>>, <<Schema(1), Schema(5)>>, <<Schema(5), NoDb>>, <<InUse, Schema(4)>>}

\* How often what may happen: the schema, a backup and a restore, the lists under calls, the
\* lists and dialogs, and the lists while the other copy restores or edits
Times(starts, faults, backups, restores, daemon, edits) ==
    [start |-> starts, fault |-> faults, backup |-> backups, restore |-> restores,
     daemon |-> daemon, edit |-> edits]
MCTroubles == {Times(4, 1, 0, 0, 0, 0), Times(3, 1, 0, 1, 0, 0), Times(2, 1, 1, 1, 0, 0),
               Times(1, 0, 0, 0, 3, 0), Times(1, 0, 0, 0, 2, 1), Times(1, 0, 0, 0, 1, 2),
               Times(2, 0, 0, 1, 1, 0), Times(2, 0, 0, 0, 1, 1)}
=============================================================================
