------------------------------- MODULE Database --------------------------------
(***************************************************************************)
(* The schema of the database netadmin and netsipd share, and the copies   *)
(* of netadmin that create, update, replace, back up and restore it.  Each *)
(* runs a program of SQL statements one by one: the others may run theirs  *)
(* in between, the server may fail one, and a copy may die at any of them. *)
(***************************************************************************)
EXTENDS Integers, Sequences, FiniteSets

CONSTANTS
    Admins,       \* copies of netadmin, the ones started with --check-db too
    Users,        \* values of USERS.ID
    DefaultUser,  \* the account InitDb makes
    Calls,        \* values of CALLS.ID
    Infos,        \* what EditUser's form holds
    Found,        \* the database and the backup file there may be at the start
    Troubles      \* bounds: how often netadmin starts, a statement fails, ...

VARIABLES
    db,    \* the database
    file,  \* the backup file, or NoDb
    at,    \* at[a]: where copy a is
    todo,  \* todo[a]: the statements a has still to run
    left   \* how often each may still happen

dbVars == <<db, file, at, todo>>

NET_VERSION_DATABASE == 6
Empty == [x \in {} |-> 0]
NewUser == [online |-> FALSE, info |-> CHOOSE i \in Infos : TRUE]

UserColumns == {"ONLINE", "CLIENT_VERSION"}
CallColumns == {"ORIG_PORT", "DEST_PORT", "DEST_FORMAT", "DEST_CHANNELS",
                "DEST_SAMPLE_RATE", "DEST_BIT_RATE"}
ColumnsOf(table) == CASE table = "USERS" -> UserColumns
                      [] table = "CALLS" -> CallColumns
                      [] OTHER -> {}
Tables == {"USERS", "VERSION", "CALLS"}
Columns == UserColumns \union CallColumns

\* The version that has added a table or column
Since(x) == CASE x \in {"USERS", "VERSION"} -> 1 [] x = "ONLINE" -> 2 [] x = "CALLS" -> 3
              [] x = "CLIENT_VERSION" -> 4 [] x \in {"ORIG_PORT", "DEST_PORT"} -> 5
              [] OTHER -> 6

\* columns: the ones a release added; versions: VERSION's rows; spoilt: the tables
\* are being restored or were left half restored, their version could not be read
\* after it, or they went while another copy worked on them (the code keeps no such record)
NoDb == [exists |-> FALSE, tables |-> {}, columns |-> {}, versions |-> {},
         users |-> Empty, calls |-> Empty, spoilt |-> "no"]
Schema(v) == [NoDb EXCEPT !.exists = TRUE, !.versions = {v},
    !.tables = {t \in Tables : Since(t) <= v},
    !.columns = {c \in Columns : Since(c) <= v},
    !.users = [u \in {DefaultUser} |-> NewUser]]

\* What there is at the start was made by some version, and has been used since
Released(d) == \E s \in {NoDb} \union {Schema(v) : v \in 1..NET_VERSION_DATABASE} :
                   d = [s EXCEPT !.users = d.users, !.calls = d.calls]
ASSUME DatabaseAssumption == \A found \in Found : Released(found[1]) /\ Released(found[2])

\* Every call has an ID and is of users
Complete(d) ==
    /\ {"users", "calls"} \subseteq DOMAIN d
    /\ DOMAIN d.calls \subseteq Calls
    /\ \A c \in DOMAIN d.calls : \A n \in 1..2 : d.calls[c].ends[n] \in Users

\* Version::database
CheckVersion == IF db.versions = {} THEN 0
                ELSE CHOOSE v \in db.versions : \A w \in db.versions : v <= w

-----------------------------------------------------------------------------
(***************************************************************************)
(* The programs.                                                           *)
(***************************************************************************)
When(needed, statements) == IF needed THEN statements ELSE <<>>

CreateDb == << <<"create", "USERS">>, <<"create", "VERSION">>, <<"create", "CALLS">> >>
InitDb == << <<"insert", "USERS">>, <<"insert", "VERSION">> >>

\* Mutant: the new version is written before the last columns are there
UpdateDbEarly(ver) ==
       When(ver < 5, << <<"add", "ORIG_PORT">>, <<"add", "DEST_PORT">> >>)
    \o << <<"update", "VERSION">> >>
    \o When(ver < 6, << <<"add", "DEST_FORMAT">>, <<"add", "DEST_CHANNELS">>,
                        <<"add", "DEST_SAMPLE_RATE">>, <<"add", "DEST_BIT_RATE">> >>)

UpdateDb(ver) ==
       When(ver < 2, << <<"add", "ONLINE">> >>)
    \o When(ver < 3, << <<"create old", "CALLS">> >>)
    \o When(ver < 4, << <<"add", "CLIENT_VERSION">> >>)
    \o When(ver < 5, << <<"add", "ORIG_PORT">>, <<"add", "DEST_PORT">> >>)
    \o When(ver < 6, << <<"add", "DEST_FORMAT">>, <<"add", "DEST_CHANNELS">>,
                        <<"add", "DEST_SAMPLE_RATE">>, <<"add", "DEST_BIT_RATE">> >>)
    \o << <<"update", "VERSION">> >>

\* OpenDb's two ways to a new database: there is none, or it is too old
CreateNew == << <<"create", "DATABASE">> >> \o CreateDb \o InitDb
Replace == << <<"drop", "DATABASE">> >> \o CreateNew \o UpdateDb(0)

\* The tables show tables lists, in its order
InOrder(verb, tables) ==
       When("CALLS" \in tables, << <<verb, "CALLS">> >>)
    \o When("USERS" \in tables, << <<verb, "USERS">> >>)
    \o When("VERSION" \in tables, << <<verb, "VERSION">> >>)
ClearTables == InOrder("drop", db.tables)
RestoreDb == ClearTables \o InOrder("load", file.tables) \o << <<"select", "VERSION">> >>

-----------------------------------------------------------------------------
(***************************************************************************)
(* The statements.                                                         *)
(***************************************************************************)
\* RunQuery returns TRUE
Works(s) ==
    CASE s = <<"create", "DATABASE">> -> ~db.exists
      [] s[1] = "add" -> s[2] \notin db.columns
                         /\ \E t \in db.tables : s[2] \in ColumnsOf(t)
      [] s = <<"insert", "USERS">> -> "USERS" \in db.tables
                                      /\ DefaultUser \notin DOMAIN db.users
      [] s = <<"insert", "VERSION">> -> "VERSION" \in db.tables
                                        /\ NET_VERSION_DATABASE \notin db.versions
      [] s = <<"update", "VERSION">> -> "VERSION" \in db.tables
                                        /\ Cardinality(db.versions) <= 1
      [] s[1] = "drop" /\ s[2] \in Tables -> s[2] \in db.tables
      [] OTHER -> db.exists

\* Nobody looks whether these failed
Unchecked(s) ==
    s[1] \in {"drop", "select"} \/ s \in {<<"add", "ONLINE">>, <<"update", "VERSION">>}

NewTable(t, columns) ==
    IF t \in db.tables THEN db
    ELSE [db EXCEPT !.tables = @ \union {t}, !.columns = @ \union columns]

\* Table t is what it is in d, which may not have it
Copied(t, d, spoilt) ==
    [db EXCEPT !.tables = (@ \ {t}) \union ({t} \intersect d.tables),
               !.columns = (@ \ ColumnsOf(t)) \union (d.columns \intersect ColumnsOf(t)),
               !.users = IF t = "USERS" THEN d.users ELSE @,
               !.calls = IF t = "CALLS" THEN d.calls ELSE @,
               !.versions = IF t = "VERSION" THEN d.versions ELSE @,
               !.spoilt = spoilt]

\* spoilt, once a has dropped the database, or a table, or loaded one
Watched(a) == \E b \in Admins \ {a} : todo[b] # <<>>
Spoilt(a, s) ==
    IF s = <<"drop", "DATABASE">> THEN IF Watched(a) THEN "trodden" ELSE "no"
    ELSE IF Watched(a) \/ db.spoilt = "trodden" THEN "trodden"
    ELSE IF s = <<"load", "VERSION">> THEN file.spoilt ELSE "half"

\* The database after a has run s
Effect(a, s) ==
    CASE s = <<"create", "DATABASE">> -> [db EXCEPT !.exists = TRUE]
      [] s = <<"drop", "DATABASE">> -> [NoDb EXCEPT !.spoilt = Spoilt(a, s)]
      [] s[1] = "create" /\ s[2] \in Tables -> NewTable(s[2], ColumnsOf(s[2]))
      [] s[1] = "create old" -> NewTable(s[2], {})
      [] s[1] = "add" -> [db EXCEPT !.columns = @ \union {s[2]}]
      [] s = <<"insert", "USERS">> ->
           [db EXCEPT !.users = [u \in DOMAIN @ \union {DefaultUser} |->
                                   IF u \in DOMAIN @ THEN @[u] ELSE NewUser]]
      [] s = <<"insert", "VERSION">> ->
           [db EXCEPT !.versions = @ \union {NET_VERSION_DATABASE}]
      [] s = <<"update", "VERSION">> ->
           [db EXCEPT !.versions = IF @ = {} THEN {} ELSE {NET_VERSION_DATABASE}]
      [] s[1] = "drop" /\ s[2] \in Tables -> Copied(s[2], NoDb, Spoilt(a, s))
      [] s[1] = "load" -> Copied(s[2], file, Spoilt(a, s))
      [] OTHER -> db

-----------------------------------------------------------------------------
Spend(what) == left[what] > 0 /\ left' = [left EXCEPT ![what] = @ - 1]

\* OpenDb up to what it finds, where a version that cannot be read is 0; an administrator
\* with the rights agrees to the rest
StartNetAdmin(a) ==
    /\ at[a] = "out"
    /\ left["start"] > 0
    /\ \E ver \in {CheckVersion, 0} :
         LET program == CASE ~db.exists -> CreateNew
                          [] db.exists /\ ver = 0 -> Replace
                          [] ver \in 1..NET_VERSION_DATABASE-1 -> UpdateDb(ver)
                          [] OTHER -> <<>>
             fails == IF ver = CheckVersion THEN 0 ELSE 1
         IN  /\ fails <= left["fault"]
             /\ left' = [left EXCEPT !["start"] = @ - 1, !["fault"] = @ - fails]
             /\ todo' = [todo EXCEPT ![a] = program]
             /\ at' = [at EXCEPT ![a] = IF program = <<>> THEN "login" ELSE "opening"]
    /\ UNCHANGED <<db, file>>

\* Mutant: a restore never ends
ContinueRestoring(a, rest) ==
    /\ todo' = [todo EXCEPT ![a] = rest]
    /\ at' = [at EXCEPT ![a] = IF rest = <<>> /\ @ = "opening" THEN "login" ELSE @]

Continue(a, rest) ==
    /\ todo' = [todo EXCEPT ![a] = rest]
    /\ at' = [at EXCEPT ![a] = CASE rest # <<>> -> @
                                 [] rest = <<>> /\ @ = "opening" -> "login"
                                 [] OTHER -> "in"]

\* OpenDb fails, or the restore ends (with a message, whatever UpdateDb returned)
GiveUp(a) ==
    /\ todo' = [todo EXCEPT ![a] = <<>>]
    /\ at' = [at EXCEPT ![a] = IF @ = "opening" THEN "out" ELSE "in"]

\* After a restore the version is read; one that cannot be read is the current one
Rest(a, ver) ==
    IF Head(todo[a]) = <<"select", "VERSION">>
    THEN UpdateDb(IF ver = 0 THEN NET_VERSION_DATABASE ELSE ver)
    ELSE Tail(todo[a])

\* What is left when the server fails a statement, before or after it has run it
Failed(a, s) == IF s[1] = "select" THEN {[db EXCEPT !.spoilt = "trodden"]} ELSE {db, Effect(a, s)}

RunQuery(a) ==
    /\ todo[a] # <<>>
    /\ LET s == Head(todo[a])
       IN  \/ /\ Works(s)
              /\ db' = Effect(a, s)
              /\ Continue(a, Rest(a, CheckVersion))
              /\ UNCHANGED left
           \/ /\ IF Works(s) THEN Spend("fault") /\ db' \in Failed(a, s)
                             ELSE UNCHANGED <<db, left>>
              /\ IF Unchecked(s) THEN Continue(a, Rest(a, 0)) ELSE GiveUp(a)
    /\ UNCHANGED file

\* netadmin asks for an account with ADMIN_PRIV (the default one), or was only to
\* check the database
LogIn(a) ==
    /\ at[a] = "login"
    /\ at' = [at EXCEPT ![a] = IF DefaultUser \in DOMAIN db.users THEN "in" ELSE "out"]
    /\ UNCHANGED <<db, file, todo, left>>

\* Cancelled, closed, or dead between two statements
Leave(a) ==
    /\ at[a] # "out"
    /\ at' = [at EXCEPT ![a] = "out"]
    /\ todo' = [todo EXCEPT ![a] = <<>>]
    /\ UNCHANGED <<db, file, left>>

\* mysqldump; the file it could not finish is unlinked.  One that is being restored
\* meanwhile is spoilt by it
BackupData(a) ==
    /\ at[a] = "in"
    /\ Spend("backup")
    /\ LET torn == \E r \in Admins : at[r] = "restoring"
       IN  file' \in {IF torn THEN [db EXCEPT !.spoilt = "trodden"] ELSE db, NoDb}
    /\ UNCHANGED <<db, at, todo>>

RestoreData(a) ==
    /\ at[a] = "in" /\ file.exists
    /\ Spend("restore")
    /\ at' = [at EXCEPT ![a] = "restoring"]
    /\ todo' = [todo EXCEPT ![a] = RestoreDb]
    /\ UNCHANGED <<db, file>>

DbInit ==
    /\ \E found \in Found : db = found[1] /\ file = found[2]
    /\ at = [a \in Admins |-> "out"]
    /\ todo = [a \in Admins |-> <<>>]
    /\ left \in Troubles

-----------------------------------------------------------------------------
\* A database that says it has the current version has every table and column the
\* current release uses, whatever failed, died or was done twice on the way there:
\* CreateDb, InitDb and UpdateDb write the version last.  (Two exceptions: ONLINE,
\* whose statement nobody checks, and the tables of a restore: see spoilt.)
VersionTells ==
    CheckVersion = NET_VERSION_DATABASE /\ db.spoilt = "no" =>
        /\ db.tables = Tables
        /\ Columns \ db.columns \subseteq {"ONLINE"}
        /\ db.versions = {NET_VERSION_DATABASE}
=============================================================================
