------------------------------- MODULE Netadmin --------------------------------
(***************************************************************************)
(* netadmin's lists of users and of calls.  netsipd says with a datagram   *)
(* which user or call it has changed; a list reads one every half second   *)
(* and looks the row up, also while a dialog of the list is open.  The     *)
(* datagrams wait in the socket's buffer while no list is open.            *)
(*                                                                         *)
(* A list finds the item of a datagram by the user's ID; its dialogs go on *)
(* with a pointer to an item, which a datagram may have deleted since.     *)
(***************************************************************************)
EXTENDS Database

CONSTANTS
    Viewer,   \* the copy of netadmin whose lists are modelled
    MaxPost   \* bound: datagrams in the socket's buffer, the rest are lost

UserRows == UNION {[U -> [online : BOOLEAN, info : Infos]] : U \in SUBSET Users}
CallRows == UNION {[C -> [ends : Users \X Users, open : BOOLEAN]] : C \in SUBSET Calls}
Databases == [exists : BOOLEAN, tables : SUBSET Tables, columns : SUBSET Columns,
              versions : SUBSET (1..NET_VERSION_DATABASE),
              users : UserRows, calls : CallRows, spoilt : {"no", "half", "trodden"}]

\* What the database is found with has its tables' rows, and calls are of users
ASSUME NetadminAssumption ==
    /\ DefaultUser \in Users /\ Users \intersect Calls = {} /\ Infos # {}
    /\ Viewer \in Admins
    /\ \A found \in Found : \A d \in {found[1], found[2]} :
          d \in Databases /\ Complete(d) /\ (DOMAIN d.users # {} => "USERS" \in d.tables)

VARIABLES
    post,   \* the datagrams to read: <<"u", uid>> or <<"c", cid>>
    view,   \* the list that is open, its check box, its dialog, the dialog's user and
            \* which of that user's items it points to: 0 if that was deleted since
    rows,   \* rows[i]: what the items of user or call i show, the one that is found first
            \* before the others
    untold  \* what has changed since the list last looked, without a datagram, and the
            \* users that had a second item or none when one was to be looked up

adminVars == <<dbVars, left, post, view, rows, untold>>

NoView == [list |-> "none", filter |-> FALSE, dialog |-> "none", item |-> DefaultUser,
           held |-> 0]
Lists == {"users", "calls"}
Ids == Users \union Calls
NoRows == [i \in Ids |-> <<>>]
ItemsOf(list) == CASE list = "users" -> Users [] list = "calls" -> Calls [] OTHER -> {}
Message(i) == <<IF i \in Users THEN "u" ELSE "c", i>>
Waits(i) == \E n \in 1..Len(post) : post[n] = Message(i)

-----------------------------------------------------------------------------
(***************************************************************************)
(* What a list shows of a database d.                                      *)
(***************************************************************************)
InCall(d, u) == \E c \in DOMAIN d.calls : d.calls[c].open /\ \E n \in 1..2 : d.calls[c].ends[n] = u

\* SetItem, and the same columns of RefreshItem(item) and RefreshList
UserRow(d, u) == [online |-> d.users[u].online, info |-> d.users[u].info,
                  active |-> InCall(d, u)]
CallRow(d, c) == d.calls[c]

Listed(d, list, filter) ==
    IF list = "users" THEN {u \in DOMAIN d.users : filter => d.users[u].online}
    ELSE {c \in DOMAIN d.calls : filter => d.calls[c].open}
Look(d, list, i) == IF list = "users" THEN UserRow(d, i) ELSE CallRow(d, i)

\* What an item of i shows once it has been looked up; it is deleted if i is not listed
ItemOf(d, i) ==
    IF i \in Listed(d, view.list, view.filter) THEN <<Look(d, view.list, i)>> ELSE <<>>

\* RefreshItem(item), the k-th item of i, or one that there was not
RefreshItem(d, i, k) ==
    [rows EXCEPT ![i] = SubSeq(@, 1, k - 1) \o ItemOf(d, i) \o SubSeq(@, k + 1, Len(@))]

\* Mutant: only an item that is there is looked up
RefreshedInPlace(d, i) == IF rows[i] = <<>> THEN rows ELSE RefreshItem(d, i, 1)

\* RefreshItem(uid): the first item of i is looked up, or one is made
Refreshed(d, i) == RefreshItem(d, i, 1)

\* Where an item of i is whose k-th has been looked up
Moved(d, i, k, held) ==
    IF ItemOf(d, i) # <<>> \/ rows[i] = <<>> \/ held < k THEN held
    ELSE IF held = k THEN 0 ELSE held - 1

\* The row of i has been looked up, and is right unless there is another item
ToldOf(i) == IF Len(rows[i]) <= 1 THEN untold \ {i} ELSE untold \union {i}

\* Whose rows would look different, no datagram told about them
Changed(d, e) ==
    {u \in Users : \/ (u \in DOMAIN d.users) # (u \in DOMAIN e.users)
                   \/ u \in DOMAIN d.users /\ UserRow(d, u) # UserRow(e, u)}
    \union {c \in Calls : \/ (c \in DOMAIN d.calls) # (c \in DOMAIN e.calls)
                          \/ c \in DOMAIN d.calls /\ d.calls[c] # e.calls[c]}

-----------------------------------------------------------------------------
(***************************************************************************)
(* netsipd: SendUidUpdate and SendCidUpdate follow the statements.         *)
(***************************************************************************)
Listening == at[Viewer] # "out"

\* Some of the datagrams are lost, or find the buffer full
Update(d, told) ==
    \E n \in 0..Len(told) : \E f \in [1..n -> 1..Len(told)] :
        LET kept == [k \in 1..n |-> told[f[k]]]
            ids == {kept[k][2] : k \in 1..n}
        IN  /\ \A k, l \in 1..n : k < l => f[k] < f[l]
            /\ n > 0 => Listening
            /\ Len(post) + n <= MaxPost
            /\ db' = d
            /\ post' = post \o kept
            /\ untold' = (untold \union Changed(db, d)) \ ids
            /\ Spend("daemon")
            /\ UNCHANGED <<file, at, todo, view, rows>>

\* Password and Logout
Online(u, online) ==
    /\ u \in DOMAIN db.users /\ "ONLINE" \in db.columns
    /\ db.users[u].online # online
    /\ Update([db EXCEPT !.users[u].online = online], <<Message(u)>>)

\* The insert names every column.  The row that is told about is the user's latest by the
\* clock, see NetSipd
InitiateCall(c, u, v) ==
    /\ "CALLS" \in db.tables /\ CallColumns \subseteq db.columns /\ c \notin DOMAIN db.calls
    /\ \E w \in {c} \union {x \in DOMAIN db.calls : db.calls[x].ends[1] = u} :
          Update([db EXCEPT !.calls = [x \in DOMAIN @ \union {c} |->
                     IF x = c THEN [ends |-> <<u, v>>, open |-> TRUE] ELSE @[x]]],
                 <<Message(u), Message(v), Message(w)>>)

\* The row's first user and, as the row may be of another call of his, anyone
EndCall(c) ==
    /\ c \in DOMAIN db.calls /\ db.calls[c].open
    /\ \E v \in Users :
          Update([db EXCEPT !.calls[c].open = FALSE],
                 <<Message(db.calls[c].ends[1]), Message(v), Message(c)>>)

-----------------------------------------------------------------------------
(***************************************************************************)
(* The lists.                                                              *)
(***************************************************************************)
Idle(list) == view.list = list /\ view.dialog = "none" /\ at[Viewer] = "in"

RefreshList(list, filter) ==
    /\ view' = [NoView EXCEPT !.list = list, !.filter = filter]
    /\ rows' = [i \in Ids |-> IF i \in Listed(db, list, filter) THEN <<Look(db, list, i)>>
                              ELSE <<>>]
    /\ untold' = {}
    /\ UNCHANGED <<dbVars, left, post>>

OpenList(list) == Idle("none") /\ RefreshList(list, FALSE)
ToggledData == view.list # "none" /\ Idle(view.list) /\ RefreshList(view.list, ~view.filter)
CloseData ==
    /\ view.list # "none" /\ Idle(view.list)
    /\ view' = NoView /\ rows' = NoRows
    /\ UNCHANGED <<dbVars, left, post, untold>>

\* A datagram about the other list is dropped
UpdateData(ours) ==
    /\ post # <<>>
    /\ post' = Tail(post)
    /\ LET i == Head(post)[2]
       IN  IF i \in ours
           THEN /\ rows' = Refreshed(db, i)
                /\ untold' = ToldOf(i)
                /\ view' = IF i = view.item THEN [view EXCEPT !.held = Moved(db, i, 1, @)]
                           ELSE view
           ELSE UNCHANGED <<rows, untold, view>>
    /\ UNCHANGED <<dbVars, left>>

UserUpdateData == view.list = "users" /\ UpdateData(Users)
CallUpdateData == view.list = "calls" /\ UpdateData(Calls)

-----------------------------------------------------------------------------
(***************************************************************************)
(* The dialogs of the list of users.                                       *)
(***************************************************************************)
Dialog(what, u, k) == view' = [view EXCEPT !.dialog = what, !.item = u, !.held = k]
NoDialog == Dialog("none", DefaultUser, 0)
With(u, row) == [db EXCEPT !.users = [x \in DOMAIN @ \union {u} |-> IF x = u THEN row ELSE @[x]]]
Without(u) == [db EXCEPT !.users = [x \in DOMAIN @ \ {u} |-> @[x]]]

\* editData, deleteData: the dialog is opened for an item, the user's k-th
OpenDialog(what, u) ==
    /\ Idle("users")
    /\ \E k \in 1..Len(rows[u]) : Dialog(what, u, k)
    /\ UNCHANGED <<dbVars, left, post, rows, untold>>

EditData(u) == OpenDialog("edit", u)
DeleteData(u) == OpenDialog("delete", u)

\* AddUser::okData, up to the form it opens for the new user
AddData(u) ==
    /\ Idle("users") /\ "USERS" \in db.tables
    /\ u \notin DOMAIN db.users /\ \A x \in DOMAIN db.users : x < u
    /\ Spend("edit")
    /\ db' = With(u, NewUser)
    /\ Dialog("add", u, 0)
    /\ untold' = untold \union {u}
    /\ UNCHANGED <<file, at, todo, post, rows>>

\* The program has used an item that was deleted, and dies of it
Dies ==
    /\ at' = [at EXCEPT ![Viewer] = "out"]
    /\ view' = NoView /\ rows' = NoRows /\ post' = <<>> /\ untold' = {}

\* Or it goes on, and shows what it showed
GoesOn ==
    /\ NoDialog
    /\ untold' = untold \union {view.item}
    /\ UNCHANGED <<at, post, rows>>

\* editData, with database d after the form: RefreshItem of the item it was opened for
FinishEdit(d) ==
    LET u == view.item
    IN  \/ /\ view.held > 0
           /\ rows' = RefreshItem(d, u, view.held) /\ untold' = ToldOf(u)
           /\ NoDialog
           /\ UNCHANGED <<at, post>>
        \/ view.held = 0 /\ (Dies \/ GoesOn)

\* addData: an item is made, before or behind one that a datagram has made meanwhile, and
\* RefreshItem deletes it if the new user is not listed
FinishAdd(d) ==
    LET u == view.item
    IN  \/ /\ ItemOf(d, u) # <<>>
           /\ rows' \in {[rows EXCEPT ![u] = ItemOf(d, u) \o @],
                         [rows EXCEPT ![u] = @ \o ItemOf(d, u)]}
           /\ untold' = IF rows[u] = <<>> THEN untold \ {u} ELSE untold \union {u}
           /\ NoDialog
           /\ UNCHANGED <<at, post>>
        \/ ItemOf(d, u) = <<>> /\ (Dies \/ GoesOn)

Finish(d) == db' = d /\ (IF view.dialog = "edit" THEN FinishEdit(d) ELSE FinishAdd(d))

\* EditUser::okData writes all the form holds, also what it read long ago
OkData(info) ==
    /\ view.dialog \in {"edit", "add"}
    /\ Spend("edit")
    /\ LET u == view.item
       IN  Finish(IF u \in DOMAIN db.users THEN With(u, [db.users[u] EXCEPT !.info = info])
                  ELSE db)
    /\ UNCHANGED <<file, todo>>

\* Escape, or the window is closed: QDialog::reject, which is taken for OK.  A new user stays
Reject ==
    /\ view.dialog \in {"edit", "add"}
    /\ Finish(db)
    /\ UNCHANGED <<file, todo, left>>

\* AddUser's too, before there is a name: the item that is made is of nobody, and deleted
RejectName ==
    /\ Idle("users")
    /\ Dies
    /\ UNCHANGED <<db, file, todo, left>>

\* "Are you sure": Yes.  The name to delete is read off the item, which is deleted, too
DeleteYes ==
    /\ view.dialog = "delete"
    /\ Spend("edit")
    /\ LET u == view.item
       IN  \/ /\ view.held > 0
              /\ db' = Without(u)
              /\ rows' = [rows EXCEPT ![u] = SubSeq(@, 1, view.held - 1)
                                                 \o SubSeq(@, view.held + 1, Len(@))]
              /\ untold' = ToldOf(u)
              /\ NoDialog
              /\ UNCHANGED <<at, post>>
           \/ view.held = 0 /\ db' \in {db, Without(u)} /\ (Dies \/ GoesOn)
    /\ UNCHANGED <<file, todo>>

\* A new user stays: AddUser would delete him by a column that USERS does not have
CancelData ==
    /\ view.dialog # "none"
    /\ NoDialog
    /\ UNCHANGED <<dbVars, left, post, rows, untold>>

\* Another copy's dialogs; nobody tells this one
Elsewhere(a, u) ==
    /\ a # Viewer /\ at[a] = "in" /\ u \in DOMAIN db.users
    /\ Spend("edit")
    /\ db' \in {Without(u)} \union {With(u, [db.users[u] EXCEPT !.info = i]) : i \in Infos}
    /\ untold' = untold \union Changed(db, db')
    /\ UNCHANGED <<file, at, todo, post, view, rows>>

-----------------------------------------------------------------------------
\* What a copy does outside its lists, which are dialogs too
Main(a) ==
    /\ \/ StartNetAdmin(a) \/ RunQuery(a) \/ LogIn(a) \/ Leave(a)
       \/ (a = Viewer => view = NoView) /\ (BackupData(a) \/ RestoreData(a))
    /\ view' = IF at'[Viewer] = "out" THEN NoView ELSE view
    /\ rows' = IF at'[Viewer] = "out" THEN NoRows ELSE rows
    /\ post' = IF at'[Viewer] = "out" THEN <<>> ELSE post
    /\ untold' = IF at'[Viewer] = "out" THEN {} ELSE untold \union Changed(db, db')

Init ==
    /\ DbInit
    /\ post = <<>>
    /\ view = NoView
    /\ rows = NoRows
    /\ untold = {}

Next ==
    \/ \E a \in Admins : Main(a)
    \/ \E a \in Admins, u \in Users : Elsewhere(a, u)
    \/ \E u \in Users, b \in BOOLEAN : Online(u, b)
    \/ \E c \in Calls, u, v \in Users : InitiateCall(c, u, v)
    \/ \E c \in Calls : EndCall(c)
    \/ \E l \in Lists : OpenList(l)
    \/ ToggledData \/ CloseData \/ UserUpdateData \/ CallUpdateData
    \/ \E u \in Users : EditData(u) \/ DeleteData(u) \/ AddData(u)
    \/ \E i \in Infos : OkData(i)
    \/ Reject \/ RejectName \/ DeleteYes \/ CancelData

Spec == Init /\ [][Next]_adminVars

-----------------------------------------------------------------------------
\* The database keeps its shape, and a copy has statements to run exactly while it
\* opens or restores the database, whatever failed before.
TypeOK ==
    /\ {db, file} \subseteq Databases
    /\ DOMAIN db.users # {} => "USERS" \in db.tables
    /\ \A c \in db.columns : \E t \in db.tables : c \in ColumnsOf(t)
    /\ \A a \in Admins : todo[a] # <<>> <=> at[a] \in {"opening", "restoring"}
    /\ view.list = "none" => rows = NoRows /\ view = NoView
    /\ view.dialog # "none" => view.held \in 0..Len(rows[view.item])

\* Once its datagrams have been read, an open list shows what the database holds: the
\* users and calls its box asks for, each once, who is online and in a call.  Datagrams
\* that waited while the other list was open, came twice or came under a dialog make no
\* difference.  But for what nobody tells, see untold: a datagram was lost, another
\* netadmin or a restore has changed the row; or a dialog was through that had lost its
\* item to a datagram (list_users.cpp:191-230), or had added a user of whom a datagram had
\* made an item (170-185), until that row is looked up again.
Shown ==
    \A i \in ItemsOf(view.list) : i \notin untold /\ ~Waits(i) => rows[i] = ItemOf(db, i)
=============================================================================
