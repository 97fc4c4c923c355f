---------------------------- MODULE Netadmin_proofs ----------------------------
(***************************************************************************)
(* netadmin's lists show what the database holds, and the database has     *)
(* what its version says, for any users, calls, copies of netadmin, buffer *)
(* and faults.                                                             *)
(***************************************************************************)
EXTENDS Netadmin, SequenceTheorems, TLAPS

Posts == {"u", "c"} \X (Users \union Calls)

IsSequence(s) == \E S : s \in Seq(S)

\* Every ID has its items, and the dialog's is one of them or has been deleted
RowsShape ==
    /\ DOMAIN rows = Ids
    /\ \A i \in Ids : IsSequence(rows[i])
    /\ view.item \in Users
    /\ view.held \in 0..Len(rows[view.item])

\* What the lists rely on: datagrams are of users and calls, calls are of users, and a
\* dialog is one of the list of users
Shape ==
    /\ Complete(db) /\ Complete(file)
    /\ post \in Seq(Posts)
    /\ view.dialog # "none" => view.list = "users"
    /\ DOMAIN view = {"list", "filter", "dialog", "item", "held"}
    /\ view.list \in Lists \union {"none"}
    /\ RowsShape

Inv == Shape /\ Shown

\* What a list shows of i is what it shows of d's i
Agree(d, list, filter, shown, i) ==
    shown[i] = IF i \in Listed(d, list, filter) THEN <<Look(d, list, i)>> ELSE <<>>

-----------------------------------------------------------------------------
LEMMA ShownIs ==
    Shown <=> \A i \in ItemsOf(view.list) :
                  i \notin untold /\ ~Waits(i) => Agree(db, view.list, view.filter, rows, i)
BY DEF Shown, Agree, ItemOf

LEMMA ItemsAreIds == \A list : ItemsOf(list) \subseteq Ids
BY DEF ItemsOf, Ids

\* What has not changed looks the same
LEMMA UnchangedLooksSame ==
    ASSUME NEW d, NEW e, NEW list \in Lists, NEW filter, NEW i \in ItemsOf(list),
           i \notin Changed(d, e)
    PROVE  /\ i \in Listed(d, list, filter) <=> i \in Listed(e, list, filter)
           /\ i \in Listed(d, list, filter) => Look(d, list, i) = Look(e, list, i)
<1>1. CASE list = "users"
  <2>1. i \in Users
    BY <1>1 DEF ItemsOf
  <2>2. /\ i \in DOMAIN d.users <=> i \in DOMAIN e.users
        /\ i \in DOMAIN d.users => UserRow(d, i) = UserRow(e, i)
    BY <2>1 DEF Changed
  <2>3. i \in DOMAIN d.users => d.users[i].online = e.users[i].online
    <3>1. UserRow(d, i).online = d.users[i].online /\ UserRow(e, i).online = e.users[i].online
      BY DEF UserRow
    <3> QED
      BY <2>2, <3>1
  <2> QED
    BY <1>1, <2>2, <2>3 DEF Listed, Look
<1>2. CASE list = "calls"
  <2>1. i \in Calls
    BY <1>2 DEF ItemsOf
  <2>2. /\ i \in DOMAIN d.calls <=> i \in DOMAIN e.calls
        /\ i \in DOMAIN d.calls => d.calls[i] = e.calls[i]
    BY <2>1 DEF Changed
  <2> QED
    BY <1>2, <2>2 DEF Listed, Look, CallRow
<1> QED
  BY <1>1, <1>2 DEF Lists

LEMMA AgreeStays ==
    ASSUME NEW d, NEW e, NEW list \in Lists, NEW filter, NEW shown, NEW i \in ItemsOf(list),
           i \notin Changed(d, e), Agree(d, list, filter, shown, i)
    PROVE  Agree(e, list, filter, shown, i)
BY UnchangedLooksSame DEF Agree

\* An item is a sequence of one, or of none
LEMMA ItemOfIs ==
    ASSUME NEW d, NEW i
    PROVE  /\ IsSequence(ItemOf(d, i))
           /\ ItemOf(d, i) = <<>> \/ Len(ItemOf(d, i)) = 1
           /\ Len(ItemOf(d, i)) \in 0..1
           /\ ItemOf(d, i) = <<>> <=> Len(ItemOf(d, i)) = 0
<1>1. <<Look(d, view.list, i)>> \in Seq({Look(d, view.list, i)}) /\ <<>> \in Seq({})
  OBVIOUS
<1>2. Len(<<Look(d, view.list, i)>>) = 1 /\ Len(<<>>) = 0
  OBVIOUS
<1>3. ItemOf(d, i) = <<>> \/ ItemOf(d, i) = <<Look(d, view.list, i)>>
  BY DEF ItemOf
<1>4. IsSequence(<<>>) /\ IsSequence(<<Look(d, view.list, i)>>)
  BY <1>1, Zenon DEF IsSequence
<1> QED
  BY <1>2, <1>3, <1>4

LEMMA SequencesJoin ==
    ASSUME NEW s, NEW t, IsSequence(s), IsSequence(t)
    PROVE  /\ IsSequence(s \o t) /\ Len(s \o t) = Len(s) + Len(t)
           /\ Len(s) \in Nat /\ Len(t) \in Nat
           /\ s = <<>> => s \o t = t
           /\ t = <<>> => s \o t = s
<1>1. PICK S : s \in Seq(S)
  BY DEF IsSequence
<1>2. PICK T : t \in Seq(T)
  BY DEF IsSequence
<1>3. s \in Seq(S \union T) /\ t \in Seq(S \union T)
  BY <1>1, <1>2
<1> QED
  BY <1>3, ConcatProperties, ConcatEmptySeq, LenProperties DEF IsSequence

LEMMA PartsAre ==
    ASSUME NEW s, IsSequence(s), NEW m \in Nat \ {0}, NEW n \in 0..Len(s)
    PROVE  /\ IsSequence(SubSeq(s, m, n))
           /\ Len(SubSeq(s, m, n)) = IF m <= n THEN n - m + 1 ELSE 0
           /\ n < m => SubSeq(s, m, n) = <<>>
<1>1. PICK S : s \in Seq(S)
  BY DEF IsSequence
<1>2. Len(s) \in Nat /\ m \in Int /\ n \in Int
  BY <1>1
<1>3. \A i \in m..n : s[i] \in S
  <2>1. \A i \in m..n : i \in 1..Len(s)
    BY <1>2
  <2> QED
    BY <1>1, <2>1, ElementOfSeq
<1>4. /\ SubSeq(s, m, n) \in Seq(S)
      /\ Len(SubSeq(s, m, n)) = IF m <= n THEN n - m + 1 ELSE 0
  BY <1>2, <1>3, SubSeqProperties
<1>5. n < m => SubSeq(s, m, n) = <<>>
  BY <1>2, SubSeqEmpty
<1>6. IsSequence(SubSeq(s, m, n))
  BY <1>4, Zenon DEF IsSequence
<1> QED
  BY <1>4, <1>5, <1>6

\* A sequence of items with the k-th replaced by item, or without it, or with a first one
LEMMA Replaced ==
    ASSUME NEW s, IsSequence(s), NEW k \in 1..Len(s) \union {1}, NEW item, IsSequence(item)
    PROVE  LET t == SubSeq(s, 1, k - 1) \o item \o SubSeq(s, k + 1, Len(s))
           IN  /\ IsSequence(t) /\ Len(s) \in Nat
               /\ Len(s) <= 1 => t = item
               /\ Len(t) = (IF Len(s) = 0 THEN 0 ELSE Len(s) - 1) + Len(item)
<1> DEFINE a == SubSeq(s, 1, k - 1)
           b == SubSeq(s, k + 1, Len(s))
<1>1. Len(s) \in Nat /\ Len(item) \in Nat
  BY SequencesJoin
<1>2. /\ k \in Nat \ {0} /\ k - 1 \in 0..Len(s) /\ k + 1 \in Nat \ {0}
      /\ Len(s) \in 0..Len(s)
  BY <1>1
<1>3. /\ IsSequence(a) /\ Len(a) = k - 1 /\ (k = 1 => a = <<>>)
  <2>1. ASSUME NEW n \in 0..Len(s)
        PROVE  /\ IsSequence(SubSeq(s, 1, n))
               /\ Len(SubSeq(s, 1, n)) = IF 1 <= n THEN n - 1 + 1 ELSE 0
               /\ n < 1 => SubSeq(s, 1, n) = <<>>
    <3>1. 1 \in Nat \ {0}
      OBVIOUS
    <3> QED
      BY <3>1, PartsAre, Zenon
  <2> DEFINE n == k - 1
  <2>2. n \in 0..Len(s) /\ (k = 1 => n < 1) /\ (IF 1 <= n THEN n - 1 + 1 ELSE 0) = n
    BY <1>1, <1>2
  <2> HIDE DEF n
  <2>3. IsSequence(SubSeq(s, 1, n)) /\ Len(SubSeq(s, 1, n)) = n
        /\ (k = 1 => SubSeq(s, 1, n) = <<>>)
    BY <2>1, <2>2
  <2> QED
    BY <2>3 DEF n
<1>4. /\ IsSequence(b) /\ Len(b) = IF k + 1 <= Len(s) THEN Len(s) - k ELSE 0
      /\ (Len(s) < k + 1 => b = <<>>)
  <2>1. ASSUME NEW m \in Nat \ {0}
        PROVE  /\ IsSequence(SubSeq(s, m, Len(s)))
               /\ Len(SubSeq(s, m, Len(s))) = IF m <= Len(s) THEN Len(s) - m + 1 ELSE 0
               /\ Len(s) < m => SubSeq(s, m, Len(s)) = <<>>
    BY <1>2, PartsAre, Zenon
  <2> DEFINE m == k + 1
  <2>2. m \in Nat \ {0} /\ Len(s) - m + 1 = Len(s) - k
    BY <1>1, <1>2
  <2> HIDE DEF m
  <2>3. /\ IsSequence(SubSeq(s, m, Len(s)))
        /\ Len(SubSeq(s, m, Len(s))) = IF m <= Len(s) THEN Len(s) - k ELSE 0
        /\ Len(s) < m => SubSeq(s, m, Len(s)) = <<>>
    BY <2>1, <2>2
  <2> QED
    BY <2>3 DEF m
<1> HIDE DEF a, b
<1>5. /\ IsSequence(a \o item) /\ Len(a \o item) = Len(a) + Len(item)
      /\ (a = <<>> => a \o item = item)
  BY <1>3, SequencesJoin
<1>6. /\ IsSequence(a \o item \o b) /\ Len(a \o item \o b) = Len(a) + Len(item) + Len(b)
      /\ (b = <<>> => a \o item \o b = a \o item)
  <2> DEFINE c == a \o item
  <2>1. IsSequence(c) /\ IsSequence(b) /\ Len(c) = Len(a) + Len(item)
    BY <1>4, <1>5
  <2> HIDE DEF c
  <2>2. IsSequence(c \o b) /\ Len(c \o b) = Len(c) + Len(b) /\ (b = <<>> => c \o b = c)
    BY <2>1, SequencesJoin
  <2> QED
    BY <2>1, <2>2 DEF c
<1>7. Len(s) <= 1 => a \o item \o b = item
  BY <1>1, <1>3, <1>4, <1>5, <1>6
<1>8. Len(a) + Len(item) + Len(b) = (IF Len(s) = 0 THEN 0 ELSE Len(s) - 1) + Len(item)
  <2>1. k \in Nat /\ Len(a) = k - 1 /\ k >= 1 /\ (Len(s) = 0 => k = 1)
        /\ (Len(s) # 0 => k <= Len(s))
    BY <1>1, <1>3
  <2>2. Len(a) + Len(b) = IF Len(s) = 0 THEN 0 ELSE Len(s) - 1
    BY <1>1, <1>4, <2>1
  <2>3. Len(a) \in Nat /\ Len(b) \in Nat
    BY <1>3, <1>4, SequencesJoin
  <2> QED
    BY <1>1, <2>2, <2>3
<1> QED
  BY <1>1, <1>6, <1>7, <1>8 DEF a, b

\* RefreshItem brings an item up to date, the only one there is if it is, and leaves those
\* of others alone
LEMMA RefreshedAgrees ==
    ASSUME RowsShape, NEW d, NEW j \in Ids, NEW k \in 1..Len(rows[j]) \union {1}
    PROVE  LET r == RefreshItem(d, j, k)
           IN  /\ DOMAIN r = Ids
               /\ IsSequence(r[j])
               /\ Len(rows[j]) \in Nat
               /\ Len(rows[j]) <= 1 => Agree(d, view.list, view.filter, r, j)
               /\ Len(r[j]) = (IF Len(rows[j]) = 0 THEN 0 ELSE Len(rows[j]) - 1)
                                 + Len(ItemOf(d, j))
               /\ \A i \in Ids : i # j => r[i] = rows[i]
<1> DEFINE s == rows[j]
           t == SubSeq(s, 1, k - 1) \o ItemOf(d, j) \o SubSeq(s, k + 1, Len(s))
<1>1. RefreshItem(d, j, k) = [rows EXCEPT ![j] = t]
  BY DEF RefreshItem
<1>2. IsSequence(s) /\ IsSequence(ItemOf(d, j))
  BY ItemOfIs DEF RowsShape
<1>3. /\ IsSequence(t) /\ Len(s) \in Nat /\ (Len(s) <= 1 => t = ItemOf(d, j))
      /\ Len(t) = (IF Len(s) = 0 THEN 0 ELSE Len(s) - 1) + Len(ItemOf(d, j))
  BY <1>2, Replaced
<1> HIDE DEF t
<1> QED
  BY <1>1, <1>3 DEF RowsShape, Agree, ItemOf

\* A dialog writes one user's row, or deletes it
LEMMA WithTouches ==
    ASSUME Complete(db), NEW u, NEW row
    PROVE  /\ Complete(With(u, row))
           /\ \A i : i # u => i \notin Changed(db, With(u, row))
<1> DEFINE d == With(u, row)
<1>1. /\ {"users", "calls"} \subseteq DOMAIN d
      /\ d.calls = db.calls
      /\ d.users = [x \in DOMAIN db.users \union {u} |-> IF x = u THEN row ELSE db.users[x]]
  BY DEF With, Complete
<1> HIDE DEF d
<1>2. \A i : InCall(d, i) = InCall(db, i)
  BY <1>1 DEF InCall
<1>3. ASSUME NEW i, i # u
      PROVE  /\ i \in DOMAIN d.users <=> i \in DOMAIN db.users
             /\ i \in DOMAIN db.users => UserRow(d, i) = UserRow(db, i)
  BY <1>1, <1>2, <1>3 DEF UserRow
<1>4. Complete(d)
  BY <1>1 DEF Complete
<1> QED
  BY <1>1, <1>3, <1>4 DEF Changed, d

LEMMA WithoutTouches ==
    ASSUME Complete(db), NEW u
    PROVE  /\ Complete(Without(u))
           /\ \A i : i # u => i \notin Changed(db, Without(u))
<1> DEFINE d == Without(u)
<1>1. /\ {"users", "calls"} \subseteq DOMAIN d
      /\ d.calls = db.calls
      /\ d.users = [x \in DOMAIN db.users \ {u} |-> db.users[x]]
  BY DEF Without, Complete
<1> HIDE DEF d
<1>2. \A i : InCall(d, i) = InCall(db, i)
  BY <1>1 DEF InCall
<1>3. ASSUME NEW i, i # u
      PROVE  /\ i \in DOMAIN d.users <=> i \in DOMAIN db.users
             /\ i \in DOMAIN db.users => UserRow(d, i) = UserRow(db, i)
  BY <1>1, <1>2, <1>3 DEF UserRow
<1>4. Complete(d)
  BY <1>1 DEF Complete
<1> QED
  BY <1>1, <1>3, <1>4 DEF Changed, d

-----------------------------------------------------------------------------
LEMMA MessageIs ==
    ASSUME NEW i \in Ids
    PROVE  Message(i) \in Posts /\ Message(i)[2] = i
BY DEF Message, Posts, Ids

\* A step that shows what it showed before, and owns up to what it has changed
LEMMA NothingReshown ==
    ASSUME Inv,
           Complete(db'), Complete(file'),
           post' = post, rows' = rows,
           view'.list = view.list, view'.filter = view.filter,
           DOMAIN view' = DOMAIN view,
           view'.dialog # "none" => view.list = "users",
           view'.item \in Users, view'.held \in 0..Len(rows[view'.item]),
           \A i : i \notin untold' => i \notin untold /\ i \notin Changed(db, db')
    PROVE  Inv'
<1>1. Shape'
  BY DEF Inv, Shape, RowsShape
<1>2. ASSUME NEW i \in ItemsOf(view.list), i \notin untold', ~Waits(i)'
      PROVE  Agree(db', view.list, view.filter, rows, i)
  <2>1. ~Waits(i) /\ i \notin untold /\ i \notin Changed(db, db')
    BY <1>2 DEF Waits
  <2>2. view.list \in Lists
    BY <1>2 DEF Inv, Shape, ItemsOf, Lists
  <2>3. Agree(db, view.list, view.filter, rows, i)
    BY <2>1, ShownIs DEF Inv
  <2> QED
    BY <2>1, <2>2, <2>3, AgreeStays
<1>3. Shown'
  BY <1>2 DEF Shown, Agree, ItemOf
<1> QED
  BY <1>1, <1>3 DEF Inv

\* Nothing is shown when no list is open
LEMMA NoRowsShape ==
    /\ DOMAIN NoRows = Ids
    /\ \A i \in Ids : NoRows[i] = <<>> /\ IsSequence(NoRows[i])
    /\ NoView.item \in Users /\ NoView.held \in 0..Len(NoRows[NoView.item])
<1>1. IsSequence(<<>>)
  <2>1. <<>> \in Seq({})
    OBVIOUS
  <2> QED
    BY <2>1, Zenon DEF IsSequence
<1>2. \A i \in Ids : NoRows[i] = <<>>
  BY DEF NoRows
<1>3. NoView.item = DefaultUser /\ NoView.held = 0 /\ DefaultUser \in Users
  BY NetadminAssumption DEF NoView
<1>4. 0 \in 0..Len(<<>>)
  OBVIOUS
<1> QED
  BY <1>1, <1>2, <1>3, <1>4 DEF NoRows, Ids

LEMMA NothingShown ==
    ASSUME Complete(db'), Complete(file'), post' \in Seq(Posts), view' = NoView, rows' = NoRows
    PROVE  Inv'
<1>1. RowsShape'
  BY NoRowsShape DEF RowsShape
<1> QED
  BY <1>1 DEF Inv, Shape, Shown, NoView, ItemsOf, Lists

-----------------------------------------------------------------------------
(***************************************************************************)
(* netsipd.                                                                *)
(***************************************************************************)
\* What the daemon changes it tells, or the datagram is lost and the row counted untold
LEMMA UpdateShows ==
    ASSUME Inv, NEW d, Complete(d), NEW told,
           \A k \in 1..Len(told) : told[k] \in Posts /\ told[k] = Message(told[k][2]),
           Update(d, told)
    PROVE  Inv'
<1>0. PICK n \in 0..Len(told) : \E f \in [1..n -> 1..Len(told)] :
        /\ db' = d /\ post' = post \o [k \in 1..n |-> told[f[k]]]
        /\ untold' = (untold \union Changed(db, d)) \ {[k \in 1..n |-> told[f[k]]][j][2] : j \in 1..n}
        /\ UNCHANGED <<file, view, rows>>
  BY DEF Update
<1>1. PICK f \in [1..n -> 1..Len(told)] :
        /\ db' = d /\ post' = post \o [k \in 1..n |-> told[f[k]]]
        /\ untold' = (untold \union Changed(db, d)) \ {[k \in 1..n |-> told[f[k]]][j][2] : j \in 1..n}
        /\ UNCHANGED <<file, view, rows>>
  BY <1>0
<1> DEFINE kept == [k \in 1..n |-> told[f[k]]]
<1>2. \A k \in 1..n : kept[k] \in Posts /\ kept[k] = Message(kept[k][2])
  BY <1>1
<1>3. kept \in Seq(Posts) /\ Len(kept) = n /\ n \in Nat /\ post \in Seq(Posts)
  <2>1. n \in Nat
    BY <1>1
  <2>2. kept \in [1..n -> Posts]
    BY <1>2
  <2> QED
    BY <2>1, <2>2 DEF Inv, Shape
<1> HIDE DEF kept
<1>4. /\ post' = post \o kept
      /\ untold' = (untold \union Changed(db, d)) \ {kept[k][2] : k \in 1..n}
  BY <1>1 DEF kept
<1>5. /\ post' \in Seq(Posts) /\ Len(post') = Len(post) + n
      /\ \A k \in 1..Len(post) : post'[k] = post[k]
      /\ \A k \in 1..n : Len(post) + k \in 1..Len(post') /\ post'[Len(post) + k] = kept[k]
  <2>1. /\ post' \in Seq(Posts) /\ Len(post') = Len(post) + n
        /\ \A k \in 1..Len(post) + n :
              post'[k] = IF k <= Len(post) THEN post[k] ELSE kept[k - Len(post)]
    BY <1>3, <1>4, ConcatProperties
  <2>2. Len(post) \in Nat /\ n \in Nat
    BY <1>3
  <2>3. ASSUME NEW k \in 1..n
        PROVE  Len(post) + k \in 1..Len(post') /\ post'[Len(post) + k] = kept[k]
    <3>1. /\ Len(post) + k \in 1..Len(post) + n /\ ~(Len(post) + k <= Len(post))
          /\ Len(post) + k - Len(post) = k
      BY <2>2
    <3> QED
      BY <2>1, <3>1
  <2> QED
    BY <2>1, <2>2, <2>3
<1>6. Shape'
  BY <1>1, <1>5 DEF Inv, Shape, RowsShape
<1>7. ASSUME NEW i \in ItemsOf(view.list), i \notin untold', ~Waits(i)'
      PROVE  Agree(db', view.list, view.filter, rows, i)
  <2>1. \A k \in 1..n : kept[k][2] # i
    BY <1>2, <1>5, <1>7 DEF Waits
  <2>2. i \notin untold /\ i \notin Changed(db, db')
    BY <1>1, <1>4, <1>7, <2>1
  <2>3. ~Waits(i)
    <3>1. Len(post) \in Nat /\ n \in Nat
      BY <1>3
    <3> QED
      BY <1>5, <1>7, <3>1 DEF Waits
  <2>4. view.list \in Lists
    BY <1>7 DEF Inv, Shape, ItemsOf, Lists
  <2>5. Agree(db, view.list, view.filter, rows, i)
    BY <1>7, <2>2, <2>3, ShownIs DEF Inv
  <2> QED
    BY <2>2, <2>4, <2>5, AgreeStays
<1>8. Shown'
  BY <1>1, <1>7 DEF Shown, Agree, ItemOf
<1> QED
  BY <1>6, <1>8 DEF Inv

LEMMA DaemonStep ==
    ASSUME Inv,
           \/ \E u \in Users, b \in BOOLEAN : Online(u, b)
           \/ \E c \in Calls, u, v \in Users : InitiateCall(c, u, v)
           \/ \E c \in Calls : EndCall(c)
    PROVE  Inv'
<1> USE MessageIs
<1>1. ASSUME NEW u \in Users, NEW b \in BOOLEAN, Online(u, b)
      PROVE  Inv'
  <2> DEFINE d == [db EXCEPT !.users[u].online = b]
             told == <<Message(u)>>
  <2>1. Update(d, told)
    BY <1>1 DEF Online
  <2>2. Complete(d)
    BY DEF Inv, Shape, Complete
  <2>3. \A k \in 1..Len(told) : told[k] \in Posts /\ told[k] = Message(told[k][2])
    BY MessageIs DEF Ids
  <2> HIDE DEF d, told
  <2> QED
    BY <2>1, <2>2, <2>3, UpdateShows
<1>2. ASSUME NEW c \in Calls, NEW u \in Users, NEW v \in Users, InitiateCall(c, u, v)
      PROVE  Inv'
  <2> DEFINE d == [db EXCEPT !.calls = [x \in DOMAIN @ \union {c} |->
                     IF x = c THEN [ends |-> <<u, v>>, open |-> TRUE] ELSE @[x]]]
  <2>0. PICK w \in Calls : Update(d, <<Message(u), Message(v), Message(w)>>)
    BY <1>2 DEF InitiateCall, Inv, Shape, Complete
  <2> DEFINE told == <<Message(u), Message(v), Message(w)>>
  <2>1. Update(d, told)
    BY <2>0
  <2>2. Complete(d)
    BY DEF Inv, Shape, Complete
  <2>3. \A k \in 1..Len(told) : told[k] \in Posts /\ told[k] = Message(told[k][2])
    BY MessageIs DEF Ids
  <2> HIDE DEF d, told
  <2> QED
    BY <2>1, <2>2, <2>3, UpdateShows
<1>3. ASSUME NEW c \in Calls, EndCall(c)
      PROVE  Inv'
  <2> DEFINE u == db.calls[c].ends[1]
             d == [db EXCEPT !.calls[c].open = FALSE]
  <2>0. PICK v \in Users : Update(d, <<Message(u), Message(v), Message(c)>>)
    BY <1>3 DEF EndCall
  <2> DEFINE told == <<Message(u), Message(v), Message(c)>>
  <2>1. Update(d, told) /\ c \in DOMAIN db.calls
    BY <1>3, <2>0 DEF EndCall
  <2>2. Complete(d)
    BY DEF Inv, Shape, Complete
  <2>3. u \in Ids /\ v \in Ids
    BY <2>1 DEF Inv, Shape, Complete, Ids
  <2>4. \A k \in 1..Len(told) : told[k] \in Posts /\ told[k] = Message(told[k][2])
    BY <2>3, MessageIs DEF Ids
  <2> HIDE DEF d, told
  <2> QED
    BY <2>1, <2>2, <2>4, UpdateShows
<1> QED
  BY <1>1, <1>2, <1>3

-----------------------------------------------------------------------------
(***************************************************************************)
(* The lists.                                                              *)
(***************************************************************************)
\* A list that has just been read shows what there is
LEMMA RefreshListShows ==
    ASSUME Inv, NEW list \in Lists, NEW filter, RefreshList(list, filter)
    PROVE  Inv'
<1>1. /\ view' = [NoView EXCEPT !.list = list, !.filter = filter]
      /\ rows' = [i \in Ids |-> IF i \in Listed(db, list, filter) THEN <<Look(db, list, i)>>
                                ELSE <<>>]
      /\ UNCHANGED <<db, file, post>>
  BY DEF RefreshList, dbVars
<1>2. /\ view'.list = list /\ view'.filter = filter /\ view'.dialog = "none"
      /\ DOMAIN view' = {"list", "filter", "dialog", "item", "held"}
      /\ view'.item = DefaultUser /\ view'.held = 0
  BY <1>1 DEF NoView
<1>3. ASSUME NEW i \in Ids
      PROVE  IsSequence(rows'[i]) /\ Len(rows'[i]) \in Nat
  <2>1. IsSequence(<<>>) /\ IsSequence(<<Look(db, list, i)>>)
    <3>1. <<>> \in Seq({}) /\ <<Look(db, list, i)>> \in Seq({Look(db, list, i)})
      OBVIOUS
    <3> QED
      BY <3>1, Zenon DEF IsSequence
  <2>2. rows'[i] = <<>> \/ rows'[i] = <<Look(db, list, i)>>
    BY <1>1
  <2> QED
    BY <2>1, <2>2, SequencesJoin
<1>4. DefaultUser \in Users /\ DefaultUser \in Ids
  BY NetadminAssumption DEF Ids
<1>5. RowsShape'
  BY <1>1, <1>2, <1>3, <1>4 DEF RowsShape
<1>6. Shown'
  BY <1>1, <1>2, ItemsAreIds DEF Shown, ItemOf
<1> QED
  BY <1>1, <1>2, <1>5, <1>6 DEF Inv, Shape

\* The dialog's item is still the user's when the first of his items has been looked up
LEMMA MovedIs ==
    ASSUME RowsShape, NEW d, NEW i \in Ids, NEW held \in 0..Len(rows[i])
    PROVE  Moved(d, i, 1, held) \in 0..Len(Refreshed(d, i)[i])
<1> DEFINE n == Len(rows[i])
           l == Len(ItemOf(d, i))
<1>1. n \in Nat /\ Len(Refreshed(d, i)[i]) = (IF n = 0 THEN 0 ELSE n - 1) + l
  BY RefreshedAgrees DEF Refreshed
<1>2. l \in 0..1 /\ (ItemOf(d, i) = <<>> <=> l = 0)
  BY ItemOfIs
<1>3. n = 0 => rows[i] = <<>>
  <2>1. IsSequence(rows[i])
    BY DEF RowsShape
  <2>2. PICK S : rows[i] \in Seq(S)
    BY <2>1 DEF IsSequence
  <2> QED
    BY <2>2, EmptySeq
<1>4. rows[i] = <<>> => n = 0
  BY EmptySeq
<1> HIDE DEF n, l
<1>5. CASE l = 1
  <2>1. Moved(d, i, 1, held) = held
    BY <1>2, <1>5 DEF Moved
  <2>2. held \in 0..n
    BY DEF n
  <2> QED
    BY <1>1, <1>5, <2>1, <2>2
<1>6. CASE l = 0
  <2>1. held \in 0..n
    BY DEF n
  <2>2. CASE n = 0
    BY <1>1, <1>3, <1>6, <2>1, <2>2 DEF Moved
  <2>3. CASE n # 0
    BY <1>1, <1>2, <1>4, <1>6, <2>1, <2>3 DEF Moved
  <2> QED
    BY <2>2, <2>3
<1> QED
  BY <1>2, <1>5, <1>6

\* A datagram that has been read no longer waits, but its row has been looked up
LEMMA UpdateDataShows ==
    ASSUME Inv, UpdateData(ItemsOf(view.list)), view.list \in Lists
    PROVE  Inv'
<1> DEFINE head == Head(post)[2]
<1>1. /\ post # <<>> /\ post' = Tail(post)
      /\ UNCHANGED <<db, file>>
      /\ IF head \in ItemsOf(view.list)
         THEN /\ rows' = Refreshed(db, head) /\ untold' = ToldOf(head)
              /\ view' = IF head = view.item THEN [view EXCEPT !.held = Moved(db, head, 1, @)]
                         ELSE view
         ELSE UNCHANGED <<rows, untold, view>>
  BY DEF UpdateData, dbVars
<1>2. /\ post \in Seq(Posts) /\ Head(post) = post[1] /\ Len(post) \in Nat /\ Len(post) >= 1
      /\ post' \in Seq(Posts) /\ Len(post') = Len(post) - 1
      /\ \A k \in 1..Len(post') : post'[k] = post[k + 1]
  BY <1>1 DEF Inv, Shape
<1>3. RowsShape /\ head \in ItemsOf(view.list) => head \in Ids
  BY ItemsAreIds DEF Inv, Shape
<1>4. /\ UNCHANGED <<view.list, view.filter, view.dialog, view.item>>
      /\ DOMAIN view' = DOMAIN view
  BY <1>1 DEF Inv, Shape
<1>5. ASSUME head \in ItemsOf(view.list)
      PROVE  /\ DOMAIN rows' = Ids
             /\ IsSequence(rows'[head]) /\ Len(rows[head]) \in Nat
             /\ Len(rows[head]) <= 1 => Agree(db, view.list, view.filter, rows', head)
             /\ \A i \in Ids : i # head => rows'[i] = rows[i]
  <2>1. RowsShape /\ head \in Ids /\ 1 \in 1..Len(rows[head]) \union {1}
    BY <1>3, <1>5 DEF Inv, Shape
  <2>2. rows' = RefreshItem(db, head, 1)
    BY <1>1, <1>5 DEF Refreshed
  <2> HIDE DEF head
  <2> QED
    BY <2>1, <2>2, RefreshedAgrees
<1>6. RowsShape'
  <2>1. CASE head \notin ItemsOf(view.list)
    BY <1>1, <2>1 DEF Inv, Shape, RowsShape
  <2>2. CASE head \in ItemsOf(view.list)
    <3>1. DOMAIN rows' = Ids /\ \A i \in Ids : IsSequence(rows'[i])
      BY <1>5, <2>2 DEF Inv, Shape, RowsShape
    <3>2. view'.item = view.item /\ view.item \in Users /\ view.item \in Ids
      BY <1>4 DEF Inv, Shape, RowsShape, Ids
    <3>3. CASE head = view.item
      <4>1. view'.held = Moved(db, head, 1, view.held)
        BY <1>1, <2>2, <3>3 DEF Inv, Shape
      <4>2. view.held \in 0..Len(rows[head])
        BY <3>3 DEF Inv, Shape, RowsShape
      <4>3. RowsShape /\ head \in Ids
        BY <3>2, <3>3 DEF Inv, Shape
      <4>4. Moved(db, head, 1, view.held) \in 0..Len(Refreshed(db, head)[head])
        BY <4>2, <4>3, MovedIs
      <4> QED
        BY <1>1, <2>2, <3>1, <3>2, <3>3, <4>1, <4>4 DEF RowsShape
    <3>4. CASE head # view.item
      BY <1>1, <1>5, <2>2, <3>1, <3>2, <3>4 DEF Inv, Shape, RowsShape
    <3> QED
      BY <3>3, <3>4
  <2> QED
    BY <2>1, <2>2
<1>7. Shape'
  BY <1>1, <1>2, <1>4, <1>6 DEF Inv, Shape
<1>8. ASSUME NEW i \in ItemsOf(view.list), i \notin untold', ~Waits(i)'
      PROVE  Agree(db, view.list, view.filter, rows', i)
  <2>1. CASE i = head
    BY <1>1, <1>5, <1>8, <2>1 DEF ToldOf
  <2>2. CASE i # head
    <3>1. post[1] # Message(i)
      BY <1>2, <2>2 DEF Message
    <3>2. \A k \in 2..Len(post) : post[k] # Message(i)
      <4>1. ASSUME NEW k \in 2..Len(post)
            PROVE  post[k] # Message(i)
        <5>1. k - 1 \in 1..Len(post') /\ (k - 1) + 1 = k
          BY <1>2
        <5>2. post'[k - 1] = post[k] /\ Message(i)' = Message(i)
          BY <1>2, <5>1 DEF Message
        <5> QED
          BY <1>8, <5>1, <5>2 DEF Waits
      <4> QED
        BY <4>1
    <3>3. ~Waits(i)
      BY <1>2, <3>1, <3>2 DEF Waits
    <3>4. i \notin untold
      BY <1>1, <1>8, <2>2 DEF ToldOf
    <3>5. Agree(db, view.list, view.filter, rows, i)
      BY <3>3, <3>4, ShownIs DEF Inv
    <3>6. rows'[i] = rows[i]
      BY <1>1, <1>5, <2>2, ItemsAreIds
    <3> QED
      BY <3>5, <3>6 DEF Agree
  <2> QED
    BY <2>1, <2>2
<1>9. Shown'
  BY <1>1, <1>4, <1>8 DEF Shown, Agree, ItemOf
<1> QED
  BY <1>7, <1>9 DEF Inv

LEMMA ListStep ==
    ASSUME Inv,
           \/ \E l \in Lists : OpenList(l)
           \/ ToggledData \/ CloseData \/ UserUpdateData \/ CallUpdateData
    PROVE  Inv'
<1>1. CASE \E l \in Lists : OpenList(l)
  BY <1>1, RefreshListShows DEF OpenList
<1>2. CASE ToggledData
  <2>1. view.list \in Lists
    BY <1>2 DEF ToggledData, Inv, Shape
  <2> QED
    BY <1>2, <2>1, RefreshListShows DEF ToggledData
<1>3. CASE CloseData
  BY <1>3, NothingShown DEF CloseData, dbVars, Inv, Shape
<1>4. CASE UserUpdateData
  BY <1>4, UpdateDataShows DEF UserUpdateData, ItemsOf, Lists
<1>5. CASE CallUpdateData
  BY <1>5, UpdateDataShows DEF CallUpdateData, ItemsOf, Lists
<1> QED
  BY <1>1, <1>2, <1>3, <1>4, <1>5

-----------------------------------------------------------------------------
(***************************************************************************)
(* The dialogs.                                                            *)
(***************************************************************************)
\* A dialog that is through has looked up its item, or owns up to its change
LEMMA LookedUpShows ==
    ASSUME Inv, view.list = "users", NEW d, Complete(d), db' = d, file' = file, post' = post,
           NEW u \in Users, \A i : i # u => i \notin Changed(db, d),
           DOMAIN rows' = Ids, IsSequence(rows'[u]), \A i \in Ids : i # u => rows'[i] = rows[i],
           \A i : i # u /\ i \notin untold' => i \notin untold,
           u \notin untold' => rows'[u] = ItemOf(d, u),
           NoDialog
    PROVE  Inv'
<1>1. /\ view'.list = view.list /\ view'.filter = view.filter /\ view'.dialog = "none"
      /\ view'.item = DefaultUser /\ view'.held = 0 /\ DOMAIN view' = DOMAIN view
  BY DEF NoDialog, Dialog, Inv, Shape
<1>2. u \in Ids /\ DefaultUser \in Users /\ DefaultUser \in Ids
  BY NetadminAssumption DEF Ids
<1>3. \A i \in Ids : IsSequence(rows'[i]) /\ Len(rows'[i]) \in Nat
  <2>1. \A i \in Ids : IsSequence(rows'[i])
    BY DEF Inv, Shape, RowsShape
  <2> QED
    BY <2>1, SequencesJoin
<1>4. RowsShape'
  BY <1>1, <1>2, <1>3 DEF RowsShape
<1>5. Shape'
  BY <1>1, <1>4 DEF Inv, Shape
<1>6. ASSUME NEW i \in ItemsOf(view.list), i \notin untold', ~Waits(i)'
      PROVE  Agree(d, view.list, view.filter, rows', i)
  <2>1. CASE i = u
    BY <1>6, <2>1 DEF Agree, ItemOf
  <2>2. CASE i # u
    <3>1. ~Waits(i) /\ i \notin untold /\ i \notin Changed(db, d)
      BY <1>6, <2>2 DEF Waits
    <3>2. view.list \in Lists
      BY DEF Lists
    <3>3. Agree(db, view.list, view.filter, rows, i)
      BY <1>6, <3>1, ShownIs DEF Inv
    <3>4. Agree(d, view.list, view.filter, rows, i)
      BY <3>1, <3>2, <3>3, AgreeStays
    <3>5. rows'[i] = rows[i]
      BY <1>6, <2>2, ItemsAreIds
    <3> QED
      BY <3>4, <3>5 DEF Agree
  <2> QED
    BY <2>1, <2>2
<1>7. Shown'
  BY <1>1, <1>6 DEF Shown, Agree, ItemOf
<1> QED
  BY <1>5, <1>7 DEF Inv

\* Or has lost its item: the program is dead, or the row is as it was
LEMMA LostShows ==
    ASSUME Inv, view.list = "users", NEW d, Complete(d), db' = d, file' = file,
           \A i : i # view.item => i \notin Changed(db, d),
           Dies \/ GoesOn
    PROVE  Inv'
<1>1. CASE Dies
  BY <1>1, NothingShown DEF Dies, Inv, Shape
<1>2. CASE GoesOn
  <2>1. view.item \in Users /\ RowsShape
    BY DEF Inv, Shape, RowsShape
  <2> QED
    BY <1>2, <2>1, LookedUpShows DEF GoesOn, RowsShape, Ids
<1> QED
  BY <1>1, <1>2

\* A row that was told about, or was looked up alone
LEMMA ToldOfIs ==
    ASSUME NEW u
    PROVE  /\ \A i : i # u /\ i \notin ToldOf(u) => i \notin untold
           /\ u \notin ToldOf(u) => Len(rows[u]) <= 1
BY DEF ToldOf

LEMMA FinishShows ==
    ASSUME Inv, view.list = "users", NEW d, Complete(d), file' = file,
           \A i : i # view.item => i \notin Changed(db, d), Finish(d)
    PROVE  Inv'
<1> DEFINE u == view.item
<1>0. db' = d /\ (FinishEdit(d) \/ FinishAdd(d)) /\ u \in Users /\ u \in Ids /\ RowsShape
  BY DEF Finish, Inv, Shape, RowsShape, Ids
<1>1. CASE Dies \/ GoesOn
  BY <1>0, <1>1, LostShows
<1>2. CASE /\ view.held > 0
           /\ rows' = RefreshItem(d, u, view.held) /\ untold' = ToldOf(u)
           /\ NoDialog
           /\ UNCHANGED <<at, post>>
  <2>1. view.held \in 1..Len(rows[u])
    BY <1>2 DEF Inv, Shape, RowsShape
  <2>2. /\ DOMAIN rows' = Ids /\ IsSequence(rows'[u]) /\ \A i \in Ids : i # u => rows'[i] = rows[i]
        /\ Len(rows[u]) <= 1 => rows'[u] = ItemOf(d, u)
    <3> DEFINE k == view.held
               r == RefreshItem(d, u, k)
    <3>0. k \in 1..Len(rows[u]) \union {1} /\ u \in Ids /\ RowsShape
      BY <1>0, <2>1
    <3>1. /\ DOMAIN r = Ids /\ IsSequence(r[u]) /\ \A i \in Ids : i # u => r[i] = rows[i]
          /\ Len(rows[u]) <= 1 => Agree(d, view.list, view.filter, r, u)
      <4> HIDE DEF u, k
      <4> QED
        BY <3>0, RefreshedAgrees
    <3> HIDE DEF r
    <3>2. rows' = r
      BY <1>2 DEF r
    <3> QED
      BY <3>1, <3>2 DEF Agree, ItemOf
  <2>3. /\ \A i : i # u /\ i \notin untold' => i \notin untold
        /\ u \notin untold' => rows'[u] = ItemOf(d, u)
    BY <1>2, <2>2, ToldOfIs
  <2> QED
    BY <1>0, <1>2, <2>2, <2>3, LookedUpShows
<1>3. CASE /\ ItemOf(d, u) # <<>>
           /\ rows' \in {[rows EXCEPT ![u] = ItemOf(d, u) \o @],
                         [rows EXCEPT ![u] = @ \o ItemOf(d, u)]}
           /\ untold' = IF rows[u] = <<>> THEN untold \ {u} ELSE untold \union {u}
           /\ NoDialog
           /\ UNCHANGED <<at, post>>
  <2>1. IsSequence(rows[u]) /\ IsSequence(ItemOf(d, u)) /\ DOMAIN rows = Ids
    BY <1>0, ItemOfIs DEF RowsShape
  <2> DEFINE s == rows[u]
             item == ItemOf(d, u)
  <2>2. /\ IsSequence(item \o s) /\ IsSequence(s \o item)
        /\ s = <<>> => item \o s = item /\ s \o item = item
    BY <2>1, SequencesJoin
  <2>3. PICK t \in {item \o s, s \o item} : rows' = [rows EXCEPT ![u] = t]
    BY <1>3
  <2>4. IsSequence(t) /\ (s = <<>> => t = item)
    BY <2>2, <2>3
  <2>5. DOMAIN rows' = Ids /\ rows'[u] = t /\ \A i \in Ids : i # u => rows'[i] = rows[i]
    BY <1>0, <2>1, <2>3
  <2>6. /\ \A i : i # u /\ i \notin untold' => i \notin untold
        /\ u \notin untold' => rows'[u] = ItemOf(d, u)
    BY <1>3, <2>4, <2>5
  <2> HIDE DEF s, item
  <2> QED
    BY <1>0, <1>3, <2>4, <2>5, <2>6, LookedUpShows
<1> QED
  BY <1>0, <1>1, <1>2, <1>3 DEF FinishEdit, FinishAdd

LEMMA NothingChanged == \A i : i \notin Changed(db, db)
BY DEF Changed

LEMMA DialogStep ==
    ASSUME Inv,
           \/ \E u \in Users : EditData(u) \/ DeleteData(u) \/ AddData(u)
           \/ \E i \in Infos : OkData(i)
           \/ Reject \/ RejectName \/ DeleteYes \/ CancelData
    PROVE  Inv'
<1>0. /\ Complete(db) /\ Complete(file) /\ post \in Seq(Posts) /\ RowsShape
      /\ view.dialog # "none" => view.list = "users"
      /\ view.item \in Users
  BY DEF Inv, Shape, RowsShape
<1>1. CASE \E u \in Users : EditData(u) \/ DeleteData(u)
  <2>0. PICK u \in Users : OpenDialog("edit", u) \/ OpenDialog("delete", u)
    BY <1>1 DEF EditData, DeleteData
  <2>1. PICK k \in 1..Len(rows[u]) :
           /\ Dialog("edit", u, k) \/ Dialog("delete", u, k)
           /\ Idle("users") /\ UNCHANGED <<dbVars, left, post, rows, untold>>
    BY <2>0 DEF OpenDialog
  <2>2. /\ view'.list = view.list /\ view'.filter = view.filter /\ DOMAIN view' = DOMAIN view
        /\ view'.item = u /\ view'.held = k /\ view.list = "users"
    BY <2>1 DEF Dialog, Idle, Inv, Shape
  <2>3. k \in 0..Len(rows[u])
    BY <2>1
  <2> QED
    BY <1>0, <2>1, <2>2, <2>3, NothingChanged, NothingReshown DEF dbVars
<1>2. CASE \E u \in Users : AddData(u)
  <2>1. PICK u \in Users : AddData(u)
    BY <1>2
  <2>2. /\ db' = With(u, NewUser) /\ untold' = untold \union {u} /\ view.list = "users"
        /\ Dialog("add", u, 0)
        /\ UNCHANGED <<file, post, rows>>
    BY <2>1 DEF AddData, Idle
  <2>3. /\ view'.list = view.list /\ view'.filter = view.filter /\ DOMAIN view' = DOMAIN view
        /\ view'.item = u /\ view'.held = 0
    BY <2>2 DEF Dialog, Inv, Shape
  <2>4. Complete(db') /\ \A i : i # u => i \notin Changed(db, db')
    BY <1>0, <2>2, WithTouches
  <2>5. 0 \in 0..Len(rows[u])
    <3>1. IsSequence(rows[u])
      BY <1>0 DEF RowsShape, Ids
    <3>2. Len(rows[u]) \in Nat
      BY <3>1, SequencesJoin
    <3> QED
      BY <3>2
  <2> QED
    BY <1>0, <2>2, <2>3, <2>4, <2>5, NothingReshown
<1>3. CASE \E i \in Infos : OkData(i)
  <2>1. PICK info \in Infos : OkData(info)
    BY <1>3
  <2> DEFINE u == view.item
             d == IF u \in DOMAIN db.users THEN With(u, [db.users[u] EXCEPT !.info = info]) ELSE db
  <2>2. view.dialog # "none" /\ Finish(d) /\ file' = file
    BY <2>1 DEF OkData
  <2>3. Complete(d) /\ \A i : i # u => i \notin Changed(db, d)
    BY <1>0, WithTouches, NothingChanged
  <2> HIDE DEF d
  <2> QED
    BY <1>0, <2>2, <2>3, FinishShows
<1>4. CASE Reject
  BY <1>0, <1>4, FinishShows, NothingChanged DEF Reject
<1>5. CASE RejectName
  BY <1>0, <1>5, NothingShown DEF RejectName, Dies
<1>6. CASE DeleteYes
  <2> DEFINE u == view.item
             k == view.held
  <2>1. file' = file /\ view.list = "users" /\ u \in Users /\ u \in Ids
    BY <1>0, <1>6 DEF DeleteYes, Ids
  <2>2. Complete(Without(u)) /\ \A i : i # u => i \notin Changed(db, Without(u))
    BY <1>0, WithoutTouches
  <2>3. CASE db' \in {db, Without(u)} /\ (Dies \/ GoesOn)
    BY <1>0, <2>1, <2>2, <2>3, LostShows, NothingChanged
  <2>4. CASE /\ k > 0 /\ db' = Without(u)
             /\ rows' = [rows EXCEPT ![u] = SubSeq(@, 1, k - 1) \o SubSeq(@, k + 1, Len(@))]
             /\ untold' = ToldOf(u) /\ NoDialog /\ UNCHANGED <<at, post>>
    <3> DEFINE s == rows[u]
               t == SubSeq(s, 1, k - 1) \o SubSeq(s, k + 1, Len(s))
               none == ItemOf(Without(u), u)
    <3>1. k \in 1..Len(s) /\ IsSequence(s) /\ DOMAIN rows = Ids
      BY <1>0, <2>1, <2>4 DEF RowsShape
    <3>2. none = <<>>
      BY <1>0, <2>1 DEF ItemOf, Listed, Without, Complete
    <3>3. IsSequence(none)
      BY ItemOfIs
    <3>4. IsSequence(t) /\ (Len(s) <= 1 => t = none)
      <4>1. LET r == SubSeq(s, 1, k - 1) \o <<>> \o SubSeq(s, k + 1, Len(s))
            IN  IsSequence(r) /\ (Len(s) <= 1 => r = <<>>)
        BY <3>1, <3>2, <3>3, Replaced
      <4>2. IsSequence(SubSeq(s, 1, k - 1))
        <5>1. Len(s) \in Nat
          BY <3>1, SequencesJoin
        <5>2. 1 \in Nat \ {0} /\ k - 1 \in 0..Len(s)
          BY <3>1, <5>1
        <5> QED
          BY <3>1, <5>2, PartsAre, Zenon
      <4>3. SubSeq(s, 1, k - 1) \o <<>> = SubSeq(s, 1, k - 1)
        BY <3>2, <3>3, <4>2, SequencesJoin
      <4> QED
        BY <3>2, <4>1, <4>3
    <3>5. rows' = [rows EXCEPT ![u] = t]
      BY <2>4
    <3> HIDE DEF t, none
    <3>6. DOMAIN rows' = Ids /\ rows'[u] = t /\ \A i \in Ids : i # u => rows'[i] = rows[i]
      BY <2>1, <3>1, <3>5
    <3>7. /\ \A i : i # u /\ i \notin untold' => i \notin untold
          /\ u \notin untold' => rows'[u] = ItemOf(Without(u), u)
      BY <2>4, <3>4, <3>6, ToldOfIs DEF none
    <3> QED
      BY <1>0, <2>1, <2>2, <2>4, <3>4, <3>6, <3>7, LookedUpShows
  <2> QED
    BY <1>6, <2>3, <2>4 DEF DeleteYes
<1>7. CASE CancelData
  <2>1. /\ db' = db /\ UNCHANGED <<file, post, rows, untold>>
        /\ view.dialog # "none" /\ NoDialog
    BY <1>7 DEF CancelData, dbVars
  <2>2. /\ view'.list = view.list /\ view'.filter = view.filter /\ DOMAIN view' = DOMAIN view
        /\ view'.item = DefaultUser /\ view'.held = 0
    BY <2>1 DEF NoDialog, Dialog, Inv, Shape
  <2>3. DefaultUser \in Users /\ 0 \in 0..Len(rows[DefaultUser])
    <3>1. DefaultUser \in Users /\ IsSequence(rows[DefaultUser])
      BY <1>0, NetadminAssumption DEF RowsShape, Ids
    <3>2. Len(rows[DefaultUser]) \in Nat
      BY <3>1, SequencesJoin
    <3> QED
      BY <3>1, <3>2
  <2> QED
    BY <1>0, <2>1, <2>2, <2>3, NothingChanged, NothingReshown
<1> QED
  BY <1>1, <1>2, <1>3, <1>4, <1>5, <1>6, <1>7

\* Another copy's dialogs
LEMMA ElsewhereStep ==
    ASSUME Inv, NEW a \in Admins, NEW u \in Users, Elsewhere(a, u)
    PROVE  Inv'
<1>1. /\ db' \in {Without(u)} \union {With(u, [db.users[u] EXCEPT !.info = i]) : i \in Infos}
      /\ untold' = untold \union Changed(db, db')
      /\ UNCHANGED <<file, post, view, rows>>
  BY DEF Elsewhere
<1>2. Complete(Without(u)) /\ \A row : Complete(With(u, row))
  BY WithTouches, WithoutTouches DEF Inv, Shape
<1>3. Complete(db')
  BY <1>1, <1>2
<1> QED
  BY <1>1, <1>3, NothingReshown DEF Inv, Shape, RowsShape

-----------------------------------------------------------------------------
(***************************************************************************)
(* What a copy does outside its lists.                                     *)
(***************************************************************************)
LEMMA EffectComplete ==
    ASSUME Complete(db), Complete(file), NEW a, NEW s
    PROVE  Complete(Effect(a, s))
<1>1. \A t, sp : Complete(Copied(t, NoDb, sp)) /\ Complete(Copied(t, file, sp))
  BY DEF Copied, Complete, NoDb, Empty
<1>2. \A t, cs : Complete(NewTable(t, cs))
  BY DEF NewTable, Complete
<1>3. \A x : Complete([NoDb EXCEPT !.spoilt = x])
  BY DEF NoDb, Complete, Empty
<1>4. /\ \A x : Complete([db EXCEPT !.exists = x]) /\ Complete([db EXCEPT !.columns = x])
      /\ \A x : Complete([db EXCEPT !.users = x]) /\ Complete([db EXCEPT !.versions = x])
  BY DEF Complete
<1> QED
  BY <1>1, <1>2, <1>3, <1>4 DEF Effect

LEMMA MainStep ==
    ASSUME Inv, NEW a \in Admins, Main(a)
    PROVE  Inv'
<1>1. Complete(db') /\ Complete(file')
  <2>1. Complete(db) /\ Complete(file) /\ Complete(NoDb)
    BY DEF Inv, Shape, Complete, NoDb, Empty
  <2>2. CASE StartNetAdmin(a) \/ LogIn(a) \/ Leave(a) \/ RestoreData(a)
    <3>1. UNCHANGED <<db, file>>
      BY <2>2 DEF StartNetAdmin, LogIn, Leave, RestoreData
    <3> QED
      BY <2>1, <3>1
  <2>3. CASE BackupData(a)
    <3>1. Complete([db EXCEPT !.spoilt = "trodden"])
      BY <2>1 DEF Complete
    <3> QED
      BY <2>1, <2>3, <3>1 DEF BackupData
  <2>4. CASE RunQuery(a)
    <3>1. \A s, x : Complete(Effect(a, s)) /\ Complete([db EXCEPT !.spoilt = x])
      BY <2>1, EffectComplete DEF Complete
    <3>2. \/ db' = Effect(a, Head(todo[a])) \/ db' = db
          \/ db' \in Failed(a, Head(todo[a]))
      BY <2>4 DEF RunQuery
    <3>3. file' = file
      BY <2>4 DEF RunQuery
    <3> QED
      BY <2>1, <3>1, <3>2, <3>3 DEF Failed
  <2> QED
    BY <2>2, <2>3, <2>4 DEF Main
<1>2. CASE at'[Viewer] = "out"
  BY <1>1, <1>2, NothingShown DEF Main
<1>3. CASE at'[Viewer] # "out"
  BY <1>1, <1>3, NothingReshown DEF Main, Inv, Shape, RowsShape
<1> QED
  BY <1>2, <1>3

-----------------------------------------------------------------------------
LEMMA InvStep == Inv /\ [Next]_adminVars => Inv'
<1>1. ASSUME Inv, UNCHANGED adminVars
      PROVE  Inv'
  BY <1>1, NothingChanged, NothingReshown DEF adminVars, dbVars, Inv, Shape, RowsShape
<1> QED
  BY <1>1, MainStep, ElsewhereStep, DaemonStep, ListStep, DialogStep DEF Next

LEMMA InvInit == Init => Inv
<1> SUFFICES ASSUME Init
             PROVE  Inv
  OBVIOUS
<1>1. view = NoView /\ rows = NoRows /\ post = <<>> /\ Complete(db) /\ Complete(file)
  BY NetadminAssumption DEF Init, DbInit
<1>2. RowsShape
  BY <1>1, NoRowsShape DEF RowsShape
<1> QED
  BY <1>1, <1>2 DEF Inv, Shape, Shown, NoView, ItemsOf, Lists

\* For any users and calls, whatever statements fail and whoever dies, adds, edits or
\* restores in between: an open list has one item of a user or call its box asks for, with
\* what the database holds, and none of the others.  Except while a datagram about it is
\* still to be read, was lost or never sent, or, until it is looked up again, a dialog of
\* its item was through after a datagram had deleted the item (list_users.cpp:191-230) or
\* had made one of the user it was adding (170-185).
THEOREM AlwaysShown == Spec => []Shown
<1>1. Inv => Shown
  BY DEF Inv
<1> QED
  BY InvInit, InvStep, <1>1, PTL DEF Spec

-----------------------------------------------------------------------------
(***************************************************************************)
(* The programs of statements.                                             *)
(***************************************************************************)
Statements ==
    {<<"drop", "DATABASE">>, <<"create", "DATABASE">>, <<"insert", "USERS">>,
     <<"insert", "VERSION">>, <<"create old", "CALLS">>, <<"update", "VERSION">>,
     <<"select", "VERSION">>}
    \union ({"create", "drop", "load"} \X Tables) \union ({"add"} \X Columns)

\* When in a program a statement comes: 0 to 6 open the database, 10 to 13 restore it
Phase(s) ==
    CASE s = <<"drop", "DATABASE">> -> 0
      [] s = <<"create", "DATABASE">> -> 1
      [] s[1] = "create" /\ s[2] \in Tables -> 2
      [] s = <<"insert", "USERS">> -> 3
      [] s = <<"insert", "VERSION">> -> 4
      [] s[1] \in {"add", "create old"} -> 5
      [] s = <<"update", "VERSION">> -> 6
      [] s[1] = "drop" /\ s[2] \in Tables -> 10
      [] s[1] = "load" /\ s[2] # "VERSION" -> 11
      [] s = <<"load", "VERSION">> -> 12
      [] OTHER -> 13

Members(p) == {p[k] : k \in 1..Len(p)}

\* The statements of p come in their phases, and the phases are of lo to hi
Runs(p, lo, hi) ==
    /\ p \in Seq(Statements)
    /\ \A k \in 1..Len(p) : lo <= Phase(p[k]) /\ Phase(p[k]) <= hi
    /\ \A k, l \in 1..Len(p) : k < l => Phase(p[k]) <= Phase(p[l])

\* Whoever drops the database creates it, whoever creates it creates its tables
Whole(M) ==
    /\ <<"drop", "DATABASE">> \in M => <<"create", "DATABASE">> \in M
    /\ <<"create", "DATABASE">> \in M => \A t \in Tables : <<"create", t>> \in M

Program(p) == (Runs(p, 0, 6) \/ Runs(p, 10, 13)) /\ Whole(Members(p))

LEMMA PhaseIs ==
    /\ Phase(<<"drop", "DATABASE">>) = 0 /\ Phase(<<"create", "DATABASE">>) = 1
    /\ Phase(<<"insert", "USERS">>) = 3 /\ Phase(<<"insert", "VERSION">>) = 4
    /\ Phase(<<"create old", "CALLS">>) = 5 /\ Phase(<<"update", "VERSION">>) = 6
    /\ Phase(<<"select", "VERSION">>) = 13
    /\ \A t \in Tables : /\ Phase(<<"create", t>>) = 2 /\ Phase(<<"drop", t>>) = 10
                         /\ Phase(<<"load", t>>) = IF t = "VERSION" THEN 12 ELSE 11
    /\ \A c \in Columns : Phase(<<"add", c>>) = 5
<1>1. /\ Phase(<<"drop", "DATABASE">>) = 0 /\ Phase(<<"create", "DATABASE">>) = 1
      /\ Phase(<<"insert", "USERS">>) = 3 /\ Phase(<<"insert", "VERSION">>) = 4
      /\ Phase(<<"create old", "CALLS">>) = 5 /\ Phase(<<"update", "VERSION">>) = 6
      /\ Phase(<<"select", "VERSION">>) = 13
  BY DEF Phase, Tables
<1>2. ASSUME NEW t \in Tables
      PROVE  /\ Phase(<<"create", t>>) = 2 /\ Phase(<<"drop", t>>) = 10
             /\ Phase(<<"load", t>>) = IF t = "VERSION" THEN 12 ELSE 11
  <2>1. t # "DATABASE"
    BY DEF Tables
  <2> QED
    BY <2>1 DEF Phase
<1>3. ASSUME NEW c \in Columns
      PROVE  Phase(<<"add", c>>) = 5
  BY DEF Phase
<1> QED
  BY <1>1, <1>2, <1>3

\* The kinds of statements
LEMMA KindIs ==
    ASSUME NEW s \in Statements
    PROVE  \/ s = <<"drop", "DATABASE">> /\ Phase(s) = 0
           \/ s = <<"create", "DATABASE">> /\ Phase(s) = 1
           \/ (\E t \in Tables : s = <<"create", t>>) /\ Phase(s) = 2
           \/ s = <<"insert", "USERS">> /\ Phase(s) = 3
           \/ s = <<"insert", "VERSION">> /\ Phase(s) = 4
           \/ s = <<"create old", "CALLS">> /\ Phase(s) = 5
           \/ (\E c \in Columns : s = <<"add", c>>) /\ Phase(s) = 5
           \/ s = <<"update", "VERSION">> /\ Phase(s) = 6
           \/ (\E t \in Tables : s = <<"drop", t>>) /\ Phase(s) = 10
           \/ (\E t \in Tables \ {"VERSION"} : s = <<"load", t>>) /\ Phase(s) = 11
           \/ s = <<"load", "VERSION">> /\ Phase(s) = 12
           \/ s = <<"select", "VERSION">> /\ Phase(s) = 13
<1>1. CASE s \in {<<"drop", "DATABASE">>, <<"create", "DATABASE">>, <<"insert", "USERS">>,
                  <<"insert", "VERSION">>, <<"create old", "CALLS">>, <<"update", "VERSION">>,
                  <<"select", "VERSION">>}
  BY <1>1, PhaseIs
<1>2. CASE \E verb \in {"create", "drop", "load"}, t \in Tables : s = <<verb, t>>
  <2>1. PICK verb \in {"create", "drop", "load"}, t \in Tables : s = <<verb, t>>
    BY <1>2
  <2>2. CASE verb = "create"
    BY <2>1, <2>2, PhaseIs
  <2>3. CASE verb = "drop"
    BY <2>1, <2>3, PhaseIs
  <2>4. CASE verb = "load" /\ t = "VERSION"
    BY <2>1, <2>4, PhaseIs
  <2>5. CASE verb = "load" /\ t # "VERSION"
    BY <2>1, <2>5, PhaseIs
  <2> QED
    BY <2>1, <2>2, <2>3, <2>4, <2>5
<1>3. CASE \E c \in Columns : s = <<"add", c>>
  BY <1>3, PhaseIs
<1>4. \/ s \in {<<"drop", "DATABASE">>, <<"create", "DATABASE">>, <<"insert", "USERS">>,
                <<"insert", "VERSION">>, <<"create old", "CALLS">>, <<"update", "VERSION">>,
                <<"select", "VERSION">>}
      \/ \E verb \in {"create", "drop", "load"}, t \in Tables : s = <<verb, t>>
      \/ \E c \in Columns : s = <<"add", c>>
  <2>1. CASE s \in {"create", "drop", "load"} \X Tables
    <3>1. s[1] \in {"create", "drop", "load"} /\ s[2] \in Tables /\ s = <<s[1], s[2]>>
      BY <2>1
    <3> QED
      BY <3>1, Zenon
  <2>2. CASE s \in {"add"} \X Columns
    <3>1. s[1] = "add" /\ s[2] \in Columns /\ s = <<s[1], s[2]>>
      BY <2>2
    <3> QED
      BY <3>1, Zenon
  <2> QED
    BY <2>1, <2>2, Zenon DEF Statements
<1> QED
  BY <1>1, <1>2, <1>3, <1>4, Zenon

LEMMA KindOf ==
    ASSUME NEW s \in Statements
    PROVE  \/ s \in {<<"drop", "DATABASE">>, <<"create", "DATABASE">>, <<"insert", "USERS">>,
                    <<"insert", "VERSION">>, <<"create old", "CALLS">>, <<"update", "VERSION">>,
                    <<"select", "VERSION">>}
           \/ \E t \in Tables : s = <<"create", t>>
           \/ \E t \in Tables : s = <<"drop", t>>
           \/ \E t \in Tables : s = <<"load", t>>
           \/ \E c \in Columns : s = <<"add", c>>
<1>1. "VERSION" \in Tables
  BY DEF Tables
<1> QED
  BY <1>1, KindIs, Zenon

LEMMA PhaseType == ASSUME NEW s \in Statements PROVE Phase(s) \in 0..13
<1>1. Phase(s) \in {0, 1, 2, 3, 4, 5, 6, 10, 11, 12, 13}
  BY KindIs, Zenon
<1> QED
  BY <1>1

\* The first statement of a program and the rest of it
LEMMA HeadAndTail ==
    ASSUME NEW p, Program(p), p # <<>>
    PROVE  /\ Head(p) \in Statements /\ Program(Tail(p))
           /\ Members(p) = {Head(p)} \union Members(Tail(p))
           /\ Members(p) \subseteq Statements
           /\ \A s \in Members(p) : Phase(Head(p)) <= Phase(s) /\ (Phase(s) <= 6 <=> Phase(Head(p)) <= 6)
<1>1. /\ p \in Seq(Statements) /\ Head(p) = p[1] /\ Len(p) \in Nat /\ Len(p) >= 1
      /\ Tail(p) \in Seq(Statements) /\ Len(Tail(p)) = Len(p) - 1
      /\ \A k \in 1..Len(Tail(p)) : Tail(p)[k] = p[k + 1] /\ k + 1 \in 1..Len(p)
  BY DEF Program, Runs
<1>2. \A k \in 1..Len(p) : p[k] \in Statements /\ Phase(p[k]) \in 0..13
  BY <1>1, PhaseType
<1>3. \A lo, hi \in Nat : Runs(p, lo, hi) => Runs(Tail(p), lo, hi)
  BY <1>1, <1>2 DEF Runs
<1>4. Members(p) = {Head(p)} \union Members(Tail(p))
  <2>1. ASSUME NEW s \in Members(p)
        PROVE  s \in {Head(p)} \union Members(Tail(p))
    <3>1. PICK k \in 1..Len(p) : s = p[k]
      BY DEF Members
    <3>2. CASE k # 1
      <4>1. k - 1 \in 1..Len(Tail(p)) /\ (k - 1) + 1 = k
        BY <1>1, <3>2
      <4> QED
        BY <1>1, <3>1, <4>1 DEF Members
    <3> QED
      BY <1>1, <3>1, <3>2
  <2>2. Members(Tail(p)) \subseteq Members(p) /\ Head(p) \in Members(p)
    BY <1>1 DEF Members
  <2> QED
    BY <2>1, <2>2
<1>5. \A s \in Members(p) : /\ Phase(Head(p)) <= Phase(s)
                            /\ Phase(s) <= 6 <=> Phase(Head(p)) <= 6
  BY <1>1, <1>2 DEF Members, Program, Runs
<1>6. Members(p) \subseteq Statements
  BY <1>2 DEF Members
<1>7. Whole(Members(Tail(p)))
  <2>1. ASSUME <<"drop", "DATABASE">> \in Members(Tail(p))
        PROVE  <<"create", "DATABASE">> \in Members(Tail(p))
    <3>1. Phase(Head(p)) <= Phase(<<"drop", "DATABASE">>)
      BY <1>4, <1>5, <2>1
    <3>2. Phase(<<"drop", "DATABASE">>) = 0 /\ Phase(<<"create", "DATABASE">>) = 1
      BY PhaseIs
    <3>3. Head(p) # <<"create", "DATABASE">>
      BY <3>1, <3>2
    <3> QED
      BY <1>4, <2>1, <3>3 DEF Program, Whole
  <2>2. ASSUME <<"create", "DATABASE">> \in Members(Tail(p)), NEW t \in Tables
        PROVE  <<"create", t>> \in Members(Tail(p))
    <3>1. Phase(Head(p)) <= Phase(<<"create", "DATABASE">>)
      BY <1>4, <1>5, <2>2
    <3>2. Phase(<<"create", "DATABASE">>) = 1 /\ Phase(<<"create", t>>) = 2
      BY PhaseIs
    <3>3. Head(p) # <<"create", t>>
      BY <3>1, <3>2
    <3> QED
      BY <1>4, <2>2, <3>3 DEF Program, Whole
  <2> QED
    BY <2>1, <2>2 DEF Whole
<1> QED
  BY <1>1, <1>3, <1>4, <1>5, <1>6, <1>7 DEF Program

LEMMA NoProgram == Program(<<>>) /\ Members(<<>>) = {}
BY DEF Program, Runs, Members, Whole

\* Two programs one after the other
LEMMA Joined ==
    ASSUME NEW p, NEW q, NEW lo \in Nat, NEW last \in Nat, NEW first \in Nat, NEW hi \in Nat,
           Runs(p, lo, last), Runs(q, first, hi), last <= first, lo <= first, last <= hi
    PROVE  Runs(p \o q, lo, hi) /\ Members(p \o q) = Members(p) \union Members(q)
<1> DEFINE r == p \o q
<1>1. p \in Seq(Statements) /\ q \in Seq(Statements) /\ Len(p) \in Nat /\ Len(q) \in Nat
  BY DEF Runs
<1>2. /\ r \in Seq(Statements) /\ Len(r) = Len(p) + Len(q)
      /\ \A k \in 1..Len(p) + Len(q) : r[k] = IF k <= Len(p) THEN p[k] ELSE q[k - Len(p)]
  BY <1>1, ConcatProperties
<1>3. \A k \in 1..Len(r) : \/ k \in 1..Len(p) /\ r[k] = p[k]
                           \/ k > Len(p) /\ k - Len(p) \in 1..Len(q) /\ r[k] = q[k - Len(p)]
  BY <1>1, <1>2
<1>4. \A k \in 1..Len(q) : Len(p) + k \in 1..Len(r) /\ r[Len(p) + k] = q[k]
  <2>1. ASSUME NEW k \in 1..Len(q)
        PROVE  Len(p) + k \in 1..Len(r) /\ r[Len(p) + k] = q[k]
    <3>1. /\ Len(p) + k \in 1..Len(p) + Len(q) /\ ~(Len(p) + k <= Len(p))
          /\ Len(p) + k - Len(p) = k
      BY <1>1
    <3> QED
      BY <1>2, <3>1
  <2> QED
    BY <2>1
<1>5. \A k \in 1..Len(p) : k \in 1..Len(r) /\ r[k] = p[k]
  BY <1>1, <1>2
<1> HIDE DEF r
<1>6. \A k \in 1..Len(p) : Phase(p[k]) \in 0..13
  BY <1>1, PhaseType
<1>7. \A k \in 1..Len(q) : Phase(q[k]) \in 0..13
  BY <1>1, PhaseType
<1>8. ASSUME NEW k \in 1..Len(r)
      PROVE  lo <= Phase(r[k]) /\ Phase(r[k]) <= hi
  <2>1. CASE k \in 1..Len(p) /\ r[k] = p[k]
    <3>1. lo <= Phase(p[k]) /\ Phase(p[k]) <= last /\ Phase(p[k]) \in 0..13
      BY <1>6, <2>1 DEF Runs
    <3> QED
      BY <2>1, <3>1
  <2>2. CASE \E j \in 1..Len(q) : r[k] = q[j]
    <3>1. PICK j \in 1..Len(q) : r[k] = q[j]
      BY <2>2
    <3>2. first <= Phase(q[j]) /\ Phase(q[j]) <= hi /\ Phase(q[j]) \in 0..13
      BY <1>7, <3>1 DEF Runs
    <3>3. lo <= Phase(q[j])
      BY <3>2
    <3> QED
      BY <3>1, <3>2, <3>3, Zenon
  <2> QED
    BY <1>3, <2>1, <2>2
<1>9. \A k, l \in 1..Len(r) : k < l => Phase(r[k]) <= Phase(r[l])
  <2>1. ASSUME NEW k \in 1..Len(r), NEW l \in 1..Len(r), k < l
        PROVE  Phase(r[k]) <= Phase(r[l])
    <3>1. CASE l \in 1..Len(p) /\ r[l] = p[l]
      <4>1. k \in 1..Len(p) /\ r[k] = p[k]
        BY <1>1, <1>3, <2>1, <3>1
      <4> QED
        BY <2>1, <3>1, <4>1 DEF Runs
    <3>2. CASE k \in 1..Len(p) /\ r[k] = p[k] /\ \E j \in 1..Len(q) : r[l] = q[j]
      <4>1. PICK j \in 1..Len(q) : r[l] = q[j]
        BY <3>2
      <4>2. Phase(p[k]) <= last /\ Phase(p[k]) \in 0..13
        BY <1>6, <3>2 DEF Runs
      <4>3. first <= Phase(q[j]) /\ Phase(q[j]) \in 0..13
        BY <1>7, <4>1 DEF Runs
      <4>4. \A x, y \in 0..13 : x <= last /\ first <= y => x <= y
        OBVIOUS
      <4>5. Phase(p[k]) <= Phase(q[j])
        BY <4>2, <4>3, <4>4, Zenon
      <4> QED
        BY <3>2, <4>1, <4>5, Zenon
    <3>3. CASE /\ k - Len(p) \in 1..Len(q) /\ r[k] = q[k - Len(p)]
               /\ l - Len(p) \in 1..Len(q) /\ r[l] = q[l - Len(p)]
      <4>1. k - Len(p) < l - Len(p)
        BY <1>1, <2>1
      <4> QED
        BY <3>3, <4>1 DEF Runs
    <3> QED
      BY <1>3, <2>1, <3>1, <3>2, <3>3
  <2> QED
    BY <2>1
<1>10. Runs(r, lo, hi)
  BY <1>2, <1>8, <1>9 DEF Runs, r
<1>11. Members(r) = Members(p) \union Members(q)
  <2>1. Members(r) \subseteq Members(p) \union Members(q)
    BY <1>3 DEF Members
  <2>2. Members(p) \subseteq Members(r)
    BY <1>5 DEF Members
  <2>3. Members(q) \subseteq Members(r)
    BY <1>4 DEF Members
  <2> QED
    BY <2>1, <2>2, <2>3
<1> QED
  BY <1>10, <1>11 DEF r

\* Statements of one phase
LEMMA OnePhase ==
    ASSUME NEW p \in Seq(Statements), NEW n \in Nat, \A s \in Members(p) : Phase(s) = n
    PROVE  Runs(p, n, n)
BY DEF Runs, Members

LEMMA WhenIs ==
    ASSUME NEW b, NEW p, NEW lo \in Nat, NEW hi \in Nat, Runs(p, lo, hi)
    PROVE  /\ Runs(When(b, p), lo, hi)
           /\ Members(When(b, p)) = IF b THEN Members(p) ELSE {}
<1>1. Runs(<<>>, lo, hi)
  BY DEF Runs
<1>2. CASE b
  BY <1>2 DEF When
<1>3. CASE ~b
  BY <1>1, <1>3, NoProgram DEF When
<1> QED
  BY <1>2, <1>3

LEMMA FewMembers ==
    ASSUME NEW s1 \in Statements, NEW s2 \in Statements
    PROVE  /\ <<s1>> \in Seq(Statements) /\ Members(<<s1>>) = {s1}
           /\ <<s1, s2>> \in Seq(Statements) /\ Members(<<s1, s2>>) = {s1, s2}
<1>1. 1..1 = {1} /\ 1..2 = {1, 2}
  OBVIOUS
<1> QED
  BY <1>1 DEF Members

LEMMA ThreeMembers ==
    ASSUME NEW s1 \in Statements, NEW s2 \in Statements, NEW s3 \in Statements
    PROVE  <<s1, s2, s3>> \in Seq(Statements) /\ Members(<<s1, s2, s3>>) = {s1, s2, s3}
<1>1. 1..3 = {1, 2, 3}
  OBVIOUS
<1> QED
  BY <1>1 DEF Members

LEMMA FourMembers ==
    ASSUME NEW s1 \in Statements, NEW s2 \in Statements, NEW s3 \in Statements,
           NEW s4 \in Statements
    PROVE  /\ <<s1, s2, s3, s4>> \in Seq(Statements)
           /\ Members(<<s1, s2, s3, s4>>) = {s1, s2, s3, s4}
<1>1. 1..4 = {1, 2, 3, 4}
  OBVIOUS
<1> QED
  BY <1>1 DEF Members

LEMMA StatementsHold ==
    /\ {<<"drop", "DATABASE">>, <<"create", "DATABASE">>, <<"insert", "USERS">>,
        <<"insert", "VERSION">>, <<"create old", "CALLS">>, <<"update", "VERSION">>,
        <<"select", "VERSION">>} \subseteq Statements
    /\ \A t \in Tables : {<<"create", t>>, <<"drop", t>>, <<"load", t>>} \subseteq Statements
    /\ \A c \in Columns : <<"add", c>> \in Statements
BY DEF Statements

\* One statement more
LEMMA OneMore ==
    ASSUME NEW s \in Statements
    PROVE  Runs(<<s>>, Phase(s), Phase(s)) /\ Members(<<s>>) = {s}
<1>1. <<s>> \in Seq(Statements) /\ Members(<<s>>) = {s}
  BY FewMembers
<1>2. Phase(s) \in Nat
  BY PhaseType
<1> QED
  BY <1>1, <1>2, OnePhase

\* What a program adds to the database
Adds(M) == {x \in Tables \union Columns :
                <<"add", x>> \in M \/ <<"create", x>> \in M \/ <<"create old", x>> \in M}

LEMMA UpdateDbIs ==
    ASSUME NEW v \in Nat
    PROVE  /\ Runs(UpdateDb(v), 5, 6)
           /\ <<"update", "VERSION">> \in Members(UpdateDb(v))
           /\ <<"create old", "CALLS">> \in Members(UpdateDb(v)) => v < 3
           /\ \A x \in Tables \union Columns :
                 (1 <= v \/ x \in Columns) /\ v < Since(x) => x \in Adds(Members(UpdateDb(v)))
<1> DEFINE p2 == << <<"add", "ONLINE">> >>
           p3 == << <<"create old", "CALLS">> >>
           p4 == << <<"add", "CLIENT_VERSION">> >>
           p5 == << <<"add", "ORIG_PORT">>, <<"add", "DEST_PORT">> >>
           p6 == << <<"add", "DEST_FORMAT">>, <<"add", "DEST_CHANNELS">>,
                    <<"add", "DEST_SAMPLE_RATE">>, <<"add", "DEST_BIT_RATE">> >>
           p7 == << <<"update", "VERSION">> >>
           M2 == {<<"add", "ONLINE">>}
           M3 == {<<"create old", "CALLS">>}
           M4 == {<<"add", "CLIENT_VERSION">>}
           M5 == {<<"add", "ORIG_PORT">>, <<"add", "DEST_PORT">>}
           M6 == {<<"add", "DEST_FORMAT">>, <<"add", "DEST_CHANNELS">>,
                  <<"add", "DEST_SAMPLE_RATE">>, <<"add", "DEST_BIT_RATE">>}
           M7 == {<<"update", "VERSION">>}
<1>1. \A x \in {"ONLINE", "CLIENT_VERSION", "ORIG_PORT", "DEST_PORT", "DEST_FORMAT",
                "DEST_CHANNELS", "DEST_SAMPLE_RATE", "DEST_BIT_RATE"} :
         <<"add", x>> \in Statements /\ Phase(<<"add", x>>) = 5
  BY StatementsHold, PhaseIs DEF Columns, UserColumns, CallColumns
<1>2. /\ <<"create old", "CALLS">> \in Statements /\ Phase(<<"create old", "CALLS">>) = 5
      /\ <<"update", "VERSION">> \in Statements /\ Phase(<<"update", "VERSION">>) = 6
  BY StatementsHold, PhaseIs
<1>3. Runs(p2, 5, 5) /\ Members(p2) = M2
  BY <1>1, OneMore
<1>4. Runs(p3, 5, 5) /\ Members(p3) = M3
  BY <1>2, OneMore
<1>5. Runs(p4, 5, 5) /\ Members(p4) = M4
  BY <1>1, OneMore
<1>6. Runs(p5, 5, 5) /\ Members(p5) = M5
  <2>1. p5 \in Seq(Statements) /\ Members(p5) = M5
    BY <1>1, FewMembers
  <2>2. \A s \in M5 : Phase(s) = 5
    BY <1>1
  <2> HIDE DEF p5, M5
  <2> QED
    BY <2>1, <2>2, OnePhase
<1>7. Runs(p6, 5, 5) /\ Members(p6) = M6
  <2>1. p6 \in Seq(Statements) /\ Members(p6) = M6
    <3>1. /\ <<"add", "DEST_FORMAT">> \in Statements /\ <<"add", "DEST_CHANNELS">> \in Statements
          /\ <<"add", "DEST_SAMPLE_RATE">> \in Statements
          /\ <<"add", "DEST_BIT_RATE">> \in Statements
      BY <1>1
    <3> QED
      BY <3>1, FourMembers
  <2>2. \A s \in M6 : Phase(s) = 5
    BY <1>1
  <2> HIDE DEF p6, M6
  <2> QED
    BY <2>1, <2>2, OnePhase
<1>8. Runs(p7, 6, 6) /\ Members(p7) = M7
  BY <1>2, OneMore
<1> HIDE DEF p2, p3, p4, p5, p6, p7
<1> DEFINE w2 == When(v < 2, p2)
           w3 == When(v < 3, p3)
           w4 == When(v < 4, p4)
           w5 == When(v < 5, p5)
           w6 == When(v < 6, p6)
<1>9. /\ Runs(w2, 5, 5) /\ Members(w2) = IF v < 2 THEN M2 ELSE {}
      /\ Runs(w3, 5, 5) /\ Members(w3) = IF v < 3 THEN M3 ELSE {}
      /\ Runs(w4, 5, 5) /\ Members(w4) = IF v < 4 THEN M4 ELSE {}
      /\ Runs(w5, 5, 5) /\ Members(w5) = IF v < 5 THEN M5 ELSE {}
      /\ Runs(w6, 5, 5) /\ Members(w6) = IF v < 6 THEN M6 ELSE {}
  <2> HIDE DEF M2, M3, M4, M5, M6
  <2> QED
    BY <1>3, <1>4, <1>5, <1>6, <1>7, WhenIs
<1>10. UpdateDb(v) = w2 \o w3 \o w4 \o w5 \o w6 \o p7
  BY DEF UpdateDb, p2, p3, p4, p5, p6, p7
<1> HIDE DEF w2, w3, w4, w5, w6, M2, M3, M4, M5, M6, M7
<1>11. /\ Runs(w2 \o w3, 5, 5) /\ Members(w2 \o w3) = Members(w2) \union Members(w3)
  BY <1>9, Joined
<1>12. /\ Runs(w2 \o w3 \o w4, 5, 5)
       /\ Members(w2 \o w3 \o w4) = Members(w2 \o w3) \union Members(w4)
  BY <1>9, <1>11, Joined
<1>13. /\ Runs(w2 \o w3 \o w4 \o w5, 5, 5)
       /\ Members(w2 \o w3 \o w4 \o w5) = Members(w2 \o w3 \o w4) \union Members(w5)
  BY <1>9, <1>12, Joined
<1>14. /\ Runs(w2 \o w3 \o w4 \o w5 \o w6, 5, 5)
       /\ Members(w2 \o w3 \o w4 \o w5 \o w6) = Members(w2 \o w3 \o w4 \o w5) \union Members(w6)
  BY <1>9, <1>13, Joined
<1>15. /\ Runs(UpdateDb(v), 5, 6)
       /\ Members(UpdateDb(v)) = Members(w2 \o w3 \o w4 \o w5 \o w6) \union M7
  BY <1>8, <1>10, <1>14, Joined
<1> DEFINE M == Members(UpdateDb(v))
<1>16. M = Members(w2) \union Members(w3) \union Members(w4) \union Members(w5)
               \union Members(w6) \union M7
  BY <1>11, <1>12, <1>13, <1>14, <1>15
<1> HIDE DEF M
<1>17. /\ v < 2 => M2 \subseteq M
       /\ v < 3 => M3 \subseteq M
       /\ v < 4 => M4 \subseteq M
       /\ v < 5 => M5 \subseteq M
       /\ v < 6 => M6 \subseteq M
       /\ M7 \subseteq M
  BY <1>9, <1>16
<1>18. <<"create old", "CALLS">> \in M => v < 3
  <2>1. ASSUME v >= 3
        PROVE  <<"create old", "CALLS">> \notin M
    <3>1. <<"create old", "CALLS">> \notin M4 \union M5 \union M6 \union M7
      BY DEF M4, M5, M6, M7
    <3>2. ~(v < 2) /\ ~(v < 3)
      BY <2>1
    <3>3. Members(w2) = {} /\ Members(w3) = {}
      BY <1>9, <3>2, Zenon
    <3> QED
      BY <1>9, <1>16, <3>1, <3>3
  <2>2. v < 3 \/ v >= 3
    OBVIOUS
  <2> QED
    BY <2>1, <2>2, Zenon
<1>19. ASSUME NEW x \in Tables \union Columns, 1 <= v \/ x \in Columns, v < Since(x)
       PROVE  x \in Adds(M)
  <2>1. \/ x = "ONLINE" /\ v < 2
        \/ x = "CALLS" /\ v < 3
        \/ x = "CLIENT_VERSION" /\ v < 4
        \/ x \in {"ORIG_PORT", "DEST_PORT"} /\ v < 5
        \/ x \in {"DEST_FORMAT", "DEST_CHANNELS", "DEST_SAMPLE_RATE", "DEST_BIT_RATE"} /\ v < 6
    BY <1>19 DEF Since, Tables, Columns, UserColumns, CallColumns
  <2>2. <<"add", x>> \in M \/ <<"create old", x>> \in M
    BY <1>17, <2>1 DEF M2, M3, M4, M5, M6
  <2> QED
    BY <2>2 DEF Adds
<1> QED
  BY <1>15, <1>17, <1>18, <1>19 DEF M, M7

LEMMA CreateNewIs ==
    /\ Runs(CreateNew, 1, 4) /\ CreateNew # <<>>
    /\ <<"create", "DATABASE">> \in Members(CreateNew)
    /\ \A t \in Tables : <<"create", t>> \in Members(CreateNew)
<1> DEFINE p1 == << <<"create", "DATABASE">> >>
<1>1. /\ <<"create", "DATABASE">> \in Statements /\ Phase(<<"create", "DATABASE">>) = 1
      /\ <<"insert", "USERS">> \in Statements /\ Phase(<<"insert", "USERS">>) = 3
      /\ <<"insert", "VERSION">> \in Statements /\ Phase(<<"insert", "VERSION">>) = 4
  BY StatementsHold, PhaseIs
<1>2. Runs(p1, 1, 1) /\ Members(p1) = {<<"create", "DATABASE">>}
  BY <1>1, OneMore
<1>3. Runs(CreateDb, 2, 2) /\ \A t \in Tables : <<"create", t>> \in Members(CreateDb)
  <2>1. /\ <<"create", "USERS">> \in Statements /\ Phase(<<"create", "USERS">>) = 2
        /\ <<"create", "VERSION">> \in Statements /\ Phase(<<"create", "VERSION">>) = 2
        /\ <<"create", "CALLS">> \in Statements /\ Phase(<<"create", "CALLS">>) = 2
    BY StatementsHold, PhaseIs DEF Tables
  <2>2. /\ CreateDb \in Seq(Statements)
        /\ Members(CreateDb) = {<<"create", "USERS">>, <<"create", "VERSION">>, <<"create", "CALLS">>}
    BY <2>1, ThreeMembers DEF CreateDb
  <2>3. \A s \in Members(CreateDb) : Phase(s) = 2
    BY <2>1, <2>2
  <2>4. Runs(CreateDb, 2, 2)
    BY <2>2, <2>3, OnePhase
  <2> QED
    BY <2>2, <2>4 DEF Tables
<1>4. Runs(InitDb, 3, 4)
  <2> DEFINE q1 == << <<"insert", "USERS">> >>
             q2 == << <<"insert", "VERSION">> >>
  <2>1. Runs(q1, 3, 3) /\ Runs(q2, 4, 4)
    BY <1>1, OneMore
  <2>2. InitDb = q1 \o q2
    BY DEF InitDb
  <2> HIDE DEF q1, q2
  <2> QED
    BY <2>1, <2>2, Joined
<1>5. CreateNew = p1 \o CreateDb \o InitDb
  BY DEF CreateNew
<1> HIDE DEF p1
<1>6. Runs(p1 \o CreateDb, 1, 2) /\ Members(p1 \o CreateDb) = Members(p1) \union Members(CreateDb)
  BY <1>2, <1>3, Joined
<1>7. /\ Runs(CreateNew, 1, 4)
      /\ Members(CreateNew) = Members(p1 \o CreateDb) \union Members(InitDb)
  BY <1>4, <1>5, <1>6, Joined
<1>8. <<"create", "DATABASE">> \in Members(CreateNew)
  BY <1>2, <1>6, <1>7
<1>9. CreateNew # <<>>
  BY <1>8, NoProgram
<1> QED
  BY <1>3, <1>6, <1>7, <1>8, <1>9

LEMMA ReplaceIs ==
    /\ Runs(Replace, 0, 6) /\ Replace # <<>>
    /\ <<"create", "DATABASE">> \in Members(Replace)
    /\ \A t \in Tables : <<"create", t>> \in Members(Replace)
    /\ Adds(Members(Replace)) = Tables \union Columns
<1> DEFINE p1 == << <<"drop", "DATABASE">> >>
<1>1. <<"drop", "DATABASE">> \in Statements /\ Phase(<<"drop", "DATABASE">>) = 0
  BY StatementsHold, PhaseIs
<1>2. Runs(p1, 0, 0)
  BY <1>1, OneMore
<1>3. Replace = p1 \o CreateNew \o UpdateDb(0)
  BY DEF Replace
<1> HIDE DEF p1
<1>4. Runs(p1 \o CreateNew, 0, 4) /\ Members(CreateNew) \subseteq Members(p1 \o CreateNew)
  BY <1>2, CreateNewIs, Joined
<1>5. Runs(UpdateDb(0), 5, 6)
  BY UpdateDbIs
<1>6. /\ Runs(Replace, 0, 6) /\ Members(CreateNew) \subseteq Members(Replace)
      /\ Members(UpdateDb(0)) \subseteq Members(Replace)
  BY <1>3, <1>4, <1>5, Joined
<1>7. <<"create", "DATABASE">> \in Members(Replace)
  BY <1>6, CreateNewIs
<1>8. Replace # <<>>
  BY <1>7, NoProgram
<1>9. \A t \in Tables : <<"create", t>> \in Members(Replace)
  BY <1>6, CreateNewIs
<1>10. ASSUME NEW x \in Tables \union Columns
       PROVE  x \in Adds(Members(Replace))
  <2>1. CASE x \in Tables
    BY <1>9, <2>1 DEF Adds
  <2>2. CASE x \in Columns
    <3>1. 0 < Since(x)
      BY <2>2 DEF Since, Columns, UserColumns, CallColumns
    <3>2. x \in Adds(Members(UpdateDb(0)))
      BY <2>2, <3>1, UpdateDbIs
    <3> QED
      BY <1>6, <3>2 DEF Adds
  <2> QED
    BY <2>1, <2>2
<1>11. Adds(Members(Replace)) = Tables \union Columns
  BY <1>10 DEF Adds
<1> QED
  BY <1>6, <1>7, <1>8, <1>9, <1>11

LEMMA InOrderIs ==
    ASSUME NEW verb, NEW tables, NEW lo \in Nat, NEW hi \in Nat, lo <= hi,
           \A t \in Tables : <<verb, t>> \in Statements,
           Phase(<<verb, "CALLS">>) = lo, Phase(<<verb, "USERS">>) = lo,
           Phase(<<verb, "VERSION">>) = hi
    PROVE  /\ Runs(InOrder(verb, tables), lo, hi)
           /\ \A t \in Tables : t \in tables => <<verb, t>> \in Members(InOrder(verb, tables))
<1> DEFINE p1 == << <<verb, "CALLS">> >>
           p2 == << <<verb, "USERS">> >>
           p3 == << <<verb, "VERSION">> >>
           w1 == When("CALLS" \in tables, p1)
           w2 == When("USERS" \in tables, p2)
           w3 == When("VERSION" \in tables, p3)
<1>1. /\ <<verb, "CALLS">> \in Statements /\ <<verb, "USERS">> \in Statements
      /\ <<verb, "VERSION">> \in Statements
  BY DEF Tables
<1>2. /\ Runs(p1, lo, lo) /\ Members(p1) = {<<verb, "CALLS">>}
      /\ Runs(p2, lo, lo) /\ Members(p2) = {<<verb, "USERS">>}
      /\ Runs(p3, hi, hi) /\ Members(p3) = {<<verb, "VERSION">>}
  BY <1>1, OneMore
<1>3. InOrder(verb, tables) = w1 \o w2 \o w3
  BY DEF InOrder
<1> HIDE DEF p1, p2, p3
<1>4. /\ Runs(w1, lo, lo) /\ Members(w1) = IF "CALLS" \in tables THEN Members(p1) ELSE {}
      /\ Runs(w2, lo, lo) /\ Members(w2) = IF "USERS" \in tables THEN Members(p2) ELSE {}
      /\ Runs(w3, hi, hi) /\ Members(w3) = IF "VERSION" \in tables THEN Members(p3) ELSE {}
  BY <1>2, WhenIs
<1> HIDE DEF w1, w2, w3
<1>5. Runs(w1 \o w2, lo, lo) /\ Members(w1 \o w2) = Members(w1) \union Members(w2)
  BY <1>4, Joined
<1>6. /\ Runs(InOrder(verb, tables), lo, hi)
      /\ Members(InOrder(verb, tables)) = Members(w1 \o w2) \union Members(w3)
  BY <1>3, <1>4, <1>5, Joined
<1>7. ASSUME NEW t \in Tables, t \in tables
      PROVE  <<verb, t>> \in Members(w1) \union Members(w2) \union Members(w3)
  BY <1>2, <1>4, <1>7 DEF Tables
<1> QED
  BY <1>5, <1>6, <1>7

LEMMA RestoreDbIs ==
    /\ Runs(RestoreDb, 10, 13) /\ RestoreDb # <<>>
    /\ \A t \in Tables : t \in file.tables => <<"load", t>> \in Members(RestoreDb)
<1> DEFINE p1 == ClearTables
           p2 == InOrder("load", file.tables)
           p3 == << <<"select", "VERSION">> >>
<1>1. Runs(p1, 10, 10)
  <2>1. \A t \in Tables : <<"drop", t>> \in Statements
    BY StatementsHold
  <2>2. /\ Phase(<<"drop", "CALLS">>) = 10 /\ Phase(<<"drop", "USERS">>) = 10
        /\ Phase(<<"drop", "VERSION">>) = 10
    BY PhaseIs DEF Tables
  <2> QED
    BY <2>1, <2>2, InOrderIs DEF ClearTables
<1>2. /\ Runs(p2, 11, 12)
      /\ \A t \in Tables : t \in file.tables => <<"load", t>> \in Members(p2)
  <2>1. \A t \in Tables : <<"load", t>> \in Statements
    BY StatementsHold
  <2>2. /\ Phase(<<"load", "CALLS">>) = 11 /\ Phase(<<"load", "USERS">>) = 11
        /\ Phase(<<"load", "VERSION">>) = 12
    BY PhaseIs DEF Tables
  <2> QED
    BY <2>1, <2>2, InOrderIs
<1>3. Runs(p3, 13, 13) /\ Members(p3) = {<<"select", "VERSION">>}
  <2>1. <<"select", "VERSION">> \in Statements /\ Phase(<<"select", "VERSION">>) = 13
    BY StatementsHold, PhaseIs
  <2> QED
    BY <2>1, OneMore
<1>4. RestoreDb = p1 \o p2 \o p3
  BY DEF RestoreDb
<1> HIDE DEF p1, p2, p3
<1>5. Runs(p1 \o p2, 10, 12) /\ Members(p2) \subseteq Members(p1 \o p2)
  BY <1>1, <1>2, Joined
<1>6. /\ Runs(RestoreDb, 10, 13) /\ Members(p1 \o p2) \subseteq Members(RestoreDb)
      /\ Members(p3) \subseteq Members(RestoreDb)
  BY <1>3, <1>4, <1>5, Joined
<1>7. RestoreDb # <<>>
  BY <1>3, <1>6, NoProgram
<1> QED
  BY <1>2, <1>5, <1>6, <1>7

\* What narrows a program's phases is still a program
LEMMA RunsIsProgram ==
    ASSUME NEW p, NEW lo \in Nat, NEW hi \in Nat, Runs(p, lo, hi),
           hi <= 6 \/ (lo >= 10 /\ hi <= 13), Whole(Members(p))
    PROVE  Program(p)
<1>1. \A k \in 1..Len(p) : Phase(p[k]) \in 0..13
  BY PhaseType DEF Runs
<1>2. CASE hi <= 6
  BY <1>1, <1>2 DEF Runs, Program
<1>3. CASE lo >= 10 /\ hi <= 13
  <2>1. \A x \in 0..13 : lo <= x /\ x <= hi => 10 <= x /\ x <= 13
    BY <1>3
  <2>2. Runs(p, 10, 13)
    BY <1>1, <2>1, Zenon DEF Runs
  <2> QED
    BY <2>2 DEF Program
<1> QED
  BY <1>2, <1>3

\* A program of the later phases makes no database and drops none
LEMMA MembersRun ==
    ASSUME NEW p, NEW lo \in Nat, NEW hi \in Nat, Runs(p, lo, hi)
    PROVE  \A s \in Members(p) : s \in Statements /\ Phase(s) \in lo..hi
BY PhaseType DEF Runs, Members

LEMMA LateIsWhole ==
    ASSUME NEW p, NEW lo \in Nat, NEW hi \in Nat, Runs(p, lo, hi), lo >= 2
    PROVE  Whole(Members(p))
<1>1. \A s \in Members(p) : s \in Statements /\ Phase(s) >= 2
  BY MembersRun
<1>2. Phase(<<"drop", "DATABASE">>) = 0 /\ Phase(<<"create", "DATABASE">>) = 1
  BY PhaseIs
<1> QED
  BY <1>1, <1>2 DEF Whole

LEMMA ProgramsAre ==
    /\ Program(CreateNew) /\ Program(Replace) /\ Program(RestoreDb)
    /\ \A v \in Nat : Program(UpdateDb(v)) /\ UpdateDb(v) # <<>>
<1>1. Program(CreateNew)
  BY CreateNewIs, RunsIsProgram DEF Whole
<1>2. Program(Replace)
  BY ReplaceIs, RunsIsProgram DEF Whole
<1>3. Program(RestoreDb)
  <2>1. Runs(RestoreDb, 10, 13) /\ Whole(Members(RestoreDb))
    BY RestoreDbIs, LateIsWhole
  <2> QED
    BY <2>1 DEF Program
<1>4. ASSUME NEW v \in Nat
      PROVE  Program(UpdateDb(v)) /\ UpdateDb(v) # <<>>
  <2>1. Runs(UpdateDb(v), 5, 6)
    BY UpdateDbIs
  <2>2. Whole(Members(UpdateDb(v)))
    BY <2>1, LateIsWhole
  <2>3. Program(UpdateDb(v))
    BY <2>1, <2>2, RunsIsProgram
  <2> QED
    BY <2>3, UpdateDbIs, NoProgram
<1> QED
  BY <1>1, <1>2, <1>3, <1>4

-----------------------------------------------------------------------------
(***************************************************************************)
(* What each kind of statement needs and does.                             *)
(***************************************************************************)
LEMMA DropDatabaseIs ==
    ASSUME NEW a
    PROVE  Effect(a, <<"drop", "DATABASE">>) =
              [NoDb EXCEPT !.spoilt = IF Watched(a) THEN "trodden" ELSE "no"]
<1>1. \A s : s = <<"drop", "DATABASE">> =>
         Spoilt(a, s) = IF Watched(a) THEN "trodden" ELSE "no"
  BY DEF Spoilt
<1>2. \A s : s = <<"drop", "DATABASE">> =>
         Effect(a, s) = [NoDb EXCEPT !.spoilt = Spoilt(a, s)]
  BY DEF Effect, Tables
<1> QED
  BY <1>1, <1>2

LEMMA CreateDatabaseIs ==
    ASSUME NEW a
    PROVE  /\ Works(<<"create", "DATABASE">>) => ~db.exists
           /\ Effect(a, <<"create", "DATABASE">>) = [db EXCEPT !.exists = TRUE]
<1>1. Works(<<"create", "DATABASE">>) => ~db.exists
  BY DEF Works
<1>2. \A s : s = <<"create", "DATABASE">> => Effect(a, s) = [db EXCEPT !.exists = TRUE]
  BY DEF Effect, Tables
<1> QED
  BY <1>1, <1>2

LEMMA CreateIs ==
    ASSUME NEW a, NEW t \in Tables
    PROVE  /\ Works(<<"create", t>>) => db.exists
           /\ Effect(a, <<"create", t>>) = NewTable(t, ColumnsOf(t))
<1>1. t # "DATABASE"
  BY DEF Tables
<1> QED
  BY <1>1 DEF Works, Effect

LEMMA CreateOldIs ==
    ASSUME NEW a
    PROVE  /\ Works(<<"create old", "CALLS">>) => db.exists
           /\ Effect(a, <<"create old", "CALLS">>) = NewTable("CALLS", {})
BY DEF Works, Effect

LEMMA InsertUsersIs ==
    ASSUME NEW a
    PROVE  /\ Works(<<"insert", "USERS">>) => "USERS" \in db.tables
           /\ Effect(a, <<"insert", "USERS">>) =
                [db EXCEPT !.users = [u \in DOMAIN db.users \union {DefaultUser} |->
                                        IF u \in DOMAIN db.users THEN db.users[u] ELSE NewUser]]
BY DEF Works, Effect

LEMMA InsertVersionIs ==
    ASSUME NEW a
    PROVE  /\ Works(<<"insert", "VERSION">>) => "VERSION" \in db.tables
           /\ Effect(a, <<"insert", "VERSION">>) =
                [db EXCEPT !.versions = db.versions \union {6}]
BY DEF Works, Effect, NET_VERSION_DATABASE

LEMMA AddIs ==
    ASSUME NEW a, NEW c \in Columns
    PROVE  /\ Works(<<"add", c>>) => \E t \in db.tables : c \in ColumnsOf(t)
           /\ Effect(a, <<"add", c>>) = [db EXCEPT !.columns = db.columns \union {c}]
BY DEF Works, Effect

LEMMA UpdateVersionIs ==
    ASSUME NEW a
    PROVE  Effect(a, <<"update", "VERSION">>) =
              [db EXCEPT !.versions = IF db.versions = {} THEN {} ELSE {6}]
BY DEF Effect, NET_VERSION_DATABASE

LEMMA DropIs ==
    ASSUME NEW a, NEW t \in Tables
    PROVE  /\ Works(<<"drop", t>>) => t \in db.tables
           /\ Effect(a, <<"drop", t>>) =
                Copied(t, NoDb, IF Watched(a) \/ db.spoilt = "trodden" THEN "trodden" ELSE "half")
<1>1. t # "DATABASE"
  BY DEF Tables
<1>2. Spoilt(a, <<"drop", t>>) =
         IF Watched(a) \/ db.spoilt = "trodden" THEN "trodden" ELSE "half"
  BY <1>1 DEF Spoilt
<1>3. Effect(a, <<"drop", t>>) = Copied(t, NoDb, Spoilt(a, <<"drop", t>>))
  BY <1>1 DEF Effect
<1>4. Works(<<"drop", t>>) => t \in db.tables
  BY <1>1 DEF Works
<1> QED
  BY <1>2, <1>3, <1>4

LEMMA LoadIs ==
    ASSUME NEW a, NEW t \in Tables
    PROVE  /\ Works(<<"load", t>>) => db.exists
           /\ Effect(a, <<"load", t>>) =
                Copied(t, file, IF Watched(a) \/ db.spoilt = "trodden" THEN "trodden"
                                ELSE IF t = "VERSION" THEN file.spoilt ELSE "half")
<1>1. ASSUME NEW s, s = <<"load", t>>
      PROVE  Spoilt(a, s) = IF Watched(a) \/ db.spoilt = "trodden" THEN "trodden"
                            ELSE IF t = "VERSION" THEN file.spoilt ELSE "half"
  <2>1. s # <<"drop", "DATABASE">> /\ (s = <<"load", "VERSION">> <=> t = "VERSION")
    BY <1>1
  <2> QED
    BY <2>1 DEF Spoilt
<1>2. Effect(a, <<"load", t>>) = Copied(t, file, Spoilt(a, <<"load", t>>))
  BY DEF Effect
<1>3. Works(<<"load", t>>) => db.exists
  BY DEF Works
<1> QED
  BY <1>1, <1>2, <1>3

LEMMA SelectIs ==
    ASSUME NEW a
    PROVE  /\ Works(<<"select", "VERSION">>) => db.exists
           /\ Effect(a, <<"select", "VERSION">>) = db
BY DEF Works, Effect

-----------------------------------------------------------------------------
(***************************************************************************)
(* The databases are what their types say.                                 *)
(***************************************************************************)
\* A database has the tables its columns and users are in, and none when it is not there
Kept(d) ==
    /\ d \in Databases
    /\ DOMAIN d.users # {} => "USERS" \in d.tables
    /\ \A c \in d.columns : \E t \in d.tables : c \in ColumnsOf(t)
    /\ ~d.exists => d.tables = {} /\ d.versions = {}

LEMMA UserRowsAre ==
    \A f : f \in UserRows <=> /\ DOMAIN f \subseteq Users
                              /\ f \in [DOMAIN f -> [online : BOOLEAN, info : Infos]]
BY DEF UserRows

LEMMA CallRowsAre ==
    \A f : f \in CallRows <=> /\ DOMAIN f \subseteq Calls
                              /\ f \in [DOMAIN f -> [ends : Users \X Users, open : BOOLEAN]]
BY DEF CallRows

LEMMA EmptyFits == Empty \in UserRows /\ Empty \in CallRows /\ DOMAIN Empty = {}
BY UserRowsAre, CallRowsAre DEF Empty

LEMMA NewUserFits == NewUser \in [online : BOOLEAN, info : Infos]
<1>1. (CHOOSE i \in Infos : TRUE) \in Infos
  BY NetadminAssumption
<1> QED
  BY <1>1 DEF NewUser

LEMMA NoDbKept == Kept(NoDb) /\ \A x \in {"no", "half", "trodden"} : Kept([NoDb EXCEPT !.spoilt = x])
BY EmptyFits DEF Kept, NoDb, Databases

\* What a database is made of may be replaced
LEMMA Rebuilt ==
    ASSUME NEW d \in Databases, NEW T \in SUBSET Tables, NEW C \in SUBSET Columns,
           NEW V \in SUBSET (1..NET_VERSION_DATABASE), NEW U \in UserRows, NEW K \in CallRows,
           NEW x \in {"no", "half", "trodden"}
    PROVE  /\ [d EXCEPT !.exists = TRUE] \in Databases
           /\ [d EXCEPT !.tables = T, !.columns = C] \in Databases
           /\ [d EXCEPT !.columns = C] \in Databases
           /\ [d EXCEPT !.versions = V] \in Databases
           /\ [d EXCEPT !.users = U] \in Databases
           /\ [d EXCEPT !.calls = K] \in Databases
           /\ [d EXCEPT !.spoilt = x] \in Databases
           /\ [d EXCEPT !.tables = T, !.columns = C, !.users = U, !.calls = K, !.versions = V,
                        !.spoilt = x] \in Databases
BY DEF Databases

LEMMA UsersKept ==
    ASSUME NEW d, Kept(d), NEW users \in UserRows, DOMAIN users # {} => "USERS" \in d.tables
    PROVE  Kept([d EXCEPT !.users = users])
<1>1. d \in Databases
  BY DEF Kept
<1>2. [d EXCEPT !.users = users] \in Databases
  BY <1>1 DEF Databases
<1> QED
  BY <1>1, <1>2 DEF Kept, Databases

LEMMA CallsKept ==
    ASSUME NEW d, Kept(d), NEW calls \in CallRows
    PROVE  Kept([d EXCEPT !.calls = calls])
BY DEF Kept, Databases

LEMMA SpoiltKept ==
    ASSUME NEW d, Kept(d), NEW x \in {"no", "half", "trodden"}
    PROVE  Kept([d EXCEPT !.spoilt = x])
BY DEF Kept, Databases

LEMMA VersionsKept ==
    ASSUME NEW d, Kept(d), NEW V \in SUBSET (1..NET_VERSION_DATABASE), V # {} => d.exists
    PROVE  Kept([d EXCEPT !.versions = V])
BY DEF Kept, Databases

LEMMA ColumnsAre ==
    \A t \in Tables : /\ ColumnsOf(t) \subseteq Columns
                      /\ \A r \in Tables : r # t => ColumnsOf(r) \intersect ColumnsOf(t) = {}
BY DEF Tables, ColumnsOf, Columns, UserColumns, CallColumns

LEMMA NewTableKept ==
    ASSUME Kept(db), NEW t \in Tables, NEW C \in SUBSET Columns, db.exists, C \subseteq ColumnsOf(t)
    PROVE  Kept(NewTable(t, C))
<1>1. CASE t \in db.tables
  BY <1>1 DEF NewTable
<1>2. CASE t \notin db.tables
  <2> DEFINE e == [db EXCEPT !.tables = @ \union {t}, !.columns = @ \union C]
  <2>1. /\ e.tables = db.tables \union {t} /\ e.columns = db.columns \union C
        /\ e.users = db.users /\ e.exists /\ e \in Databases
    BY DEF Kept, Databases
  <2>2. NewTable(t, C) = e
    BY <1>2 DEF NewTable
  <2> HIDE DEF e
  <2> QED
    BY <2>1, <2>2 DEF Kept
<1> QED
  BY <1>1, <1>2

LEMMA CopiedKept ==
    ASSUME NEW d, Kept(d), Kept(db), NEW t \in Tables, NEW x \in {"no", "half", "trodden"},
           db.exists
    PROVE  Kept(Copied(t, d, x))
<1> DEFINE e == Copied(t, d, x)
           T == (db.tables \ {t}) \union ({t} \intersect d.tables)
           C == (db.columns \ ColumnsOf(t)) \union (d.columns \intersect ColumnsOf(t))
           U == IF t = "USERS" THEN d.users ELSE db.users
           K == IF t = "CALLS" THEN d.calls ELSE db.calls
           V == IF t = "VERSION" THEN d.versions ELSE db.versions
<1>1. /\ T \in SUBSET Tables /\ C \in SUBSET Columns
      /\ V \in SUBSET (1..NET_VERSION_DATABASE) /\ U \in UserRows /\ K \in CallRows
  BY ColumnsAre DEF Kept, Databases
<1>2. DOMAIN U # {} => "USERS" \in T
  BY DEF Kept
<1>3. ASSUME NEW c \in C
      PROVE  \E r \in T : c \in ColumnsOf(r)
  <2>1. CASE c \in db.columns /\ c \notin ColumnsOf(t)
    BY <2>1 DEF Kept
  <2>2. CASE c \in d.columns /\ c \in ColumnsOf(t)
    <3>1. PICK r \in d.tables : c \in ColumnsOf(r)
      BY <2>2 DEF Kept
    <3>2. r = t
      BY <2>2, <3>1, ColumnsAre DEF Kept, Databases
    <3> QED
      BY <2>2, <3>1, <3>2
  <2> QED
    BY <1>3, <2>1, <2>2
<1>4. e = [db EXCEPT !.tables = T, !.columns = C, !.users = U, !.calls = K, !.versions = V,
                     !.spoilt = x]
  BY DEF Copied
<1> HIDE DEF e, T, C, U, K, V
<1>5. e \in Databases
  BY <1>1, <1>4, Rebuilt DEF Kept
<1>6. e.tables = T /\ e.columns = C /\ e.users = U /\ e.exists = db.exists
  BY <1>4 DEF Kept, Databases
<1> QED
  BY <1>2, <1>3, <1>5, <1>6 DEF Kept, e

LEMMA EffectKept ==
    ASSUME Kept(db), Kept(file), NEW a, NEW s \in Statements, Works(s)
    PROVE  Kept(Effect(a, s))
<1>1. CASE s = <<"drop", "DATABASE">>
  BY <1>1, DropDatabaseIs, NoDbKept
<1>2. CASE s = <<"create", "DATABASE">>
  <2>1. Kept([db EXCEPT !.exists = TRUE])
    BY DEF Kept, Databases
  <2> QED
    BY <1>2, <2>1, CreateDatabaseIs
<1>3. CASE \E t \in Tables : s = <<"create", t>>
  BY <1>3, CreateIs, NewTableKept, ColumnsAre
<1>4. CASE s = <<"create old", "CALLS">>
  <2>1. "CALLS" \in Tables
    BY DEF Tables
  <2> QED
    BY <1>4, <2>1, CreateOldIs, NewTableKept
<1>5. CASE s = <<"insert", "USERS">>
  <2> DEFINE users == [u \in DOMAIN db.users \union {DefaultUser} |->
                          IF u \in DOMAIN db.users THEN db.users[u] ELSE NewUser]
  <2>1. db.users \in UserRows
    BY DEF Kept, Databases
  <2>2. DOMAIN db.users \subseteq Users /\ db.users \in [DOMAIN db.users -> [online : BOOLEAN, info : Infos]]
    BY <2>1, UserRowsAre
  <2>3. \A u \in DOMAIN db.users : db.users[u] \in [online : BOOLEAN, info : Infos]
    BY <2>2
  <2>4. \A u \in DOMAIN users : u \in Users /\ users[u] \in [online : BOOLEAN, info : Infos]
    BY <2>2, <2>3, NewUserFits, NetadminAssumption
  <2>5. users \in [DOMAIN users -> [online : BOOLEAN, info : Infos]]
    BY <2>4
  <2>6. Effect(a, s) = [db EXCEPT !.users = users] /\ "USERS" \in db.tables
    BY <1>5, InsertUsersIs
  <2> HIDE DEF users
  <2>7. users \in UserRows
    BY <2>4, <2>5, UserRowsAre
  <2> QED
    BY <2>6, <2>7, UsersKept
<1>6. CASE s = <<"insert", "VERSION">>
  <2>1. db.versions \union {6} \in SUBSET (1..NET_VERSION_DATABASE) /\ db.exists
    <3>1. "VERSION" \in db.tables
      BY <1>6, InsertVersionIs
    <3> QED
      BY <3>1 DEF Kept, Databases, NET_VERSION_DATABASE
  <2> QED
    BY <1>6, <2>1, InsertVersionIs, VersionsKept
<1>7. CASE \E c \in Columns : s = <<"add", c>>
  <2>1. PICK c \in Columns : s = <<"add", c>>
    BY <1>7
  <2> DEFINE e == [db EXCEPT !.columns = db.columns \union {c}]
  <2>2. /\ e.tables = db.tables /\ e.columns = db.columns \union {c} /\ e.users = db.users
        /\ e.exists = db.exists /\ e.versions = db.versions /\ e \in Databases
    BY DEF Kept, Databases
  <2>3. Effect(a, s) = e /\ \E t \in db.tables : c \in ColumnsOf(t)
    BY <2>1, AddIs
  <2> HIDE DEF e
  <2> QED
    BY <2>2, <2>3 DEF Kept
<1>8. CASE s = <<"update", "VERSION">>
  <2> DEFINE V == IF db.versions = {} THEN {} ELSE {6}
  <2>1. V \in SUBSET (1..NET_VERSION_DATABASE) /\ (V # {} => db.exists)
    BY DEF Kept, Databases, NET_VERSION_DATABASE
  <2>2. Effect(a, s) = [db EXCEPT !.versions = V]
    BY <1>8, UpdateVersionIs
  <2> HIDE DEF V
  <2> QED
    BY <2>1, <2>2, VersionsKept
<1>9. CASE \E t \in Tables : s = <<"drop", t>>
  <2>1. PICK t \in Tables : s = <<"drop", t>>
    BY <1>9
  <2>2. t \in db.tables
    BY <2>1, DropIs
  <2>3. db.exists
    BY <2>2 DEF Kept
  <2> QED
    BY <2>1, <2>3, DropIs, CopiedKept, NoDbKept
<1>10. CASE \E t \in Tables : s = <<"load", t>>
  <2>1. PICK t \in Tables : s = <<"load", t>>
    BY <1>10
  <2>2. db.exists /\ file.spoilt \in {"no", "half", "trodden"}
    BY <2>1, LoadIs DEF Kept, Databases
  <2> QED
    BY <2>1, <2>2, LoadIs, CopiedKept
<1>11. CASE s = <<"select", "VERSION">>
  BY <1>11, SelectIs
<1> QED
  BY <1>1, <1>2, <1>3, <1>4, <1>5, <1>6, <1>7, <1>8, <1>9, <1>10, <1>11, KindOf, Zenon

-----------------------------------------------------------------------------
(***************************************************************************)
(* The copies of netadmin and their windows.                               *)
(***************************************************************************)
Copies ==
    /\ at \in [Admins -> {"out", "login", "opening", "in", "restoring"}]
    /\ DOMAIN todo = Admins
    /\ \A a \in Admins : Program(todo[a])
    /\ \A a \in Admins : todo[a] # <<>> <=> at[a] \in {"opening", "restoring"}
    /\ \A a \in Admins : <<"load", "VERSION">> \in Members(todo[a]) => at[a] = "restoring"

Windows ==
    /\ view.list = "none" => rows = NoRows /\ view = NoView
    /\ view # NoView => at[Viewer] = "in"

TypeInv == Kept(db) /\ Kept(file) /\ Copies /\ Windows

\* Version::database is the least there is
LEMMA CheckVersionIs ==
    ASSUME Kept(db)
    PROVE  /\ db.versions = {} => CheckVersion = 0
           /\ db.versions # {} => /\ CheckVersion \in db.versions
                                  /\ \A v \in db.versions : CheckVersion <= v
           /\ db.versions \subseteq 1..6
           /\ CheckVersion \in 0..6
<1>1. db.versions \subseteq 1..6
  BY DEF Kept, Databases, NET_VERSION_DATABASE
<1>2. ASSUME NEW V \in SUBSET (1..6), V # {}
      PROVE  \E v \in V : \A w \in V : v <= w
  <2>1. CASE 1 \in V
    BY <2>1
  <2>2. CASE 1 \notin V /\ 2 \in V
    BY <2>2
  <2>3. CASE 1 \notin V /\ 2 \notin V /\ 3 \in V
    BY <2>3
  <2>4. CASE 1 \notin V /\ 2 \notin V /\ 3 \notin V /\ 4 \in V
    BY <2>4
  <2>5. CASE 1 \notin V /\ 2 \notin V /\ 3 \notin V /\ 4 \notin V
    <3>1. CASE 5 \in V
      BY <2>5, <3>1
    <3>2. CASE 5 \notin V
      <4>1. \A v \in V : v = 6
        BY <2>5, <3>2
      <4>2. 6 \in V
        BY <1>2, <4>1
      <4> QED
        BY <4>1, <4>2
    <3> QED
      BY <3>1, <3>2
  <2> QED
    BY <2>1, <2>2, <2>3, <2>4, <2>5
<1>3. CASE db.versions # {}
  <2>1. \E v \in db.versions : \A w \in db.versions : v <= w
    BY <1>1, <1>2, <1>3
  <2>2. /\ CheckVersion \in db.versions
        /\ \A v \in db.versions : CheckVersion <= v
    BY <1>3, <2>1 DEF CheckVersion
  <2> QED
    BY <1>1, <1>3, <2>2
<1>4. CASE db.versions = {}
  BY <1>1, <1>4 DEF CheckVersion
<1> QED
  BY <1>3, <1>4

LEMMA OneSelects ==
    ASSUME NEW s \in Statements
    PROVE  s[1] = "select" <=> s = <<"select", "VERSION">>
<1>1. \A t \in Tables : /\ <<"create", t>>[1] # "select" /\ <<"drop", t>>[1] # "select"
                        /\ <<"load", t>>[1] # "select"
  OBVIOUS
<1>2. \A t \in Columns : <<"add", t>>[1] # "select"
  OBVIOUS
<1>3. CASE s \in {<<"drop", "DATABASE">>, <<"create", "DATABASE">>, <<"insert", "USERS">>,
                  <<"insert", "VERSION">>, <<"create old", "CALLS">>, <<"update", "VERSION">>,
                  <<"select", "VERSION">>}
  <2>1. CASE s = <<"select", "VERSION">>
    BY <2>1
  <2>2. CASE s # <<"select", "VERSION">>
    <3>1. /\ <<"drop", "DATABASE">>[1] # "select" /\ <<"create", "DATABASE">>[1] # "select"
          /\ <<"insert", "USERS">>[1] # "select" /\ <<"insert", "VERSION">>[1] # "select"
          /\ <<"create old", "CALLS">>[1] # "select" /\ <<"update", "VERSION">>[1] # "select"
      OBVIOUS
    <3>2. s[1] # "select"
      BY <1>3, <2>2, <3>1, Zenon
    <3> QED
      BY <2>2, <3>2
  <2> QED
    BY <2>1, <2>2
<1>4. CASE s[1] # "select"
  BY <1>4
<1> QED
  BY <1>1, <1>2, <1>3, <1>4, KindOf, Zenon

\* What becomes of the copy that runs a statement
LEMMA RunQueryIs ==
    ASSUME TypeInv, NEW a \in Admins, RunQuery(a)
    PROVE  LET s == Head(todo[a]) IN
           /\ todo[a] # <<>> /\ s \in Statements /\ file' = file
           /\ \/ /\ Works(s) /\ db' = Effect(a, s)
                 /\ Continue(a, Rest(a, CheckVersion))
              \/ /\ Unchecked(s) /\ Continue(a, Rest(a, 0))
                 /\ \/ db' = db
                    \/ Works(s) /\ s # <<"select", "VERSION">> /\ db' = Effect(a, s)
                    \/ s = <<"select", "VERSION">> /\ db' = [db EXCEPT !.spoilt = "trodden"]
              \/ /\ GiveUp(a)
                 /\ db' = db \/ (Works(s) /\ db' = Effect(a, s))
<1> DEFINE s == Head(todo[a])
<1>1. todo[a] # <<>> /\ file' = file
  BY DEF RunQuery
<1>2. s \in Statements
  BY <1>1, HeadAndTail DEF TypeInv, Copies
<1>3. \/ /\ Works(s) /\ db' = Effect(a, s)
         /\ Continue(a, Rest(a, CheckVersion))
      \/ /\ (Works(s) /\ db' \in Failed(a, s)) \/ db' = db
         /\ IF Unchecked(s) THEN Continue(a, Rest(a, 0)) ELSE GiveUp(a)
  BY DEF RunQuery
<1> HIDE DEF s
<1>4. s[1] = "select" <=> s = <<"select", "VERSION">>
  BY <1>2, OneSelects
<1>5. s[1] = "select" => Unchecked(s)
  BY DEF Unchecked
<1>6. db' \in Failed(a, s) => \/ s[1] = "select" /\ db' = [db EXCEPT !.spoilt = "trodden"]
                              \/ s[1] # "select" /\ db' \in {db, Effect(a, s)}
  BY DEF Failed
<1>7. \/ /\ Works(s) /\ db' = Effect(a, s)
         /\ Continue(a, Rest(a, CheckVersion))
      \/ /\ Unchecked(s) /\ Continue(a, Rest(a, 0))
         /\ \/ db' = db
            \/ Works(s) /\ s # <<"select", "VERSION">> /\ db' = Effect(a, s)
            \/ s = <<"select", "VERSION">> /\ db' = [db EXCEPT !.spoilt = "trodden"]
      \/ /\ GiveUp(a)
         /\ db' = db \/ (Works(s) /\ db' = Effect(a, s))
  BY <1>3, <1>4, <1>5, <1>6
<1> QED
  BY <1>1, <1>2, <1>7 DEF s

\* What is left to run after a statement
LEMMA RestIs ==
    ASSUME TypeInv, NEW a \in Admins, todo[a] # <<>>, NEW ver \in {0, CheckVersion}
    PROVE  /\ Program(Rest(a, ver))
           /\ Head(todo[a]) # <<"select", "VERSION">> => Rest(a, ver) = Tail(todo[a])
           /\ Head(todo[a]) = <<"select", "VERSION">> =>
                 /\ ver = 0 => Rest(a, ver) = UpdateDb(6)
                 /\ ver # 0 => Rest(a, ver) = UpdateDb(ver)
           /\ <<"load", "VERSION">> \in Members(Rest(a, ver)) =>
                 <<"load", "VERSION">> \in Members(todo[a])
<1>1. ver \in Nat /\ Program(todo[a])
  BY CheckVersionIs DEF TypeInv, Copies
<1>2. CASE Head(todo[a]) # <<"select", "VERSION">>
  <2>1. Rest(a, ver) = Tail(todo[a])
    BY <1>2 DEF Rest
  <2> QED
    BY <1>1, <1>2, <2>1, HeadAndTail
<1>3. CASE Head(todo[a]) = <<"select", "VERSION">>
  <2>1. /\ ver = 0 => Rest(a, ver) = UpdateDb(6)
        /\ ver # 0 => Rest(a, ver) = UpdateDb(ver)
    BY <1>3 DEF Rest, NET_VERSION_DATABASE
  <2>2. PICK v \in Nat : Rest(a, ver) = UpdateDb(v)
    BY <1>1, <2>1
  <2>3. Program(Rest(a, ver))
    BY <2>2, ProgramsAre
  <2>4. \A s \in Members(UpdateDb(v)) : Phase(s) \in 5..6
    BY UpdateDbIs, MembersRun
  <2>5. Phase(<<"load", "VERSION">>) = 12
    BY PhaseIs DEF Tables
  <2>6. <<"load", "VERSION">> \notin Members(Rest(a, ver))
    BY <2>2, <2>4, <2>5
  <2> QED
    BY <1>3, <2>1, <2>3, <2>6
<1> QED
  BY <1>2, <1>3

LEMMA ContinueCopies ==
    ASSUME TypeInv, NEW a \in Admins, todo[a] # <<>>, NEW ver \in {0, CheckVersion},
           Continue(a, Rest(a, ver))
    PROVE  Copies'
<1> DEFINE rest == Rest(a, ver)
<1>1. /\ todo' = [todo EXCEPT ![a] = rest]
      /\ at' = [at EXCEPT ![a] = CASE rest # <<>> -> at[a]
                                   [] rest = <<>> /\ at[a] = "opening" -> "login"
                                   [] OTHER -> "in"]
  BY DEF Continue
<1>2. /\ Program(rest)
      /\ <<"load", "VERSION">> \in Members(rest) => <<"load", "VERSION">> \in Members(todo[a])
  BY RestIs
<1> HIDE DEF rest
<1>3. at[a] \in {"opening", "restoring"}
  BY DEF TypeInv, Copies
<1>4. /\ rest # <<>> => at'[a] = at[a]
      /\ rest = <<>> => at'[a] \in {"login", "in"}
      /\ \A b \in Admins \ {a} : at'[b] = at[b]
      /\ at' \in [Admins -> {"out", "login", "opening", "in", "restoring"}]
  BY <1>1, <1>3 DEF TypeInv, Copies
<1>5. DOMAIN todo' = Admins /\ todo'[a] = rest /\ \A b \in Admins \ {a} : todo'[b] = todo[b]
  BY <1>1 DEF TypeInv, Copies
<1>6. ASSUME NEW b \in Admins
      PROVE  /\ Program(todo'[b])
             /\ todo'[b] # <<>> <=> at'[b] \in {"opening", "restoring"}
             /\ <<"load", "VERSION">> \in Members(todo'[b]) => at'[b] = "restoring"
  <2>1. CASE b = a
    BY <1>2, <1>3, <1>4, <1>5, <2>1, NoProgram DEF TypeInv, Copies
  <2>2. CASE b # a
    BY <1>4, <1>5, <2>2 DEF TypeInv, Copies
  <2> QED
    BY <2>1, <2>2
<1> QED
  BY <1>4, <1>5, <1>6 DEF Copies

\* A copy that has nothing to run any more
LEMMA StopCopies ==
    ASSUME TypeInv, NEW a \in Admins, NEW where \in {"out", "login", "in"},
           at' = [at EXCEPT ![a] = where],
           todo' = [todo EXCEPT ![a] = <<>>] \/ (todo' = todo /\ todo[a] = <<>>)
    PROVE  Copies'
<1>1. /\ at' \in [Admins -> {"out", "login", "opening", "in", "restoring"}]
      /\ at'[a] = where /\ \A b \in Admins \ {a} : at'[b] = at[b]
  BY DEF TypeInv, Copies
<1>2. DOMAIN todo' = Admins /\ todo'[a] = <<>> /\ \A b \in Admins \ {a} : todo'[b] = todo[b]
  BY DEF TypeInv, Copies
<1>3. ASSUME NEW b \in Admins
      PROVE  /\ Program(todo'[b])
             /\ todo'[b] # <<>> <=> at'[b] \in {"opening", "restoring"}
             /\ <<"load", "VERSION">> \in Members(todo'[b]) => at'[b] = "restoring"
  <2>1. CASE b = a
    BY <1>1, <1>2, <2>1, NoProgram
  <2>2. CASE b # a
    BY <1>1, <1>2, <2>2 DEF TypeInv, Copies
  <2> QED
    BY <2>1, <2>2
<1> QED
  BY <1>1, <1>2, <1>3 DEF Copies

\* A copy that has been given a program
LEMMA StartCopies ==
    ASSUME TypeInv, NEW a \in Admins, NEW p, Program(p), p # <<>>,
           NEW where \in {"opening", "restoring"},
           <<"load", "VERSION">> \in Members(p) => where = "restoring",
           at' = [at EXCEPT ![a] = where], todo' = [todo EXCEPT ![a] = p]
    PROVE  Copies'
<1>1. /\ at' \in [Admins -> {"out", "login", "opening", "in", "restoring"}]
      /\ at'[a] = where /\ \A b \in Admins \ {a} : at'[b] = at[b]
  BY DEF TypeInv, Copies
<1>2. DOMAIN todo' = Admins /\ todo'[a] = p /\ \A b \in Admins \ {a} : todo'[b] = todo[b]
  BY DEF TypeInv, Copies
<1>3. ASSUME NEW b \in Admins
      PROVE  /\ Program(todo'[b])
             /\ todo'[b] # <<>> <=> at'[b] \in {"opening", "restoring"}
             /\ <<"load", "VERSION">> \in Members(todo'[b]) => at'[b] = "restoring"
  <2>1. CASE b = a
    BY <1>1, <1>2, <2>1
  <2>2. CASE b # a
    BY <1>1, <1>2, <2>2 DEF TypeInv, Copies
  <2> QED
    BY <2>1, <2>2
<1> QED
  BY <1>1, <1>2, <1>3 DEF Copies

\* OpenDb's program, if there is one
LEMMA StartNetAdminIs ==
    ASSUME TypeInv, NEW a \in Admins, StartNetAdmin(a)
    PROVE  /\ at[a] = "out" /\ todo[a] = <<>> /\ UNCHANGED <<db, file>>
           /\ \/ /\ at' = [at EXCEPT ![a] = "login"] /\ todo' = [todo EXCEPT ![a] = <<>>]
              \/ /\ at' = [at EXCEPT ![a] = "opening"]
                 /\ \/ ~db.exists /\ todo' = [todo EXCEPT ![a] = CreateNew]
                    \/ db.exists /\ todo' = [todo EXCEPT ![a] = Replace]
                    \/ /\ CheckVersion \in 1..5
                       /\ todo' = [todo EXCEPT ![a] = UpdateDb(CheckVersion)]
<1>0. PICK ver \in {CheckVersion, 0} :
         LET program == CASE ~db.exists -> CreateNew
                          [] db.exists /\ ver = 0 -> Replace
                          [] ver \in 1..NET_VERSION_DATABASE-1 -> UpdateDb(ver)
                          [] OTHER -> <<>>
         IN  /\ todo' = [todo EXCEPT ![a] = program]
             /\ at' = [at EXCEPT ![a] = IF program = <<>> THEN "login" ELSE "opening"]
  BY DEF StartNetAdmin
<1> DEFINE program == CASE ~db.exists -> CreateNew
                        [] db.exists /\ ver = 0 -> Replace
                        [] ver \in 1..NET_VERSION_DATABASE-1 -> UpdateDb(ver)
                        [] OTHER -> <<>>
<1>1. /\ at[a] = "out" /\ UNCHANGED <<db, file>>
      /\ todo' = [todo EXCEPT ![a] = program]
      /\ at' = [at EXCEPT ![a] = IF program = <<>> THEN "login" ELSE "opening"]
  BY <1>0 DEF StartNetAdmin
<1>2. todo[a] = <<>>
  BY <1>1 DEF TypeInv, Copies
<1>3. ver \in 0..6 /\ (~db.exists => ver = 0)
  BY CheckVersionIs DEF TypeInv, Kept
<1>4. \/ program = <<>>
      \/ program # <<>> /\ \/ ~db.exists /\ program = CreateNew
                           \/ db.exists /\ program = Replace
                           \/ ver \in 1..5 /\ ver = CheckVersion /\ program = UpdateDb(ver)
  <2>1. CASE ~db.exists
    <3>1. program = CreateNew
      BY <1>3, <2>1 DEF NET_VERSION_DATABASE
    <3> QED
      BY <2>1, <3>1
  <2>2. CASE db.exists /\ ver = 0
    <3>1. program = Replace
      BY <1>3, <2>2 DEF NET_VERSION_DATABASE
    <3> QED
      BY <2>2, <3>1
  <2>3. CASE db.exists /\ ver \in 1..5
    <3>1. program = UpdateDb(ver)
      BY <2>3 DEF NET_VERSION_DATABASE
    <3> QED
      BY <2>3, <3>1
  <2>4. CASE db.exists /\ ver = 6
    BY <2>4 DEF NET_VERSION_DATABASE
  <2> QED
    BY <1>3, <2>1, <2>2, <2>3, <2>4
<1> HIDE DEF program
<1> QED
  BY <1>1, <1>2, <1>4

LEMMA MainCopies ==
    ASSUME TypeInv, NEW a \in Admins,
           \/ StartNetAdmin(a) \/ RunQuery(a) \/ LogIn(a) \/ Leave(a)
           \/ BackupData(a) \/ RestoreData(a)
    PROVE  Kept(db') /\ Kept(file') /\ Copies'
<1>0. Kept(db) /\ Kept(file)
  BY DEF TypeInv
<1>1. CASE StartNetAdmin(a)
  <2>1. Copies'
    <3>1. CASE at' = [at EXCEPT ![a] = "login"] /\ todo' = [todo EXCEPT ![a] = <<>>]
      BY <3>1, StopCopies
    <3>2. ASSUME NEW p, Program(p), p # <<>>, <<"load", "VERSION">> \notin Members(p),
                 at' = [at EXCEPT ![a] = "opening"], todo' = [todo EXCEPT ![a] = p]
          PROVE  Copies'
      BY <3>2, StartCopies
    <3>3. Phase(<<"load", "VERSION">>) = 12
      BY PhaseIs DEF Tables
    <3>4. /\ <<"load", "VERSION">> \notin Members(CreateNew)
          /\ <<"load", "VERSION">> \notin Members(Replace)
          /\ \A v \in Nat : <<"load", "VERSION">> \notin Members(UpdateDb(v))
      <4>1. \A s \in Members(CreateNew) : Phase(s) \in 1..4
        BY CreateNewIs, MembersRun
      <4>2. \A s \in Members(Replace) : Phase(s) \in 0..6
        BY ReplaceIs, MembersRun
      <4>3. \A v \in Nat : \A s \in Members(UpdateDb(v)) : Phase(s) \in 5..6
        BY UpdateDbIs, MembersRun
      <4> QED
        BY <3>3, <4>1, <4>2, <4>3
    <3>5. CheckVersion \in 1..5 => CheckVersion \in Nat
      OBVIOUS
    <3>6. /\ Program(CreateNew) /\ CreateNew # <<>> /\ Program(Replace) /\ Replace # <<>>
          /\ \A v \in Nat : Program(UpdateDb(v)) /\ UpdateDb(v) # <<>>
      BY CreateNewIs, ReplaceIs, ProgramsAre
    <3> QED
      BY <1>1, <3>1, <3>2, <3>4, <3>5, <3>6, StartNetAdminIs, Zenon
  <2> QED
    BY <1>0, <1>1, <2>1, StartNetAdminIs
<1>2. CASE RunQuery(a)
  <2> DEFINE s == Head(todo[a])
  <2>1. /\ todo[a] # <<>> /\ s \in Statements /\ file' = file
        /\ \/ /\ Works(s) /\ db' = Effect(a, s)
              /\ Continue(a, Rest(a, CheckVersion))
           \/ /\ Unchecked(s) /\ Continue(a, Rest(a, 0))
              /\ \/ db' = db
                 \/ Works(s) /\ db' = Effect(a, s)
                 \/ db' = [db EXCEPT !.spoilt = "trodden"]
           \/ /\ GiveUp(a)
              /\ db' = db \/ (Works(s) /\ db' = Effect(a, s))
    BY <1>2, RunQueryIs
  <2> HIDE DEF s
  <2>2. Kept(db')
    <3>1. Kept([db EXCEPT !.spoilt = "trodden"])
      BY <1>0, SpoiltKept
    <3> QED
      BY <1>0, <2>1, <3>1, EffectKept
  <2>3. \A ver \in {0, CheckVersion} : Continue(a, Rest(a, ver)) => Copies'
    BY <2>1, ContinueCopies
  <2>4. ASSUME GiveUp(a)
        PROVE  Copies'
    <3>1. /\ todo' = [todo EXCEPT ![a] = <<>>]
          /\ at' = [at EXCEPT ![a] = "out"] \/ at' = [at EXCEPT ![a] = "in"]
      BY <2>4 DEF GiveUp
    <3> QED
      BY <3>1, StopCopies
  <2>5. Copies' /\ file' = file
    BY <2>1, <2>3, <2>4
  <2> QED
    BY <1>0, <2>2, <2>5
<1>3. CASE LogIn(a)
  <2>1. todo[a] = <<>>
    BY <1>3 DEF LogIn, TypeInv, Copies
  <2>2. \E where \in {"out", "in"} : at' = [at EXCEPT ![a] = where]
    BY <1>3 DEF LogIn
  <2>3. UNCHANGED <<db, file, todo>>
    BY <1>3 DEF LogIn
  <2> QED
    BY <1>0, <2>1, <2>2, <2>3, StopCopies
<1>4. CASE Leave(a)
  BY <1>0, <1>4, StopCopies DEF Leave
<1>5. CASE BackupData(a)
  <2>1. Kept([db EXCEPT !.spoilt = "trodden"]) /\ Kept(NoDb)
    BY <1>0, SpoiltKept, NoDbKept
  <2>2. UNCHANGED <<db, at, todo>>
    BY <1>5 DEF BackupData
  <2>3. file' \in {db, [db EXCEPT !.spoilt = "trodden"], NoDb}
    BY <1>5 DEF BackupData
  <2>4. Copies'
    BY <2>2 DEF TypeInv, Copies
  <2> QED
    BY <1>0, <2>1, <2>2, <2>3, <2>4
<1>6. CASE RestoreData(a)
  <2>1. at' = [at EXCEPT ![a] = "restoring"] /\ todo' = [todo EXCEPT ![a] = RestoreDb]
        /\ UNCHANGED <<db, file>>
    BY <1>6 DEF RestoreData
  <2> QED
    BY <1>0, <2>1, RestoreDbIs, ProgramsAre, StartCopies
<1> QED
  BY <1>1, <1>2, <1>3, <1>4, <1>5, <1>6

LEMMA MainTypes ==
    ASSUME TypeInv, NEW a \in Admins, Main(a)
    PROVE  TypeInv'
<1>1. \/ StartNetAdmin(a) \/ RunQuery(a) \/ LogIn(a) \/ Leave(a)
      \/ BackupData(a) \/ RestoreData(a)
  BY DEF Main
<1>2. Kept(db') /\ Kept(file') /\ Copies'
  BY <1>1, MainCopies
<1>3. CASE at'[Viewer] = "out"
  <2>1. view' = NoView /\ rows' = NoRows
    BY <1>3 DEF Main
  <2> QED
    BY <1>2, <2>1 DEF TypeInv, Windows, NoView
<1>4. CASE at'[Viewer] # "out"
  <2>1. view' = view /\ rows' = rows
    BY <1>4 DEF Main
  <2>2. ASSUME view # NoView
        PROVE  at'[Viewer] = "in"
    <3>1. at[Viewer] = "in" /\ Viewer \in Admins /\ todo[Viewer] = <<>>
      BY <2>2, NetadminAssumption DEF TypeInv, Windows, Copies
    <3>2. CASE a # Viewer
      BY <3>1, <3>2, <1>1 DEF StartNetAdmin, RunQuery, Continue, GiveUp, LogIn, Leave, BackupData,
                              RestoreData, TypeInv, Copies
    <3>3. CASE a = Viewer
      <4>1. Leave(a)
        BY <2>2, <3>1, <3>3 DEF Main, StartNetAdmin, RunQuery, LogIn
      <4>2. at' = [at EXCEPT ![a] = "out"]
        BY <4>1 DEF Leave
      <4> QED
        BY <1>4, <3>1, <3>3, <4>2 DEF TypeInv, Copies
    <3> QED
      BY <3>2, <3>3
  <2> QED
    BY <1>2, <2>1, <2>2 DEF TypeInv, Windows
<1> QED
  BY <1>3, <1>4

\* Rows of users written or deleted
LEMMA RowsKept ==
    ASSUME NEW d, Kept(d), d = db, NEW u \in Users,
           NEW row \in [online : BOOLEAN, info : Infos]
    PROVE  /\ "USERS" \in d.tables => Kept(With(u, row))
           /\ Kept(Without(u))
<1>1. /\ DOMAIN db.users \subseteq Users
      /\ \A x \in DOMAIN db.users : db.users[x] \in [online : BOOLEAN, info : Infos]
  BY UserRowsAre DEF Kept, Databases
<1> DEFINE U == [x \in DOMAIN db.users \union {u} |-> IF x = u THEN row ELSE db.users[x]]
           W == [x \in DOMAIN db.users \ {u} |-> db.users[x]]
<1>2. U \in UserRows
  <2>1. DOMAIN U \subseteq Users /\ U \in [DOMAIN U -> [online : BOOLEAN, info : Infos]]
    BY <1>1
  <2> HIDE DEF U
  <2> QED
    BY <2>1, UserRowsAre
<1>3. W \in UserRows /\ DOMAIN W \subseteq DOMAIN db.users
  <2>1. DOMAIN W \subseteq Users /\ W \in [DOMAIN W -> [online : BOOLEAN, info : Infos]]
    BY <1>1
  <2>2. DOMAIN W \subseteq DOMAIN db.users
    OBVIOUS
  <2> HIDE DEF W
  <2> QED
    BY <2>1, <2>2, UserRowsAre
<1>4. With(u, row) = [db EXCEPT !.users = U] /\ Without(u) = [db EXCEPT !.users = W]
  BY DEF With, Without
<1> HIDE DEF U, W
<1>5. DOMAIN W # {} => "USERS" \in db.tables
  BY <1>3 DEF Kept
<1>6. Kept([db EXCEPT !.users = W])
  BY <1>3, <1>5, UsersKept
<1>7. "USERS" \in db.tables => Kept([db EXCEPT !.users = U])
  BY <1>2, UsersKept
<1> QED
  BY <1>4, <1>6, <1>7

\* A step that leaves the copies where they are
LEMMA CopiesStay == Copies /\ UNCHANGED <<at, todo>> => Copies'
BY DEF Copies

LEMMA ElsewhereTypes ==
    ASSUME TypeInv, NEW a \in Admins, NEW u \in Users, Elsewhere(a, u)
    PROVE  TypeInv'
<1>1. /\ u \in DOMAIN db.users
      /\ db' \in {Without(u)} \union {With(u, [db.users[u] EXCEPT !.info = i]) : i \in Infos}
      /\ UNCHANGED <<file, at, todo, view, rows>>
  BY DEF Elsewhere
<1>2. Kept(db) /\ "USERS" \in db.tables /\ db.users[u] \in [online : BOOLEAN, info : Infos]
  BY <1>1, UserRowsAre DEF TypeInv, Kept, Databases
<1>3. \A i \in Infos : [db.users[u] EXCEPT !.info = i] \in [online : BOOLEAN, info : Infos]
  BY <1>2
<1>4. Kept(db')
  BY <1>1, <1>2, <1>3, RowsKept, NewUserFits
<1> QED
  BY <1>1, <1>4, CopiesStay DEF TypeInv, Windows

LEMMA DaemonTypes ==
    ASSUME TypeInv,
           \/ \E u \in Users, b \in BOOLEAN : Online(u, b)
           \/ \E c \in Calls, u, v \in Users : InitiateCall(c, u, v)
           \/ \E c \in Calls : EndCall(c)
    PROVE  TypeInv'
<1>1. ASSUME NEW d, Kept(d), NEW told, Update(d, told)
      PROVE  TypeInv'
  <2>1. db' = d /\ UNCHANGED <<file, at, todo, view, rows>>
    BY <1>1 DEF Update
  <2> QED
    BY <1>1, <2>1, CopiesStay DEF TypeInv, Windows
<1>2. Kept(db)
  BY DEF TypeInv
<1>3. ASSUME NEW u \in Users, NEW b \in BOOLEAN, Online(u, b)
      PROVE  TypeInv'
  <2> DEFINE U == [db.users EXCEPT ![u].online = b]
  <2>1. /\ u \in DOMAIN db.users /\ Update([db EXCEPT !.users[u].online = b], <<Message(u)>>)
    BY <1>3 DEF Online
  <2>2. DOMAIN db.users \subseteq Users /\ db.users \in [DOMAIN db.users -> [online : BOOLEAN, info : Infos]]
    BY <1>2, UserRowsAre DEF Kept, Databases
  <2>3. DOMAIN U = DOMAIN db.users /\ U \in [DOMAIN U -> [online : BOOLEAN, info : Infos]]
    BY <2>1, <2>2
  <2>4. [db EXCEPT !.users[u].online = b] = [db EXCEPT !.users = U]
    BY <1>2 DEF Kept, Databases
  <2> HIDE DEF U
  <2>5. U \in UserRows /\ (DOMAIN U # {} => "USERS" \in db.tables)
    BY <1>2, <2>2, <2>3, UserRowsAre DEF Kept
  <2> QED
    BY <1>1, <1>2, <2>1, <2>4, <2>5, UsersKept
<1>4. ASSUME NEW c \in Calls, NEW u \in Users, NEW v \in Users, InitiateCall(c, u, v)
      PROVE  TypeInv'
  <2> DEFINE K == [x \in DOMAIN db.calls \union {c} |->
                     IF x = c THEN [ends |-> <<u, v>>, open |-> TRUE] ELSE db.calls[x]]
  <2>1. PICK told : Update([db EXCEPT !.calls = K], told)
    BY <1>4 DEF InitiateCall
  <2>2. /\ DOMAIN db.calls \subseteq Calls
        /\ \A x \in DOMAIN db.calls : db.calls[x] \in [ends : Users \X Users, open : BOOLEAN]
    BY <1>2, CallRowsAre DEF Kept, Databases
  <2>3. DOMAIN K \subseteq Calls /\ K \in [DOMAIN K -> [ends : Users \X Users, open : BOOLEAN]]
    BY <2>2
  <2> HIDE DEF K
  <2>4. K \in CallRows
    BY <2>3, CallRowsAre
  <2> QED
    BY <1>1, <1>2, <2>1, <2>4, CallsKept
<1>5. ASSUME NEW c \in Calls, EndCall(c)
      PROVE  TypeInv'
  <2> DEFINE K == [db.calls EXCEPT ![c].open = FALSE]
  <2>1. PICK told : c \in DOMAIN db.calls /\ Update([db EXCEPT !.calls[c].open = FALSE], told)
    BY <1>5 DEF EndCall
  <2>2. /\ DOMAIN db.calls \subseteq Calls
        /\ db.calls \in [DOMAIN db.calls -> [ends : Users \X Users, open : BOOLEAN]]
    BY <1>2, CallRowsAre DEF Kept, Databases
  <2>3. DOMAIN K = DOMAIN db.calls /\ K \in [DOMAIN K -> [ends : Users \X Users, open : BOOLEAN]]
    BY <2>1, <2>2
  <2>4. [db EXCEPT !.calls[c].open = FALSE] = [db EXCEPT !.calls = K]
    BY <1>2 DEF Kept, Databases
  <2> HIDE DEF K
  <2>5. K \in CallRows
    BY <2>2, <2>3, CallRowsAre
  <2> QED
    BY <1>1, <1>2, <2>1, <2>4, <2>5, CallsKept
<1> QED
  BY <1>3, <1>4, <1>5

LEMMA ListTypes ==
    ASSUME Shape, TypeInv,
           \/ \E l \in Lists : OpenList(l)
           \/ ToggledData \/ CloseData \/ UserUpdateData \/ CallUpdateData
    PROVE  TypeInv'
<1>1. ASSUME UNCHANGED dbVars, Windows'
      PROVE  TypeInv'
  BY <1>1, CopiesStay DEF TypeInv, dbVars
<1>2. ASSUME NEW list, list # "none", NEW filter, RefreshList(list, filter), at[Viewer] = "in"
      PROVE  TypeInv'
  <2>1. view'.list = list /\ UNCHANGED dbVars
    BY <1>2 DEF RefreshList, NoView
  <2> QED
    BY <1>1, <1>2, <2>1 DEF Windows, dbVars
<1>3. CASE \E l \in Lists : OpenList(l)
  BY <1>2, <1>3 DEF OpenList, Idle, Lists
<1>4. CASE ToggledData
  BY <1>2, <1>4 DEF ToggledData, Idle
<1>5. CASE CloseData
  BY <1>1, <1>5 DEF CloseData, Windows
<1>6. CASE UserUpdateData \/ CallUpdateData
  <2>1. /\ view.list # "none" /\ UNCHANGED dbVars
        /\ view' = view \/ \E held : view' = [view EXCEPT !.held = held]
    BY <1>6 DEF UserUpdateData, CallUpdateData, UpdateData
  <2>2. view'.list = view.list /\ view # NoView
    BY <2>1 DEF Shape, NoView
  <2> QED
    BY <1>1, <2>1, <2>2 DEF Windows, TypeInv, dbVars
<1> QED
  BY <1>3, <1>4, <1>5, <1>6

LEMMA DialogTypes ==
    ASSUME Shape, TypeInv,
           \/ \E u \in Users : EditData(u) \/ DeleteData(u) \/ AddData(u)
           \/ \E i \in Infos : OkData(i)
           \/ Reject \/ RejectName \/ DeleteYes \/ CancelData
    PROVE  TypeInv'
<1>0. Kept(db) /\ Kept(file) /\ Copies
  BY DEF TypeInv
<1>1. ASSUME view.list # "none"
      PROVE  at[Viewer] = "in" /\ todo[Viewer] = <<>> /\ Viewer \in Admins
  BY <1>1, NetadminAssumption DEF TypeInv, Windows, Copies, NoView
<1>2. ASSUME view.list # "none", NEW what, NEW u, NEW k, Dialog(what, u, k), at' = at
      PROVE  Windows'
  <2>1. view'.list = view.list
    BY <1>2 DEF Dialog, Shape
  <2> QED
    BY <1>1, <1>2, <2>1 DEF Windows
<1>3. ASSUME view.list # "none", todo' = todo,
             Dies \/ GoesOn \/ (NoDialog /\ at' = at)
      PROVE  Windows' /\ Copies'
  <2>1. CASE NoDialog /\ at' = at
    <3>1. Windows'
      BY <1>2, <1>3, <2>1 DEF NoDialog
    <3> QED
      BY <1>0, <1>3, <2>1, <3>1, CopiesStay
  <2>2. CASE Dies
    <3>1. Copies'
      BY <1>1, <1>3, <2>2, StopCopies DEF Dies
    <3> QED
      BY <2>2, <3>1 DEF Windows, NoView, Dies
  <2> QED
    BY <1>3, <2>1, <2>2 DEF GoesOn
<1>9. ASSUME view.dialog # "none", NEW d, Kept(d), Finish(d), UNCHANGED <<file, todo>>
      PROVE  TypeInv'
  <2>1. view.list # "none"
    BY <1>9 DEF Shape
  <2>2. db' = d /\ (Dies \/ GoesOn \/ (NoDialog /\ at' = at))
    BY <1>9 DEF Finish, FinishEdit, FinishAdd
  <2> QED
    BY <1>0, <1>3, <1>9, <2>1, <2>2 DEF TypeInv
<1>4. CASE \E u \in Users : EditData(u) \/ DeleteData(u)
  <2>1. PICK u \in Users : EditData(u) \/ DeleteData(u)
    BY <1>4
  <2>2. /\ view.list # "none" /\ UNCHANGED <<db, file, at, todo>>
        /\ \E k : Dialog("edit", u, k) \/ Dialog("delete", u, k)
    BY <2>1 DEF EditData, DeleteData, OpenDialog, Idle, dbVars
  <2> QED
    BY <1>0, <1>2, <2>2, CopiesStay DEF TypeInv
<1>5. CASE \E u \in Users : AddData(u)
  <2>1. PICK u \in Users : AddData(u)
    BY <1>5
  <2>2. /\ view.list # "none" /\ UNCHANGED <<file, at, todo>> /\ Dialog("add", u, 0)
        /\ db' = With(u, NewUser) /\ "USERS" \in db.tables
    BY <2>1 DEF AddData, Idle
  <2>3. Kept(db')
    BY <1>0, <2>2, RowsKept, NewUserFits
  <2> QED
    BY <1>0, <1>2, <2>2, <2>3, CopiesStay DEF TypeInv
<1>6. CASE \E i \in Infos : OkData(i)
  <2>1. PICK i \in Infos : OkData(i)
    BY <1>6
  <2> DEFINE u == view.item
             d == IF u \in DOMAIN db.users THEN With(u, [db.users[u] EXCEPT !.info = i]) ELSE db
  <2>2. view.dialog # "none" /\ Finish(d) /\ UNCHANGED <<file, todo>>
    BY <2>1 DEF OkData
  <2>4. Kept(d)
    <3>1. CASE u \in DOMAIN db.users
      <4>1. "USERS" \in db.tables /\ u \in Users /\ db.users[u] \in [online : BOOLEAN, info : Infos]
        BY <1>0, <3>1, UserRowsAre DEF Kept, Databases
      <4>2. [db.users[u] EXCEPT !.info = i] \in [online : BOOLEAN, info : Infos]
        BY <4>1
      <4> QED
        BY <1>0, <3>1, <4>1, <4>2, RowsKept
    <3> QED
      BY <1>0, <3>1
  <2> HIDE DEF d
  <2> QED
    BY <1>9, <2>2, <2>4
<1>7. CASE DeleteYes
  <2> DEFINE u == view.item
  <2>1. /\ view.dialog # "none" /\ db' \in {db, Without(u)} /\ UNCHANGED <<file, todo>>
        /\ Dies \/ GoesOn \/ (NoDialog /\ at' = at)
    BY <1>7 DEF DeleteYes
  <2>2. view.list # "none"
    BY <2>1 DEF Shape
  <2>3. Kept(Without(u))
    <3>1. /\ db.users \in UserRows
          /\ Without(u) = [db EXCEPT !.users = [x \in DOMAIN db.users \ {u} |-> db.users[x]]]
      BY <1>0 DEF Kept, Databases, Without
    <3> DEFINE W == [x \in DOMAIN db.users \ {u} |-> db.users[x]]
    <3>2. DOMAIN W \subseteq Users /\ W \in [DOMAIN W -> [online : BOOLEAN, info : Infos]]
      BY <3>1, UserRowsAre
    <3>3. DOMAIN W # {} => "USERS" \in db.tables
      BY <1>0 DEF Kept
    <3>4. Without(u) = [db EXCEPT !.users = W]
      BY <3>1
    <3> HIDE DEF W
    <3> QED
      BY <1>0, <3>2, <3>3, <3>4, UserRowsAre, UsersKept
  <2> QED
    BY <1>0, <1>3, <2>1, <2>2, <2>3 DEF TypeInv
<1>8. CASE CancelData
  <2>1. /\ view.dialog # "none" /\ UNCHANGED <<db, file, at, todo>>
        /\ Dialog("none", DefaultUser, 0)
    BY <1>8 DEF CancelData, NoDialog, dbVars
  <2>2. view.list # "none"
    BY <2>1 DEF Shape
  <2> QED
    BY <1>0, <1>2, <2>1, <2>2, CopiesStay DEF TypeInv
<1>10. CASE Reject
  BY <1>0, <1>9, <1>10 DEF Reject
<1>11. CASE RejectName
  BY <1>0, <1>3, <1>11 DEF RejectName, Idle, TypeInv
<1> QED
  BY <1>4, <1>5, <1>6, <1>7, <1>8, <1>10, <1>11

LEMMA TypesInit == Init => TypeInv
<1> SUFFICES ASSUME Init
             PROVE  TypeInv
  OBVIOUS
<1>1. PICK found \in Found : db = found[1] /\ file = found[2]
  BY DEF Init, DbInit
<1>2. ASSUME NEW d, Released(d), d \in Databases, DOMAIN d.users # {} => "USERS" \in d.tables
      PROVE  Kept(d)
  <2>1. \E s \in {NoDb} \union {Schema(v) : v \in 1..NET_VERSION_DATABASE} :
           d = [s EXCEPT !.users = d.users, !.calls = d.calls]
    BY <1>2 DEF Released
  <2>2. CASE d = [NoDb EXCEPT !.users = d.users, !.calls = d.calls]
    <3>1. d.columns = {} /\ d.tables = {} /\ d.versions = {}
      BY <2>2 DEF NoDb
    <3> QED
      BY <1>2, <3>1 DEF Kept
  <2>3. CASE \E v \in 1..6 : d = [Schema(v) EXCEPT !.users = d.users, !.calls = d.calls]
    <3>1. PICK v \in 1..6 : d = [Schema(v) EXCEPT !.users = d.users, !.calls = d.calls]
      BY <2>3
    <3>2. /\ d.exists /\ d.columns = {c \in Columns : Since(c) <= v}
          /\ d.tables = {t \in Tables : Since(t) <= v}
      BY <3>1 DEF Schema, NoDb
    <3>3. ASSUME NEW c \in d.columns
          PROVE  \E t \in d.tables : c \in ColumnsOf(t)
      <4>1. CASE c \in UserColumns
        BY <3>2, <4>1 DEF Since, Tables, ColumnsOf
      <4>2. CASE c \in CallColumns
        <5>1. Since(c) >= 3 /\ Since("CALLS") = 3 /\ "CALLS" \in Tables /\ c \in ColumnsOf("CALLS")
          BY <4>2 DEF Since, Tables, ColumnsOf, CallColumns
        <5>2. Since(c) \in Int
          BY <4>2 DEF Since, CallColumns
        <5> QED
          BY <3>2, <3>3, <5>1, <5>2
      <4> QED
        BY <3>2, <3>3, <4>1, <4>2 DEF Columns
    <3> QED
      BY <1>2, <3>2, <3>3 DEF Kept
  <2> QED
    BY <2>1, <2>2, <2>3 DEF NET_VERSION_DATABASE
<1>3. Kept(db) /\ Kept(file)
  BY <1>1, <1>2, NetadminAssumption, DatabaseAssumption
<1>4. Copies
  BY NoProgram DEF Init, DbInit, Copies
<1>5. Windows
  BY DEF Init, Windows, NoView
<1> QED
  BY <1>3, <1>4, <1>5 DEF TypeInv

LEMMA TypesStep == Inv /\ TypeInv /\ [Next]_adminVars => TypeInv'
<1>1. ASSUME TypeInv, UNCHANGED adminVars
      PROVE  TypeInv'
  BY <1>1 DEF TypeInv, Kept, Copies, Windows, adminVars, dbVars
<1> QED
  BY <1>1, MainTypes, ElsewhereTypes, DaemonTypes, ListTypes, DialogTypes DEF Next, Inv

\* For any users, calls and copies of netadmin, whatever fails: the database and the backup
\* keep their shape, and a copy has statements to run exactly while it opens or restores.
THEOREM AdminTypeCorrect == Spec => []TypeOK
<1>1. Inv /\ TypeInv => TypeOK
  BY DEF Inv, Shape, RowsShape, TypeInv, TypeOK, Kept, Copies, Windows
<1> QED
  BY InvInit, InvStep, TypesInit, TypesStep, <1>1, PTL DEF Spec

-----------------------------------------------------------------------------
(***************************************************************************)
(* What the version tells.                                                 *)
(***************************************************************************)
\* The tables and columns d is without
Lacks(d) == (Tables \ d.tables) \union (Columns \ d.columns)
Home(x) == IF x \in Tables THEN x ELSE IF x \in UserColumns THEN "USERS" ELSE "CALLS"

\* What may be missing in a database of d's versions
Due(d, x) == x = "ONLINE" \/ \E v \in d.versions : v < Since(x)

\* The versions do not say more than there is
Sound(d) == d.spoilt = "no" /\ d.versions # {} => \A x \in Lacks(d) : Due(d, x)

\* M is what a copy has still to run.  One that fills a new database will write its version
Making(M) == <<"insert", "VERSION">> \in M /\ <<"create", "DATABASE">> \notin M
MakingOK(d, M) ==
    Making(M) /\ d.spoilt # "trodden" =>
        /\ d.versions \subseteq {6}
        /\ \A t \in Tables : \/ t \in d.tables /\ ColumnsOf(t) \subseteq d.columns
                             \/ t \notin d.tables /\ <<"create", t>> \in M

\* UpdateDb adds what there is not before it writes the version
UpdateOK(d, M) ==
    <<"update", "VERSION">> \in M /\ d.spoilt = "no" /\ d.versions # {} =>
        Lacks(d) \subseteq Adds(M) \union {"ONLINE"}

\* RestoreDb clears what is there before it loads the file, whose version comes last
RestoreOK(d, f, M) ==
    /\ <<"load", "VERSION">> \in M /\ f.spoilt = "no" /\ f.versions # {} /\ d.spoilt # "trodden"
    => \A x \in Tables \union Columns :
          \/ Due(f, x)
          \/ <<"load", Home(x)>> \in M
          \/ x \notin Lacks(d) /\ \A t \in Tables : <<"drop", t>> \notin M

\* The CALLS of an old release, without its later columns, are not made while another
\* copy (N) fills a new database
OldOK(d, M, N) ==
    <<"create old", "CALLS">> \in M /\ Making(N) /\ d.spoilt # "trodden" =>
        "CALLS" \in d.tables \/ <<"create", "CALLS">> \in M
OldExists(d, M) ==
    <<"create old", "CALLS">> \in M /\ d.spoilt # "trodden" /\ ~d.exists =>
        <<"create", "CALLS">> \in M

ProgramOK(d, f, M) == MakingOK(d, M) /\ UpdateOK(d, M) /\ RestoreOK(d, f, M) /\ OldExists(d, M)
Safe(d, f, M, N) == ProgramOK(d, f, M) /\ OldOK(d, M, N)

Now(a) == Members(todo[a])
VersionInv ==
    /\ Sound(db) /\ Sound(file)
    /\ \A a, b \in Admins : Safe(db, file, Now(a), Now(b))

-----------------------------------------------------------------------------
LEMMA TroddenSafe ==
    ASSUME NEW e, e.spoilt = "trodden"
    PROVE  Sound(e) /\ \A f, M, N : Safe(e, f, M, N)
BY DEF Sound, Safe, ProgramOK, MakingOK, UpdateOK, RestoreOK, OldExists, OldOK

LEMMA NothingSafe ==
    \A d, f, N : Safe(d, f, {}, N) /\ OldOK(d, N, {})
BY DEF Safe, ProgramOK, MakingOK, Making, UpdateOK, RestoreOK, OldExists, OldOK

\* The same tables, columns and versions
SameSchema(d, e) ==
    /\ d.exists = e.exists /\ d.tables = e.tables /\ d.columns = e.columns
    /\ d.versions = e.versions /\ d.spoilt = e.spoilt

LEMMA SameIsSafe ==
    ASSUME NEW d, NEW e, SameSchema(d, e)
    PROVE  /\ Sound(d) => Sound(e)
           /\ \A f, M, N : Safe(d, f, M, N) => Safe(e, f, M, N)
<1>1. Lacks(d) = Lacks(e) /\ \A x : Due(d, x) = Due(e, x)
  BY DEF SameSchema, Lacks, Due
<1>2. Sound(d) => Sound(e)
  BY <1>1 DEF SameSchema, Sound
<1>3. \A f, M : RestoreOK(d, f, M) => RestoreOK(e, f, M)
  BY <1>1 DEF SameSchema, RestoreOK
<1>4. \A f, M, N : Safe(d, f, M, N) => Safe(e, f, M, N)
  BY <1>1, <1>3 DEF SameSchema, Safe, ProgramOK, MakingOK, UpdateOK, OldExists, OldOK
<1> QED
  BY <1>2, <1>4

\* There is more, but no version more
Grown(d, e) ==
    /\ d.tables \subseteq e.tables /\ d.columns \subseteq e.columns
    /\ d.exists = e.exists /\ d.versions = e.versions /\ d.spoilt = e.spoilt

LEMMA GrownIsSafe ==
    ASSUME NEW d, NEW e, Grown(d, e)
    PROVE  /\ Sound(d) => Sound(e)
           /\ \A f, M, N : Safe(d, f, M, N) /\ MakingOK(e, M) => Safe(e, f, M, N)
<1>1. Lacks(e) \subseteq Lacks(d) /\ \A x : Due(d, x) = Due(e, x)
  BY DEF Grown, Lacks, Due
<1>2. Sound(d) => Sound(e)
  BY <1>1 DEF Grown, Sound
<1>3. \A f, M : RestoreOK(d, f, M) => RestoreOK(e, f, M)
  BY <1>1 DEF Grown, RestoreOK
<1>4. \A M : UpdateOK(d, M) => UpdateOK(e, M)
  BY <1>1 DEF Grown, UpdateOK
<1>5. \A M, N : /\ OldOK(d, M, N) => OldOK(e, M, N)
                /\ OldExists(d, M) => OldExists(e, M)
  BY DEF Grown, OldOK, OldExists
<1> QED
  BY <1>2, <1>3, <1>4, <1>5 DEF Safe, ProgramOK

\* A new table has its columns
LEMMA GrownIsMaking ==
    ASSUME NEW d, NEW e, Grown(d, e),
           \A t \in e.tables \ d.tables : ColumnsOf(t) \subseteq e.columns
    PROVE  \A M : MakingOK(d, M) => MakingOK(e, M)
<1> SUFFICES ASSUME NEW M, MakingOK(d, M), Making(M), e.spoilt # "trodden"
             PROVE  /\ e.versions \subseteq {6}
                    /\ \A t \in Tables : \/ t \in e.tables /\ ColumnsOf(t) \subseteq e.columns
                                         \/ t \notin e.tables /\ <<"create", t>> \in M
  BY DEF MakingOK
<1>1. /\ d.versions \subseteq {6}
      /\ \A t \in Tables : \/ t \in d.tables /\ ColumnsOf(t) \subseteq d.columns
                           \/ t \notin d.tables /\ <<"create", t>> \in M
  BY DEF MakingOK, Grown
<1> QED
  BY <1>1 DEF Grown

LEMMA NamesDiffer == Tables \intersect Columns = {}
BY DEF Tables, Columns, UserColumns, CallColumns

\* s, of the statements M, has done what it is for
Done(s, e, M) ==
    /\ \A t \in Tables \union Columns : s = <<"create", t>> => t \in e.tables /\ e.exists
    /\ \A c \in Columns : s = <<"add", c>> => c \in e.columns \/ c = "ONLINE"
    /\ s = <<"create old", "CALLS">> => "CALLS" \in e.tables
    /\ \A t : <<"create old", t>> \in M => t = "CALLS"
    /\ \A c : <<"add", c>> \in M => c \in Columns
    /\ e.tables \subseteq Tables /\ e.columns \subseteq Columns

\* What a program that has run s still owes
LEMMA DoneIsSafe ==
    ASSUME NEW e, NEW f, NEW M, NEW L, NEW s, M = {s} \union L,
           Done(s, e, M)
    PROVE  /\ s # <<"create", "DATABASE">> => (MakingOK(e, M) => MakingOK(e, L))
           /\ UpdateOK(e, M) => UpdateOK(e, L)
           /\ (\A t : s # <<"load", t>>) => (RestoreOK(e, f, M) => RestoreOK(e, f, L))
           /\ OldExists(e, M) => OldExists(e, L)
           /\ \A N : OldOK(e, M, N) => OldOK(e, L, N)
           /\ s # <<"create", "DATABASE">> => \A N : OldOK(e, N, M) => OldOK(e, N, L)
<1>1. s # <<"create", "DATABASE">> => (Making(L) => Making(M))
  BY DEF Making
<1>2. s # <<"create", "DATABASE">> => (MakingOK(e, M) => MakingOK(e, L))
  BY <1>1 DEF MakingOK, Done
<1>3. UpdateOK(e, M) => UpdateOK(e, L)
  <2>1. Adds(M) \intersect Lacks(e) \subseteq Adds(L) \union {"ONLINE"}
    <3>1. ASSUME NEW x \in Adds(M), x \in Lacks(e), x # "ONLINE"
          PROVE  x \in Adds(L)
      <4>0. x \in Tables \union Columns
        BY DEF Adds
      <4>1. \/ x \in Tables /\ x \notin e.tables /\ x \notin e.columns
            \/ x \in Columns /\ x \notin e.columns /\ x \notin e.tables
        BY <3>1, NamesDiffer DEF Lacks, Done
      <4>2. s # <<"create", x>>
        BY <4>0, <4>1 DEF Done
      <4>3. s = <<"add", x>> => x \in Columns
        BY DEF Done
      <4>4. s # <<"add", x>>
        BY <3>1, <4>1, <4>3 DEF Done
      <4>5. s = <<"create old", x>> => x = "CALLS"
        BY DEF Done
      <4>6. s # <<"create old", x>>
        BY <4>1, <4>5 DEF Done
      <4> QED
        BY <4>2, <4>4, <4>6 DEF Adds
    <3> QED
      BY <3>1
  <2> QED
    BY <2>1 DEF UpdateOK
<1>4. (\A t : s # <<"load", t>>) => (RestoreOK(e, f, M) => RestoreOK(e, f, L))
  BY DEF RestoreOK
<1>5. OldExists(e, M) => OldExists(e, L)
  <2>1. "CALLS" \in Tables \union Columns
    BY DEF Tables
  <2> QED
    BY <2>1 DEF OldExists, Done
<1>6. \A N : OldOK(e, M, N) => OldOK(e, L, N)
  <2>1. "CALLS" \in Tables \union Columns
    BY DEF Tables
  <2> QED
    BY <2>1 DEF OldOK, Done
<1>7. s # <<"create", "DATABASE">> => \A N : OldOK(e, N, M) => OldOK(e, N, L)
  BY <1>1 DEF OldOK
<1> QED
  BY <1>2, <1>3, <1>4, <1>5, <1>6, <1>7

LEMMA SinceIs == \A x \in Tables \union Columns : Since(x) \in 1..6
BY DEF Since, Tables, Columns, UserColumns, CallColumns

LEMMA HomeIs ==
    ASSUME NEW x \in Tables \union Columns
    PROVE  /\ Home(x) \in Tables
           /\ x \in Tables => Home(x) = x
           /\ x \in Columns => \A t \in Tables : x \in ColumnsOf(t) <=> t = Home(x)
BY DEF Home, Tables, Columns, ColumnsOf, UserColumns, CallColumns

\* A table that has been copied is what it was there, the others are what they were
LEMMA CopiedLacks ==
    ASSUME Kept(db), Kept(file), NEW t \in Tables, NEW sp, NEW x \in Tables \union Columns,
           NEW f \in {file, NoDb}
    PROVE  /\ Home(x) = t => (x \in Lacks(Copied(t, f, sp)) <=> x \in Lacks(f))
           /\ Home(x) # t => (x \in Lacks(Copied(t, f, sp)) <=> x \in Lacks(db))
<1> DEFINE e == Copied(t, f, sp)
<1>1. /\ e.tables = (db.tables \ {t}) \union ({t} \intersect f.tables)
      /\ e.columns = (db.columns \ ColumnsOf(t)) \union (f.columns \intersect ColumnsOf(t))
  BY DEF Copied, Kept, Databases
<1> HIDE DEF e
<1>2. CASE x \in Tables
  <2>1. x \notin Columns /\ Home(x) = x
    BY <1>2, NamesDiffer, HomeIs
  <2> QED
    BY <1>1, <1>2, <2>1 DEF Lacks, e
<1>3. CASE x \in Columns
  <2>1. x \notin Tables /\ (x \in ColumnsOf(t) <=> t = Home(x))
    BY <1>3, NamesDiffer, HomeIs
  <2> QED
    BY <1>1, <1>3, <2>1 DEF Lacks, e
<1> QED
  BY <1>2, <1>3

\* Whoever is alone with the database
LEMMA AloneIs ==
    ASSUME TypeInv, NEW a \in Admins, ~Watched(a), NEW x \in Admins
    PROVE  Now(x) = Now(a) \/ Now(x) = {}
BY NoProgram DEF Watched, Now

\* The statement a is about to run, among those it has still to run
LEMMA FirstOf ==
    ASSUME TypeInv, NEW a \in Admins, todo[a] # <<>>
    PROVE  /\ Head(todo[a]) \in Statements
           /\ Now(a) = {Head(todo[a])} \union Members(Tail(todo[a]))
           /\ Now(a) \subseteq Statements
           /\ \A s \in Now(a) : /\ Phase(Head(todo[a])) <= Phase(s)
                                /\ Phase(s) <= 6 <=> Phase(Head(todo[a])) <= 6
           /\ Whole(Now(a)) /\ Whole(Members(Tail(todo[a])))
BY HeadAndTail DEF TypeInv, Copies, Now, Program

\* What is past once a statement of the first one's phase is to be run
LEMMA NotLeft ==
    ASSUME TypeInv, NEW a \in Admins, todo[a] # <<>>, NEW n, n = Phase(Head(todo[a])),
           NEW x, NEW k \in 0..13, Phase(x) = k, k < n \/ (n <= 6 /\ k > 6)
    PROVE  x \notin Now(a)
<1>1. n \in 0..13
  BY FirstOf, PhaseType
<1>2. ASSUME x \in Now(a)
      PROVE  k >= n /\ (n <= 6 => k <= 6)
  BY <1>1, <1>2, FirstOf
<1> QED
  BY <1>1, <1>2

LEMMA PastIs ==
    ASSUME TypeInv, NEW a \in Admins, todo[a] # <<>>,
           NEW n, n = Phase(Head(todo[a]))
    PROVE  /\ n \in {1, 2, 3, 4, 5, 6, 10, 11, 12, 13} => <<"drop", "DATABASE">> \notin Now(a)
           /\ n \in {2, 3, 4, 5, 6, 10, 11, 12, 13} => <<"create", "DATABASE">> \notin Now(a)
           /\ n \in {3, 4, 5, 6, 10, 11, 12, 13} => \A t \in Tables : <<"create", t>> \notin Now(a)
           /\ n \in {5, 6, 10, 11, 12, 13} => <<"insert", "VERSION">> \notin Now(a)
           /\ n \in {6, 10, 11, 12, 13} => /\ <<"create old", "CALLS">> \notin Now(a)
                                          /\ \A c \in Columns : <<"add", c>> \notin Now(a)
           /\ n \in {10, 11, 12, 13} => <<"update", "VERSION">> \notin Now(a)
           /\ n \in {11, 12, 13} => \A t \in Tables : <<"drop", t>> \notin Now(a)
           /\ n \in {12, 13} => \A t \in Tables \ {"VERSION"} : <<"load", t>> \notin Now(a)
           /\ n \in {0, 1, 2, 3, 4, 5, 6} => \A t \in Tables : <<"load", t>> \notin Now(a) /\ <<"drop", t>> \notin Now(a)
<1>1. n \in 0..13
  BY FirstOf, PhaseType
<1>2. ASSUME NEW x, NEW k \in 0..13, Phase(x) = k, k < n \/ (n <= 6 /\ k > 6)
      PROVE  x \notin Now(a)
  BY <1>2, NotLeft
<1>3. n >= 1 => <<"drop", "DATABASE">> \notin Now(a)
  <2>1. Phase(<<"drop", "DATABASE">>) = 0
    BY PhaseIs
  <2> QED
    BY <1>1, <1>2, <2>1
<1>4. n >= 2 => <<"create", "DATABASE">> \notin Now(a)
  <2>1. Phase(<<"create", "DATABASE">>) = 1
    BY PhaseIs
  <2> QED
    BY <1>1, <1>2, <2>1
<1>5. n >= 5 => <<"insert", "VERSION">> \notin Now(a)
  <2>1. Phase(<<"insert", "VERSION">>) = 4
    BY PhaseIs
  <2> QED
    BY <1>1, <1>2, <2>1
<1>6. n >= 6 => <<"create old", "CALLS">> \notin Now(a)
  <2>1. Phase(<<"create old", "CALLS">>) = 5
    BY PhaseIs
  <2>2. n >= 6 => 5 < n /\ 5 \in 0..13
    BY <1>1
  <2> QED
    BY <1>2, <2>1, <2>2, Zenon
<1>7. n >= 10 => <<"update", "VERSION">> \notin Now(a)
  <2>1. Phase(<<"update", "VERSION">>) = 6
    BY PhaseIs
  <2> QED
    BY <1>1, <1>2, <2>1
<1>8. ASSUME NEW t \in Tables
      PROVE  /\ n >= 3 => <<"create", t>> \notin Now(a)
             /\ n >= 11 \/ n <= 6 => <<"drop", t>> \notin Now(a)
             /\ (n >= 12 /\ t # "VERSION") \/ n <= 6 => <<"load", t>> \notin Now(a)
  <2>1. /\ Phase(<<"create", t>>) = 2 /\ Phase(<<"drop", t>>) = 10
        /\ Phase(<<"load", t>>) = IF t = "VERSION" THEN 12 ELSE 11
    BY PhaseIs
  <2>2. n >= 3 => <<"create", t>> \notin Now(a)
    BY <1>1, <1>2, <2>1
  <2>3. n >= 11 \/ n <= 6 => <<"drop", t>> \notin Now(a)
    BY <1>1, <1>2, <2>1
  <2>4. (n >= 12 /\ t # "VERSION") \/ n <= 6 => <<"load", t>> \notin Now(a)
    BY <1>1, <1>2, <2>1
  <2> QED
    BY <2>2, <2>3, <2>4
<1>9. ASSUME NEW c \in Columns, n >= 6
      PROVE  <<"add", c>> \notin Now(a)
  <2>1. Phase(<<"add", c>>) = 5
    BY PhaseIs
  <2> QED
    BY <1>1, <1>2, <1>9, <2>1
<1>10. /\ n \in {1, 2, 3, 4, 5, 6, 10, 11, 12, 13} => n >= 1
       /\ n \in {2, 3, 4, 5, 6, 10, 11, 12, 13} => n >= 2
       /\ n \in {3, 4, 5, 6, 10, 11, 12, 13} => n >= 3
       /\ n \in {5, 6, 10, 11, 12, 13} => n >= 5
       /\ n \in {6, 10, 11, 12, 13} => n >= 6
       /\ n \in {10, 11, 12, 13} => n >= 10
       /\ n \in {11, 12, 13} => n >= 11
       /\ n \in {12, 13} => n >= 12
       /\ n \in {0, 1, 2, 3, 4, 5, 6} => n <= 6
  OBVIOUS
<1>11. \A t \in Tables \ {"VERSION"} : t \in Tables /\ t # "VERSION"
  OBVIOUS
<1> QED
  BY <1>3, <1>4, <1>5, <1>6, <1>7, <1>8, <1>9, <1>10, <1>11, Zenon

LEMMA EffectSafeDrops ==
    ASSUME TypeInv, VersionInv, NEW a \in Admins, todo[a] # <<>>, NEW e,
           Head(todo[a]) = <<"drop", "DATABASE">>, e = Effect(a, <<"drop", "DATABASE">>)
    PROVE  Sound(e) /\ \A x, y \in Admins : Safe(e, file, Now(x), Now(y))
<1>1. CASE Watched(a)
  <2>1. e.spoilt = "trodden"
    BY <1>1, DropDatabaseIs DEF NoDb
  <2> QED
    BY <2>1, TroddenSafe
<1>2. CASE ~Watched(a)
  <2> DEFINE M == Now(a)
  <2>1. e.versions = {} /\ e.tables = {} /\ ~e.exists /\ e.spoilt = "no"
    BY <1>2, DropDatabaseIs DEF NoDb
  <2>2. <<"drop", "DATABASE">> \in M /\ <<"create", "DATABASE">> \in M /\ <<"create", "CALLS">> \in M
    BY FirstOf DEF Whole, Tables
  <2>3. <<"load", "VERSION">> \notin M
    <3>1. Phase(Head(todo[a])) = 0 /\ "VERSION" \in Tables
      BY PhaseIs DEF Tables
    <3> QED
      BY <3>1, PastIs
  <2> HIDE DEF M
  <2>4. ProgramOK(e, file, M) /\ OldOK(e, M, M)
    BY <2>1, <2>2, <2>3 DEF ProgramOK, MakingOK, Making, UpdateOK, RestoreOK, OldExists, OldOK
  <2>5. \A x \in Admins : Now(x) = M \/ Now(x) = {}
    BY <1>2, AloneIs DEF M
  <2>6. Sound(e)
    BY <2>1 DEF Sound
  <2> QED
    BY <2>4, <2>5, <2>6, NothingSafe DEF Safe
<1> QED
  BY <1>1, <1>2

\* Tables that are dropped or loaded one by one
LEMMA EffectSafeTables ==
    ASSUME TypeInv, VersionInv, NEW a \in Admins, todo[a] # <<>>, NEW t \in Tables, NEW e,
           NEW verb \in {"drop", "load"},
           Head(todo[a]) = <<verb, t>>, Works(<<verb, t>>), e = Effect(a, <<verb, t>>)
    PROVE  Sound(e) /\ \A x, y \in Admins : Safe(e, file, Now(x), Now(y))
<1>1. CASE Watched(a) \/ db.spoilt = "trodden"
  <2>1. e.spoilt = "trodden"
    <3>1. \A f : Copied(t, f, "trodden").spoilt = "trodden"
      BY DEF Copied, TypeInv, Kept, Databases
    <3> QED
      BY <1>1, <3>1, DropIs, LoadIs
  <2> QED
    BY <2>1, TroddenSafe
<1>2. CASE ~(Watched(a) \/ db.spoilt = "trodden")
  <2> DEFINE M == Now(a)
             f == IF verb = "drop" THEN NoDb ELSE file
  <2>0. Kept(db) /\ Kept(file) /\ f \in {file, NoDb}
    BY DEF TypeInv
  <2>1. PICK sp : /\ e = Copied(t, f, sp)
                  /\ verb = "drop" \/ t # "VERSION" => sp = "half"
                  /\ verb = "load" /\ t = "VERSION" => sp = file.spoilt
    <3>1. CASE verb = "drop"
      BY <1>2, <3>1, DropIs
    <3>2. CASE verb = "load"
      BY <1>2, <3>2, LoadIs
    <3> QED
      BY <3>1, <3>2
  <2>2. e.spoilt = sp /\ e.versions = IF t = "VERSION" THEN f.versions ELSE db.versions
    BY <2>0, <2>1 DEF Copied, Kept, Databases
  <2>3. \A x \in Tables \union Columns :
           /\ Home(x) = t => (x \in Lacks(e) <=> x \in Lacks(f))
           /\ Home(x) # t => (x \in Lacks(e) <=> x \in Lacks(db))
    BY <2>0, <2>1, CopiedLacks
  <2>4. <<verb, t>> \in M /\ \A s \in M : Phase(s) >= Phase(<<verb, t>>)
    BY FirstOf
  <2>5. /\ <<"insert", "VERSION">> \notin M /\ <<"create old", "CALLS">> \notin M
        /\ <<"update", "VERSION">> \notin M
        /\ verb = "load" => \A r \in Tables : <<"drop", r>> \notin M
        /\ verb = "load" /\ t = "VERSION" => \A r \in Tables \ {"VERSION"} : <<"load", r>> \notin M
    <3>1. Head(todo[a]) = <<verb, t>>
      OBVIOUS
    <3>2. CASE verb = "drop"
      <4>1. Phase(Head(todo[a])) = 10
        BY <3>1, <3>2, PhaseIs
      <4> QED
        BY <3>2, <4>1, PastIs
    <3>3. CASE verb = "load" /\ t # "VERSION"
      <4>1. Phase(Head(todo[a])) = 11
        BY <3>1, <3>3, PhaseIs
      <4> QED
        BY <3>3, <4>1, PastIs
    <3>4. CASE verb = "load" /\ t = "VERSION"
      <4>1. Phase(Head(todo[a])) = 12
        BY <3>1, <3>4, PhaseIs
      <4> QED
        BY <3>4, <4>1, PastIs
    <3> QED
      BY <3>2, <3>3, <3>4
  <2>6. RestoreOK(db, file, M)
    BY DEF VersionInv, Safe, ProgramOK, M
  <2>7. RestoreOK(e, file, M)
    <3> SUFFICES ASSUME <<"load", "VERSION">> \in M, file.spoilt = "no", file.versions # {},
                        NEW x \in Tables \union Columns, ~Due(file, x), <<"load", Home(x)>> \notin M
                 PROVE  x \notin Lacks(e) /\ \A r \in Tables : <<"drop", r>> \notin M
      BY DEF RestoreOK
    <3>1. x \notin Lacks(db) /\ \A r \in Tables : <<"drop", r>> \notin M
      BY <1>2, <2>6 DEF RestoreOK
    <3>2. verb = "load" /\ Home(x) # t
      BY <2>4, <3>1
    <3> QED
      BY <2>3, <3>1, <3>2
  <2>8. Sound(e)
    <3> SUFFICES ASSUME e.spoilt = "no", e.versions # {}, NEW x \in Lacks(e)
                 PROVE  Due(e, x)
      BY DEF Sound
    <3>1. verb = "load" /\ t = "VERSION" /\ file.spoilt = "no" /\ e.versions = file.versions
      BY <2>1, <2>2
    <3>2. x \in Tables \union Columns
      <4>1. x \in Lacks(e) => x \in Tables \union Columns
        BY DEF Lacks
      <4> QED
        BY <4>1
    <3>3. \A y : Due(e, y) = Due(file, y)
      BY <3>1 DEF Due
    <3>4. CASE Home(x) = t
      BY <2>3, <3>1, <3>2, <3>3, <3>4 DEF VersionInv, Sound
    <3>5. CASE Home(x) # t
      <4>1. x \in Lacks(db) /\ <<"load", Home(x)>> \notin M
        BY <2>3, <2>5, <3>1, <3>2, <3>5, HomeIs
      <4>2. Due(file, x)
        BY <1>2, <2>4, <2>6, <3>1, <3>2, <4>1 DEF RestoreOK
      <4> QED
        BY <3>3, <4>2
    <3> QED
      BY <3>4, <3>5
  <2> HIDE DEF M, f
  <2>9. ProgramOK(e, file, M) /\ OldOK(e, M, M)
    BY <2>5, <2>7 DEF ProgramOK, MakingOK, Making, UpdateOK, OldExists, OldOK
  <2>10. \A x \in Admins : Now(x) = M \/ Now(x) = {}
    BY <1>2, AloneIs DEF M
  <2> QED
    BY <2>8, <2>9, <2>10, NothingSafe DEF Safe
<1> QED
  BY <1>1, <1>2

\* Nothing of what is to be run is wrong for database e
AllSafe(e) == Sound(e) /\ \A x, y \in Admins : Safe(e, file, Now(x), Now(y))

LEMMA SafeNow == VersionInv => AllSafe(db)
BY DEF VersionInv, AllSafe

LEMMA SameAllSafe ==
    ASSUME VersionInv, NEW e, SameSchema(db, e)
    PROVE  AllSafe(e)
BY SameIsSafe DEF VersionInv, AllSafe

LEMMA TroddenAllSafe ==
    ASSUME NEW e, e.spoilt = "trodden"
    PROVE  AllSafe(e)
BY TroddenSafe DEF AllSafe

LEMMA GrownAllSafe ==
    ASSUME VersionInv, NEW e, Grown(db, e), \A x \in Admins : MakingOK(e, Now(x))
    PROVE  AllSafe(e)
<1>1. Sound(db) /\ \A x, y \in Admins : Safe(db, file, Now(x), Now(y))
  BY DEF VersionInv
<1> QED
  BY <1>1, GrownIsSafe DEF AllSafe

\* What is created or added
LEMMA EffectSafeMore ==
    ASSUME TypeInv, VersionInv, NEW a \in Admins, todo[a] # <<>>, NEW e, NEW s,
           s = Head(todo[a]), Works(s), e = Effect(a, s),
           \/ \E t \in Tables : s = <<"create", t>>
           \/ s = <<"create old", "CALLS">>
           \/ \E c \in Columns : s = <<"add", c>>
    PROVE  AllSafe(e)
<1>0. Kept(db) /\ \A x \in Admins : MakingOK(db, Now(x))
  BY DEF TypeInv, VersionInv, Safe, ProgramOK
<1>1. ASSUME NEW t \in Tables, NEW C, e = NewTable(t, C)
      PROVE  /\ Grown(db, e)
             /\ t \in db.tables => e = db
             /\ t \notin db.tables => e.tables = db.tables \union {t} /\ e.columns = db.columns \union C
  <2>1. CASE t \in db.tables
    BY <1>1, <2>1 DEF NewTable, Grown
  <2>2. CASE t \notin db.tables
    <3>1. e = [db EXCEPT !.tables = db.tables \union {t}, !.columns = db.columns \union C]
      BY <1>1, <2>2 DEF NewTable
    <3> QED
      BY <1>0, <2>2, <3>1 DEF Kept, Databases, Grown
  <2> QED
    BY <2>1, <2>2
<1>2. ASSUME NEW t \in Tables, s = <<"create", t>>
      PROVE  AllSafe(e)
  <2>1. e = NewTable(t, ColumnsOf(t))
    BY <1>2, CreateIs
  <2>2. \A r \in e.tables \ db.tables : ColumnsOf(r) \subseteq e.columns
    <3>1. CASE t \in db.tables
      BY <1>1, <2>1, <3>1
    <3>2. CASE t \notin db.tables
      <4>1. e.tables = db.tables \union {t} /\ e.columns = db.columns \union ColumnsOf(t)
        BY <1>1, <2>1, <3>2
      <4> QED
        BY <4>1
    <3> QED
      BY <3>1, <3>2
  <2>3. Grown(db, e)
    BY <1>1, <2>1
  <2> QED
    BY <1>0, <2>2, <2>3, GrownIsMaking, GrownAllSafe
<1>3. ASSUME s = <<"create old", "CALLS">>
      PROVE  AllSafe(e)
  <2>1. e = NewTable("CALLS", {}) /\ "CALLS" \in Tables
    BY <1>3, CreateOldIs DEF Tables
  <2>2. CASE "CALLS" \in db.tables
    BY <1>1, <2>1, <2>2, SafeNow
  <2>3. CASE "CALLS" \notin db.tables
    <3>1. s \in Now(a) /\ Phase(Head(todo[a])) = 5
      BY <1>3, FirstOf, PhaseIs
    <3>2. <<"create", "CALLS">> \notin Now(a)
      BY <2>1, <3>1, PastIs
    <3>3. ASSUME NEW x \in Admins, Making(Now(x))
          PROVE  db.spoilt = "trodden"
      <4>1. OldOK(db, Now(a), Now(x))
        BY DEF VersionInv, Safe
      <4> QED
        BY <1>3, <2>3, <3>1, <3>2, <3>3, <4>1 DEF OldOK
    <3>4. Grown(db, e)
      BY <1>1, <2>1
    <3>5. e.spoilt = db.spoilt
      BY <3>4 DEF Grown
    <3>6. \A x \in Admins : MakingOK(e, Now(x))
      BY <3>3, <3>5 DEF MakingOK
    <3> QED
      BY <3>4, <3>6, GrownAllSafe
  <2> QED
    BY <2>2, <2>3
<1>4. ASSUME NEW c \in Columns, s = <<"add", c>>
      PROVE  AllSafe(e)
  <2>1. e = [db EXCEPT !.columns = db.columns \union {c}]
    BY <1>4, AddIs
  <2>2. Grown(db, e) /\ e.tables = db.tables
    BY <1>0, <2>1 DEF Kept, Databases, Grown
  <2> QED
    BY <1>0, <2>2, GrownIsMaking, GrownAllSafe
<1> QED
  BY <1>2, <1>3, <1>4

LEMMA EffectSafeCreate ==
    ASSUME TypeInv, VersionInv, NEW a \in Admins, NEW e,
           e = Effect(a, <<"create", "DATABASE">>)
    PROVE  AllSafe(e)
<1>1. e = [db EXCEPT !.exists = TRUE] /\ db \in Databases
  BY CreateDatabaseIs DEF TypeInv, Kept
<1>2. /\ e.exists = TRUE /\ e.tables = db.tables /\ e.columns = db.columns
      /\ e.versions = db.versions /\ e.spoilt = db.spoilt
  BY <1>1 DEF Databases
<1>3. Lacks(e) = Lacks(db) /\ \A x : Due(e, x) = Due(db, x)
  BY <1>2 DEF Lacks, Due
<1>4. Sound(e)
  BY <1>2, <1>3 DEF VersionInv, Sound
<1>5. \A M : RestoreOK(db, file, M) => RestoreOK(e, file, M)
  BY <1>2, <1>3 DEF RestoreOK
<1>6. \A M, N : Safe(db, file, M, N) => Safe(e, file, M, N)
  BY <1>2, <1>3, <1>5 DEF Safe, ProgramOK, MakingOK, UpdateOK, OldExists, OldOK
<1> QED
  BY <1>4, <1>6 DEF VersionInv, AllSafe

LEMMA EffectSafeRows ==
    ASSUME TypeInv, VersionInv, NEW a \in Admins, todo[a] # <<>>, NEW e, NEW s,
           s = Head(todo[a]), e = Effect(a, s),
           s \in {<<"insert", "USERS">>, <<"insert", "VERSION">>, <<"update", "VERSION">>,
                  <<"select", "VERSION">>}
    PROVE  AllSafe(e)
<1>0. db \in Databases
  BY DEF TypeInv, Kept
<1>1. CASE s = <<"insert", "USERS">>
  <2>1. SameSchema(db, e)
    BY <1>0, <1>1, InsertUsersIs DEF Databases, SameSchema
  <2> QED
    BY <2>1, SameAllSafe
<1>2. CASE s = <<"select", "VERSION">>
  BY <1>2, SelectIs, SafeNow
<1>3. CASE db.spoilt = "trodden"
  <2>1. e.spoilt = "trodden"
    <3>1. CASE s = <<"insert", "USERS">>
      <4>1. SameSchema(db, e)
        BY <1>0, <3>1, InsertUsersIs DEF Databases, SameSchema
      <4> QED
        BY <1>3, <4>1 DEF SameSchema
    <3>2. CASE s = <<"insert", "VERSION">>
      BY <1>0, <1>3, <3>2, InsertVersionIs DEF Databases
    <3>3. CASE s = <<"update", "VERSION">>
      <4>1. \A V : [db EXCEPT !.versions = V].spoilt = db.spoilt
        BY <1>0 DEF Databases
      <4>2. e = [db EXCEPT !.versions = IF db.versions = {} THEN {} ELSE {6}]
        BY <3>3, UpdateVersionIs
      <4> QED
        BY <1>3, <4>1, <4>2
    <3>4. CASE s = <<"select", "VERSION">>
      BY <1>3, <3>4, SelectIs
    <3> QED
      BY <3>1, <3>2, <3>3, <3>4
  <2> QED
    BY <2>1, TroddenAllSafe
<1>4. CASE s = <<"insert", "VERSION">> /\ db.spoilt # "trodden"
  <2>1. e = [db EXCEPT !.versions = db.versions \union {6}]
    BY <1>4, InsertVersionIs
  <2>2. s \in Now(a) /\ Phase(Head(todo[a])) = 4
    BY <1>4, FirstOf, PhaseIs
  <2>3. Making(Now(a)) /\ \A t \in Tables : <<"create", t>> \notin Now(a)
    BY <1>4, <2>2, PastIs DEF Making
  <2>4. MakingOK(db, Now(a))
    BY DEF VersionInv, Safe, ProgramOK
  <2>5. /\ db.versions \subseteq {6}
        /\ \A t \in Tables : t \in db.tables /\ ColumnsOf(t) \subseteq db.columns
    BY <1>4, <2>3, <2>4 DEF MakingOK
  <2>6. Lacks(db) = {}
    <3>1. Tables \subseteq db.tables
      BY <2>5
    <3>2. UserColumns \subseteq db.columns /\ CallColumns \subseteq db.columns
      BY <2>5 DEF Tables, ColumnsOf
    <3> QED
      BY <3>1, <3>2 DEF Lacks, Columns
  <2>7. /\ e.exists = db.exists /\ e.tables = db.tables /\ e.columns = db.columns
        /\ e.versions = {6} /\ e.spoilt = db.spoilt
    BY <1>0, <2>1, <2>5 DEF Databases
  <2>8. Lacks(e) = {}
    BY <2>6, <2>7 DEF Lacks
  <2>9. ASSUME NEW M, NEW N, Safe(db, file, M, N)
        PROVE  Safe(e, file, M, N)
    <3>1. RestoreOK(e, file, M)
      BY <2>6, <2>7, <2>8, <2>9 DEF RestoreOK, Safe, ProgramOK
    <3>2. MakingOK(e, M) /\ UpdateOK(e, M)
      BY <2>5, <2>7, <2>8, <2>9 DEF MakingOK, UpdateOK, Safe, ProgramOK
    <3>3. OldExists(e, M) /\ OldOK(e, M, N)
      BY <2>7, <2>9 DEF OldExists, OldOK, Safe, ProgramOK
    <3> QED
      BY <3>1, <3>2, <3>3 DEF Safe, ProgramOK
  <2> QED
    BY <2>8, <2>9 DEF VersionInv, AllSafe, Sound
<1>5. CASE s = <<"update", "VERSION">> /\ db.spoilt # "trodden"
  <2>1. e = [db EXCEPT !.versions = IF db.versions = {} THEN {} ELSE {6}]
    BY <1>5, UpdateVersionIs
  <2>2. /\ e.exists = db.exists /\ e.tables = db.tables /\ e.columns = db.columns
        /\ e.versions = IF db.versions = {} THEN {} ELSE {6}
        /\ e.spoilt = db.spoilt
    BY <1>0, <2>1 DEF Databases
  <2>3. Lacks(e) = Lacks(db)
    BY <2>2 DEF Lacks
  <2>4. s \in Now(a) /\ Phase(Head(todo[a])) = 6
    BY <1>5, FirstOf, PhaseIs
  <2>5. Adds(Now(a)) = {}
    <3>1. /\ <<"create old", "CALLS">> \notin Now(a) /\ \A c \in Columns : <<"add", c>> \notin Now(a)
          /\ \A t \in Tables : <<"create", t>> \notin Now(a)
      BY <2>4, PastIs
    <3>2. Now(a) \subseteq Statements
      BY FirstOf
    <3>3. \A x : <<"create old", x>> \in Statements => x = "CALLS"
      BY DEF Statements
    <3>4. \A x : <<"add", x>> \in Statements => x \in Columns
      BY DEF Statements
    <3>5. \A x \in Columns : x # "DATABASE" /\ <<"create", x>> \notin Statements
      BY DEF Statements, Columns, UserColumns, CallColumns, Tables
    <3> QED
      BY <3>1, <3>2, <3>3, <3>4, <3>5 DEF Adds
  <2>6. Sound(e)
    <3>1. UpdateOK(db, Now(a))
      BY DEF VersionInv, Safe, ProgramOK
    <3>2. db.spoilt = "no" /\ db.versions # {} => Lacks(db) \subseteq {"ONLINE"}
      BY <1>5, <2>4, <2>5, <3>1 DEF UpdateOK
    <3> QED
      BY <2>2, <2>3, <3>2 DEF Sound, Due
  <2>7. ASSUME NEW M, NEW N, Safe(db, file, M, N)
        PROVE  Safe(e, file, M, N)
    <3>1. RestoreOK(e, file, M)
      BY <2>2, <2>3, <2>7 DEF RestoreOK, Safe, ProgramOK
    <3>2. MakingOK(e, M) /\ UpdateOK(e, M)
      BY <2>2, <2>3, <2>7 DEF MakingOK, UpdateOK, Safe, ProgramOK
    <3>3. OldExists(e, M) /\ OldOK(e, M, N)
      BY <2>2, <2>7 DEF OldExists, OldOK, Safe, ProgramOK
    <3> QED
      BY <3>1, <3>2, <3>3 DEF Safe, ProgramOK
  <2> QED
    BY <2>6, <2>7 DEF VersionInv, AllSafe
<1> QED
  BY <1>1, <1>2, <1>3, <1>4, <1>5

LEMMA EffectSafe ==
    ASSUME TypeInv, VersionInv, NEW a \in Admins, todo[a] # <<>>, NEW e, NEW s,
           s = Head(todo[a]), Works(s), e = Effect(a, s)
    PROVE  AllSafe(e)
<1>1. CASE s = <<"drop", "DATABASE">>
  BY <1>1, EffectSafeDrops DEF AllSafe
<1>2. CASE s = <<"create", "DATABASE">>
  BY <1>2, EffectSafeCreate
<1>3. CASE \E verb \in {"drop", "load"}, t \in Tables : s = <<verb, t>>
  BY <1>3, EffectSafeTables DEF AllSafe
<1>4. CASE \/ \E t \in Tables : s = <<"create", t>>
           \/ s = <<"create old", "CALLS">>
           \/ \E c \in Columns : s = <<"add", c>>
  BY <1>4, EffectSafeMore
<1>5. CASE s \in {<<"insert", "USERS">>, <<"insert", "VERSION">>, <<"update", "VERSION">>,
                  <<"select", "VERSION">>}
  BY <1>5, EffectSafeRows
<1>6. s \in Statements
  BY FirstOf
<1>7. /\ (\E t \in Tables : s = <<"drop", t>>) => \E verb \in {"drop", "load"}, t \in Tables : s = <<verb, t>>
      /\ (\E t \in Tables : s = <<"load", t>>) => \E verb \in {"drop", "load"}, t \in Tables : s = <<verb, t>>
  OBVIOUS
<1> QED
  BY <1>1, <1>2, <1>3, <1>4, <1>5, <1>6, <1>7, KindOf, Zenon

\* A statement that is done with has done what it was for
LEMMA DoneIs ==
    ASSUME TypeInv, NEW a \in Admins, todo[a] # <<>>, NEW e, NEW s, s = Head(todo[a]),
           s # <<"select", "VERSION">>,
           (Works(s) /\ e = Effect(a, s)) \/ (Unchecked(s) /\ e = db)
    PROVE  Done(s, e, Now(a))
<1>0. db \in Databases /\ Kept(db) /\ s \in Statements /\ Now(a) \subseteq Statements
  BY FirstOf DEF TypeInv, Kept
<1>1. ASSUME NEW t, NEW C, e = NewTable(t, C)
      PROVE  t \in e.tables /\ e.exists = db.exists
  <2>1. CASE t \in db.tables
    BY <1>1, <2>1 DEF NewTable
  <2>2. CASE t \notin db.tables
    <3>1. e = [db EXCEPT !.tables = db.tables \union {t}, !.columns = db.columns \union C]
      BY <1>1, <2>2 DEF NewTable
    <3> QED
      BY <1>0, <3>1 DEF Databases
  <2> QED
    BY <2>1, <2>2
<1>2. ASSUME NEW t \in Tables \union Columns, s = <<"create", t>>
      PROVE  t \in e.tables /\ e.exists
  <2>1. ~Unchecked(s)
    BY <1>2 DEF Unchecked
  <2>2. t \in Tables
    <3>1. t # "DATABASE"
      BY DEF Tables, Columns, UserColumns, CallColumns
    <3>2. \A r : <<"create", r>> \in Statements => r \in Tables \/ r = "DATABASE"
      BY DEF Statements
    <3> QED
      BY <1>0, <1>2, <3>1, <3>2
  <2> QED
    BY <1>1, <1>2, <2>1, <2>2, CreateIs
<1>3. ASSUME NEW c \in Columns, s = <<"add", c>>
      PROVE  c \in e.columns \/ c = "ONLINE"
  <2>1. Unchecked(s) => c = "ONLINE"
    BY <1>3 DEF Unchecked
  <2>2. ASSUME e = Effect(a, s)
        PROVE  c \in e.columns
    <3>1. e = [db EXCEPT !.columns = db.columns \union {c}]
      BY <1>3, <2>2, AddIs
    <3> QED
      BY <1>0, <3>1 DEF Databases
  <2> QED
    BY <2>1, <2>2
<1>4. s = <<"create old", "CALLS">> => "CALLS" \in e.tables
  <2>1. s = <<"create old", "CALLS">> => ~Unchecked(s)
    <3>1. /\ <<"create old", "CALLS">>[1] = "create old"
          /\ <<"create old", "CALLS">> # <<"add", "ONLINE">>
          /\ <<"create old", "CALLS">> # <<"update", "VERSION">>
      OBVIOUS
    <3> QED
      BY <3>1 DEF Unchecked
  <2> QED
    BY <1>1, <2>1, CreateOldIs
<1>5. Kept(e)
  BY <1>0, EffectKept DEF TypeInv
<1>6. e.tables \subseteq Tables /\ e.columns \subseteq Columns
  BY <1>5 DEF Kept, Databases
<1>7. \A t : <<"create old", t>> \in Statements => t = "CALLS"
  BY DEF Statements
<1>8. \A c : <<"add", c>> \in Statements => c \in Columns
  BY DEF Statements
<1> QED
  BY <1>0, <1>2, <1>3, <1>4, <1>6, <1>7, <1>8 DEF Done

\* What a is to run goes well with e
Fits(e, L) ==
    /\ ProgramOK(e, file, L) /\ OldOK(e, L, L)
    /\ \A x \in Admins : OldOK(e, L, Now(x)) /\ OldOK(e, Now(x), L)

LEMMA RestFits ==
    ASSUME TypeInv, VersionInv, NEW a \in Admins, todo[a] # <<>>, NEW e, NEW s, s = Head(todo[a]),
           s # <<"select", "VERSION">>, AllSafe(e),
           (Works(s) /\ e = Effect(a, s)) \/ (Unchecked(s) /\ e = db)
    PROVE  Fits(e, Members(Tail(todo[a])))
<1> DEFINE M == Now(a)
           L == Members(Tail(todo[a]))
<1>0. M = {s} \union L /\ Whole(L) /\ s \in M
  BY FirstOf
<1>1. /\ ProgramOK(e, file, M)
      /\ \A x \in Admins : OldOK(e, M, Now(x)) /\ OldOK(e, Now(x), M)
      /\ OldOK(e, M, M)
  BY DEF AllSafe, Safe
<1>2. /\ s # <<"create", "DATABASE">> => (MakingOK(e, M) => MakingOK(e, L))
      /\ UpdateOK(e, M) => UpdateOK(e, L)
      /\ (\A t : s # <<"load", t>>) => (RestoreOK(e, file, M) => RestoreOK(e, file, L))
      /\ OldExists(e, M) => OldExists(e, L)
      /\ \A N : OldOK(e, M, N) => OldOK(e, L, N)
      /\ s # <<"create", "DATABASE">> => \A N : OldOK(e, N, M) => OldOK(e, N, L)
  <2>1. Done(s, e, M)
    BY DoneIs
  <2>2. M = {s} \union L
    BY <1>0
  <2> HIDE DEF M, L
  <2> QED
    BY <2>1, <2>2, DoneIsSafe, Zenon
<1> HIDE DEF M, L
<1>3. UpdateOK(e, L) /\ OldExists(e, L) /\ OldOK(e, L, M) /\ \A x \in Admins : OldOK(e, L, Now(x))
  BY <1>1, <1>2 DEF ProgramOK
<1>4. CASE s # <<"create", "DATABASE">> /\ \A t : s # <<"load", t>>
  <2>1. ProgramOK(e, file, L)
    BY <1>1, <1>2, <1>3, <1>4 DEF ProgramOK
  <2>2. OldOK(e, L, L) /\ \A x \in Admins : OldOK(e, Now(x), L)
    BY <1>1, <1>2, <1>3, <1>4
  <2> QED
    BY <1>3, <2>1, <2>2 DEF Fits, L
<1>5. CASE s = <<"create", "DATABASE">>
  <2>1. RestoreOK(e, file, L)
    <3>1. \A t : s # <<"load", t>>
      BY <1>5
    <3> QED
      BY <1>1, <1>2, <3>1 DEF ProgramOK
  <2>2. ~Unchecked(s)
    BY <1>5 DEF Unchecked
  <2>3. /\ ~db.exists /\ e = [db EXCEPT !.exists = TRUE]
    BY <1>5, <2>2, CreateDatabaseIs
  <2>4. /\ db.tables = {} /\ db.versions = {} /\ db \in Databases
    BY <2>3 DEF TypeInv, Kept
  <2>5. e.tables = {} /\ e.versions = {} /\ e.spoilt = db.spoilt
    BY <2>3, <2>4 DEF Databases
  <2>6. \A t \in Tables : <<"create", t>> \in L
    <3>1. Whole(M) /\ \A t \in Tables : s # <<"create", t>>
      <4>1. \A t \in Tables : s # <<"create", t>>
        BY <1>5 DEF Tables
      <4> QED
        BY <4>1, FirstOf DEF M
    <3> QED
      BY <1>0, <1>5, <3>1 DEF Whole
  <2>7. MakingOK(e, L)
    BY <2>5, <2>6 DEF MakingOK
  <2>8. "CALLS" \in Tables
    BY DEF Tables
  <2>9. OldOK(e, L, L)
    BY <2>6, <2>8 DEF OldOK
  <2>10. ASSUME NEW x \in Admins
         PROVE  OldOK(e, Now(x), L)
    <3>1. OldExists(db, Now(x))
      BY DEF VersionInv, Safe, ProgramOK
    <3> QED
      BY <2>3, <2>5, <3>1 DEF OldExists, OldOK
  <2> QED
    BY <1>3, <2>1, <2>7, <2>9, <2>10 DEF Fits, ProgramOK, L
<1>6. CASE \E t : s = <<"load", t>>
  <2>1. PICK t : s = <<"load", t>>
    BY <1>6
  <2>2. t \in Tables /\ s \in Statements
    <3>1. s \in Statements
      BY FirstOf
    <3>2. \A r : <<"load", r>> \in Statements => r \in Tables
      BY DEF Statements
    <3> QED
      BY <2>1, <3>1, <3>2
  <2>3. s # <<"create", "DATABASE">>
    BY <2>1
  <2>4. MakingOK(e, L) /\ OldOK(e, L, L) /\ \A x \in Admins : OldOK(e, Now(x), L)
    BY <1>1, <1>2, <1>3, <2>3 DEF ProgramOK
  <2>5. RestoreOK(e, file, L)
    <3> SUFFICES ASSUME <<"load", "VERSION">> \in L, file.spoilt = "no", file.versions # {},
                        e.spoilt # "trodden",
                        NEW x \in Tables \union Columns, ~Due(file, x), <<"load", Home(x)>> \notin L
                 PROVE  x \notin Lacks(e) /\ \A r \in Tables : <<"drop", r>> \notin L
      BY DEF RestoreOK
    <3>1. RestoreOK(e, file, M)
      BY <1>1 DEF ProgramOK
    <3>2. CASE <<"load", Home(x)>> \notin M
      BY <1>0, <3>1, <3>2 DEF RestoreOK
    <3>3. CASE <<"load", Home(x)>> \in M
      <4>1. s = <<"load", Home(x)>>
        BY <1>0, <3>3
      <4>2. Home(x) = t
        BY <2>1, <4>1
      <4>3. PICK sp : e = Copied(t, file, sp)
        <5>1. ~Unchecked(s)
          BY <2>1 DEF Unchecked
        <5> QED
          BY <2>1, <2>2, <5>1, LoadIs
      <4>4. Kept(db) /\ Kept(file) /\ file \in {file, NoDb}
        BY DEF TypeInv
      <4>5. x \in Lacks(e) <=> x \in Lacks(file)
        BY <2>2, <4>2, <4>3, <4>4, CopiedLacks
      <4>6. x \notin Lacks(file)
        BY DEF VersionInv, Sound
      <4>7. \A r \in Tables : <<"drop", r>> \notin L
        <5>1. Phase(Head(todo[a])) = 11 \/ Phase(Head(todo[a])) = 12
          BY <2>1, <2>2, PhaseIs
        <5>2. \A r \in Tables : <<"drop", r>> \notin M
          <6>1. CASE Phase(Head(todo[a])) = 11
            BY <6>1, PastIs DEF M
          <6>2. CASE Phase(Head(todo[a])) = 12
            BY <6>2, PastIs DEF M
          <6> QED
            BY <5>1, <6>1, <6>2
        <5> QED
          BY <1>0, <5>2
      <4> QED
        BY <4>5, <4>6, <4>7
    <3> QED
      BY <3>2, <3>3
  <2> QED
    BY <1>3, <2>4, <2>5 DEF Fits, ProgramOK, L
<1> QED
  BY <1>4, <1>5, <1>6

\* What copy a has to run is replaced, and the database by e
LEMMA ProgramSafe ==
    ASSUME TypeInv, VersionInv, NEW a \in Admins, NEW e, NEW p, AllSafe(e), Fits(e, Members(p)),
           db' = e, file' = file, todo' = [todo EXCEPT ![a] = p]
    PROVE  VersionInv'
<1>1. \A x \in Admins : Now(x)' = IF x = a THEN Members(p) ELSE Now(x)
  BY DEF Now, TypeInv, Copies
<1>2. Sound(e) /\ Sound(file)
  BY DEF VersionInv, AllSafe
<1>3. \A x, y \in Admins : Safe(e, file, Now(x)', Now(y)')
  BY <1>1 DEF AllSafe, Fits, Safe
<1>4. (\A x, y \in Admins : Safe(db, file, Now(x), Now(y)))'
  BY <1>3
<1>5. (Sound(db) /\ Sound(file))'
  BY <1>2 DEF Sound, Lacks, Due
<1> QED
  BY <1>4, <1>5 DEF VersionInv

\* Nothing more to run
LEMMA NothingFits ==
    ASSUME NEW e, AllSafe(e)
    PROVE  Fits(e, {})
BY NothingSafe DEF Fits, Safe

\* UpdateDb, for the version there is
LEMMA UpdateFits ==
    ASSUME TypeInv, VersionInv, NEW v \in Nat,
           \/ v = CheckVersion /\ v # 0
           \/ v = 6 /\ (db.versions = {})
    PROVE  Fits(db, Members(UpdateDb(v)))
<1> DEFINE L == Members(UpdateDb(v))
<1>1. /\ <<"create old", "CALLS">> \in L => v < 3
      /\ \A x \in Tables \union Columns :
            (1 <= v \/ x \in Columns) /\ v < Since(x) => x \in Adds(L)
      /\ \A s \in L : Phase(s) \in 5..6
  BY UpdateDbIs, MembersRun
<1>2. <<"insert", "VERSION">> \notin L /\ <<"load", "VERSION">> \notin L
  <2>1. Phase(<<"insert", "VERSION">>) = 4 /\ Phase(<<"load", "VERSION">>) = 12
    BY PhaseIs DEF Tables
  <2>2. \A n \in 5..6 : n # 4 /\ n # 12
    OBVIOUS
  <2> HIDE DEF L
  <2> QED
    BY <1>1, <2>1, <2>2, Zenon
<1> HIDE DEF L
<1>3. ~Making(L)
  BY <1>2 DEF Making
<1>4. UpdateOK(db, L)
  <2> SUFFICES ASSUME db.spoilt = "no", db.versions # {}, NEW x \in Lacks(db), x # "ONLINE"
               PROVE  x \in Adds(L)
    BY DEF UpdateOK
  <2>1. v = CheckVersion /\ v # 0 /\ v \in db.versions /\ (\A w \in db.versions : v <= w)
        /\ db.versions \subseteq 1..6
    BY CheckVersionIs DEF TypeInv
  <2>2. Due(db, x)
    BY DEF VersionInv, Sound
  <2>3. PICK w \in db.versions : w < Since(x)
    BY <2>2 DEF Due
  <2>4. x \in Tables \union Columns
    <3>1. Lacks(db) \subseteq Tables \union Columns
      BY DEF Lacks
    <3> QED
      BY <3>1
  <2>5. Since(x) \in 1..6
    BY <2>4, SinceIs
  <2>6. 1 <= v /\ v < Since(x)
    BY <2>1, <2>3, <2>5
  <2> QED
    BY <1>1, <2>4, <2>6
<1>5. <<"create old", "CALLS">> \in L => db.exists
  <2>1. <<"create old", "CALLS">> \in L => db.versions # {}
    <3>1. v < 3 => v # 6
      OBVIOUS
    <3>2. v = CheckVersion /\ v # 0 => db.versions # {}
      BY CheckVersionIs DEF TypeInv
    <3> QED
      BY <1>1, <3>1, <3>2, Zenon
  <2> QED
    BY <2>1 DEF TypeInv, Kept
<1>6. ProgramOK(db, file, L) /\ OldOK(db, L, L)
  BY <1>2, <1>3, <1>4, <1>5 DEF ProgramOK, MakingOK, RestoreOK, OldExists, OldOK
<1>7. ASSUME NEW x \in Admins
      PROVE  OldOK(db, L, Now(x)) /\ OldOK(db, Now(x), L)
  <2>1. OldOK(db, Now(x), L)
    BY <1>3 DEF OldOK
  <2>2. MakingOK(db, Now(x))
    BY DEF VersionInv, Safe, ProgramOK
  <2>3. ASSUME Making(Now(x)), db.spoilt # "trodden", <<"create old", "CALLS">> \in L
        PROVE  FALSE
    <3>1. db.versions \subseteq {6} /\ v < 3
      BY <1>1, <2>2, <2>3 DEF MakingOK
    <3>2. v = CheckVersion /\ v # 0
      BY <3>1
    <3>3. v \in db.versions
      BY <3>2, CheckVersionIs DEF TypeInv
    <3> QED
      BY <3>1, <3>3
  <2>4. OldOK(db, L, Now(x))
    BY <2>3 DEF OldOK
  <2> QED
    BY <2>1, <2>4
<1> QED
  BY <1>6, <1>7 DEF Fits, L

\* The other programs
LEMMA NewFits ==
    ASSUME TypeInv, VersionInv
    PROVE  /\ ~db.exists => Fits(db, Members(CreateNew))
           /\ Fits(db, Members(Replace))
           /\ Fits(db, Members(RestoreDb))
<1>1. /\ Phase(<<"create old", "CALLS">>) = 5 /\ Phase(<<"load", "VERSION">>) = 12
      /\ Phase(<<"insert", "VERSION">>) = 4 /\ Phase(<<"update", "VERSION">>) = 6
      /\ "CALLS" \in Tables
  BY PhaseIs DEF Tables
<1>2. ASSUME NEW L, <<"create", "DATABASE">> \in L, <<"load", "VERSION">> \notin L,
             db.versions = {} \/ Lacks(db) \subseteq Adds(L),
             <<"create old", "CALLS">> \in L => <<"create", "CALLS">> \in L
      PROVE  Fits(db, L)
  <2>1. ~Making(L)
    BY <1>2 DEF Making
  <2> QED
    BY <1>2, <2>1 DEF Fits, ProgramOK, MakingOK, UpdateOK, RestoreOK, OldExists, OldOK
<1>3. ASSUME ~db.exists
      PROVE  Fits(db, Members(CreateNew))
  <2>1. db.versions = {}
    BY <1>3 DEF TypeInv, Kept
  <2>2. <<"create", "DATABASE">> \in Members(CreateNew) /\ <<"create", "CALLS">> \in Members(CreateNew)
    BY <1>1, CreateNewIs
  <2>3. \A s \in Members(CreateNew) : Phase(s) \in 1..4
    BY CreateNewIs, MembersRun
  <2>4. <<"load", "VERSION">> \notin Members(CreateNew)
    <3>1. 12 \notin 1..4
      OBVIOUS
    <3> QED
      BY <1>1, <2>3, <3>1, Zenon
  <2> QED
    BY <1>2, <2>1, <2>2, <2>4
<1>4. Fits(db, Members(Replace))
  <2>1. Lacks(db) \subseteq Adds(Members(Replace))
    BY ReplaceIs DEF Lacks
  <2>2. <<"create", "DATABASE">> \in Members(Replace) /\ <<"create", "CALLS">> \in Members(Replace)
    BY <1>1, ReplaceIs
  <2>3. \A s \in Members(Replace) : Phase(s) \in 0..6
    BY ReplaceIs, MembersRun
  <2>4. <<"load", "VERSION">> \notin Members(Replace)
    <3>1. 12 \notin 0..6
      OBVIOUS
    <3> QED
      BY <1>1, <2>3, <3>1, Zenon
  <2> QED
    BY <1>2, <2>1, <2>2, <2>4
<1>5. Fits(db, Members(RestoreDb))
  <2> DEFINE L == Members(RestoreDb)
  <2>1. \A s \in L : Phase(s) \in 10..13
    BY RestoreDbIs, MembersRun
  <2>2. /\ <<"create old", "CALLS">> \notin L /\ <<"insert", "VERSION">> \notin L
        /\ <<"update", "VERSION">> \notin L
    <3>1. 5 \notin 10..13 /\ 4 \notin 10..13 /\ 6 \notin 10..13
      OBVIOUS
    <3> HIDE DEF L
    <3> QED
      BY <1>1, <2>1, <3>1, Zenon
  <2>3. \A t \in Tables : t \in file.tables => <<"load", t>> \in L
    BY RestoreDbIs
  <2> HIDE DEF L
  <2>4. RestoreOK(db, file, L)
    <3> SUFFICES ASSUME file.spoilt = "no", file.versions # {}, NEW x \in Tables \union Columns,
                        ~Due(file, x)
                 PROVE  <<"load", Home(x)>> \in L
      BY DEF RestoreOK
    <3>1. x \notin Lacks(file)
      BY DEF VersionInv, Sound
    <3>2. Home(x) \in Tables /\ Home(x) \in file.tables
      <4>1. CASE x \in Tables
        BY <3>1, <4>1, HomeIs DEF Lacks
      <4>2. CASE x \in Columns
        <5>1. x \in file.columns
          BY <3>1, <4>2 DEF Lacks
        <5>2. PICK t \in file.tables : x \in ColumnsOf(t)
          BY <5>1 DEF TypeInv, Kept
        <5>3. t \in Tables
          BY <5>2 DEF TypeInv, Kept, Databases
        <5>4. t = Home(x)
          BY <4>2, <5>2, <5>3, HomeIs
        <5> QED
          BY <5>2, <5>3, <5>4
      <4> QED
        BY <4>1, <4>2
    <3> QED
      BY <2>3, <3>2
  <2>5. ~Making(L)
    BY <2>2 DEF Making
  <2> QED
    BY <2>2, <2>4, <2>5 DEF Fits, ProgramOK, MakingOK, UpdateOK, OldExists, OldOK, L
<1> QED
  BY <1>3, <1>4, <1>5

LEMMA RunQuerySafe ==
    ASSUME TypeInv, VersionInv, NEW a \in Admins, RunQuery(a)
    PROVE  VersionInv'
<1> DEFINE s == Head(todo[a])
<1>1. /\ todo[a] # <<>> /\ s \in Statements /\ file' = file
      /\ \/ /\ Works(s) /\ db' = Effect(a, s)
            /\ Continue(a, Rest(a, CheckVersion))
         \/ /\ Unchecked(s) /\ Continue(a, Rest(a, 0))
            /\ \/ db' = db
               \/ Works(s) /\ s # <<"select", "VERSION">> /\ db' = Effect(a, s)
               \/ s = <<"select", "VERSION">> /\ db' = [db EXCEPT !.spoilt = "trodden"]
         \/ /\ GiveUp(a)
            /\ db' = db \/ (Works(s) /\ db' = Effect(a, s))
  BY RunQueryIs
<1> HIDE DEF s
<1>2. /\ AllSafe(db) /\ db \in Databases
      /\ Works(s) => AllSafe(Effect(a, s))
  BY <1>1, SafeNow, EffectSafe DEF s, TypeInv, Kept
<1>3. CASE GiveUp(a) /\ (db' = db \/ (Works(s) /\ db' = Effect(a, s)))
  <2>1. todo' = [todo EXCEPT ![a] = <<>>] /\ Members(<<>>) = {}
    BY <1>3, NoProgram DEF GiveUp
  <2>2. ASSUME NEW e, AllSafe(e), db' = e
        PROVE  VersionInv'
    BY <1>1, <2>1, <2>2, NothingFits, ProgramSafe
  <2> QED
    BY <1>2, <1>3, <2>2
<1>4. CASE s # <<"select", "VERSION">>
  <2>1. ASSUME NEW e, AllSafe(e), db' = e,
               (Works(s) /\ e = Effect(a, s)) \/ (Unchecked(s) /\ e = db),
               todo' = [todo EXCEPT ![a] = Tail(todo[a])]
        PROVE  VersionInv'
    BY <1>1, <1>4, <2>1, RestFits, ProgramSafe DEF s
  <2>2. \A ver : Continue(a, Rest(a, ver)) => todo' = [todo EXCEPT ![a] = Tail(todo[a])]
    BY <1>4 DEF Continue, Rest, s
  <2> QED
    BY <1>1, <1>2, <1>3, <1>4, <2>1, <2>2
<1>5. CASE s = <<"select", "VERSION">>
  <2>1. ASSUME NEW e, NEW p, db' = e, AllSafe(e), Fits(e, Members(p)),
               todo' = [todo EXCEPT ![a] = p]
        PROVE  VersionInv'
    BY <1>1, <2>1, ProgramSafe
  <2>2. \A ver : Continue(a, Rest(a, ver)) =>
           todo' = [todo EXCEPT ![a] = UpdateDb(IF ver = 0 THEN 6 ELSE ver)]
    BY <1>5 DEF Continue, Rest, s, NET_VERSION_DATABASE
  <2>3. CASE Works(s) /\ db' = Effect(a, s) /\ Continue(a, Rest(a, CheckVersion))
    <3>1. db' = db
      BY <1>5, <2>3, SelectIs
    <3>2. CheckVersion \in Nat /\ (CheckVersion = 0 <=> db.versions = {})
      BY CheckVersionIs DEF TypeInv
    <3>3. PICK v \in Nat : /\ (v = CheckVersion /\ v # 0) \/ (v = 6 /\ db.versions = {})
                           /\ todo' = [todo EXCEPT ![a] = UpdateDb(v)]
      BY <2>2, <2>3, <3>2
    <3> QED
      BY <1>2, <2>1, <3>1, <3>3, UpdateFits
  <2>4. CASE Continue(a, Rest(a, 0)) /\ db' = [db EXCEPT !.spoilt = "trodden"]
    <3>1. PICK e : e = [db EXCEPT !.spoilt = "trodden"]
      OBVIOUS
    <3>2. e.spoilt = "trodden"
      BY <1>2, <3>1 DEF Databases
    <3>3. AllSafe(e) /\ \A L : Fits(e, L)
      BY <3>2, TroddenSafe, TroddenAllSafe DEF Fits, Safe
    <3> QED
      BY <2>1, <2>2, <2>4, <3>1, <3>3
  <2>5. CASE Continue(a, Rest(a, 0)) /\ db' = db /\ ~Works(s)
    <3>1. ~db.exists
      BY <1>5, <2>5 DEF Works
    <3>2. db.versions = {}
      BY <3>1 DEF TypeInv, Kept
    <3>3. todo' = [todo EXCEPT ![a] = UpdateDb(6)] /\ 6 \in Nat
      BY <2>2, <2>5
    <3> QED
      BY <1>2, <2>1, <2>5, <3>2, <3>3, UpdateFits
  <2>6. \/ Works(s) /\ db' = Effect(a, s) /\ Continue(a, Rest(a, CheckVersion))
        \/ Continue(a, Rest(a, 0)) /\ db' = [db EXCEPT !.spoilt = "trodden"]
        \/ Continue(a, Rest(a, 0)) /\ db' = db /\ ~Works(s)
    <3>1. Unchecked(s) /\ s[1] = "select"
      BY <1>5 DEF Unchecked
    <3>2. Failed(a, s) = {[db EXCEPT !.spoilt = "trodden"]}
      BY <3>1 DEF Failed
    <3> QED
      BY <3>1, <3>2 DEF RunQuery, s
  <2> QED
    BY <2>3, <2>4, <2>5, <2>6
<1> QED
  BY <1>4, <1>5

LEMMA BackupSafe ==
    ASSUME TypeInv, VersionInv, NEW a \in Admins, BackupData(a)
    PROVE  VersionInv'
<1> DEFINE torn == \E r \in Admins : at[r] = "restoring"
<1>1. /\ UNCHANGED <<db, at, todo>>
      /\ file' \in {IF torn THEN [db EXCEPT !.spoilt = "trodden"] ELSE db, NoDb}
  BY DEF BackupData
<1>2. PICK f : file' = f
  OBVIOUS
<1>3. db \in Databases
  BY DEF TypeInv, Kept
<1>4. Sound(f)
  <2>1. [db EXCEPT !.spoilt = "trodden"].spoilt = "trodden" /\ NoDb.versions = {}
    BY <1>3 DEF Databases, NoDb
  <2>2. Sound(db)
    BY DEF VersionInv
  <2> QED
    BY <1>1, <1>2, <2>1, <2>2 DEF Sound
<1>5. torn => f.spoilt # "no" \/ f.versions = {}
  <2>1. [db EXCEPT !.spoilt = "trodden"].spoilt = "trodden" /\ NoDb.versions = {}
    BY <1>3 DEF Databases, NoDb
  <2> QED
    BY <1>1, <1>2, <2>1
<1>6. \A x \in Admins : RestoreOK(db, f, Now(x))
  <2>1. ASSUME NEW x \in Admins, <<"load", "VERSION">> \in Now(x)
        PROVE  torn
    BY <2>1 DEF TypeInv, Copies, Now
  <2> QED
    BY <1>5, <2>1 DEF RestoreOK
<1>7. \A x, y \in Admins : Safe(db, f, Now(x), Now(y))
  BY <1>6 DEF VersionInv, Safe, ProgramOK
<1>8. \A x \in Admins : Now(x)' = Now(x)
  BY <1>1 DEF Now
<1>9. (\A x, y \in Admins : Safe(db, file, Now(x), Now(y)))'
  BY <1>1, <1>2, <1>7, <1>8
<1>10. (Sound(db) /\ Sound(file))'
  BY <1>1, <1>2, <1>4 DEF VersionInv, Sound, Lacks, Due
<1> QED
  BY <1>9, <1>10 DEF VersionInv

LEMMA MainSafe ==
    ASSUME TypeInv, VersionInv, NEW a \in Admins,
           \/ StartNetAdmin(a) \/ RunQuery(a) \/ LogIn(a) \/ Leave(a)
           \/ BackupData(a) \/ RestoreData(a)
    PROVE  VersionInv'
<1>0. AllSafe(db)
  BY SafeNow
<1>1. ASSUME NEW p, Fits(db, Members(p)), UNCHANGED <<db, file>>, todo' = [todo EXCEPT ![a] = p]
      PROVE  VersionInv'
  BY <1>0, <1>1, ProgramSafe
<1>2. Fits(db, Members(<<>>))
  BY <1>0, NothingFits, NoProgram
<1>3. CASE StartNetAdmin(a)
  <2>1. CheckVersion \in 1..5 => CheckVersion \in Nat /\ CheckVersion # 0
    OBVIOUS
  <2>2. CheckVersion \in 1..5 => Fits(db, Members(UpdateDb(CheckVersion)))
    BY <2>1, UpdateFits
  <2>3. /\ UNCHANGED <<db, file>>
        /\ \/ todo' = [todo EXCEPT ![a] = <<>>]
           \/ ~db.exists /\ todo' = [todo EXCEPT ![a] = CreateNew]
           \/ todo' = [todo EXCEPT ![a] = Replace]
           \/ CheckVersion \in 1..5 /\ todo' = [todo EXCEPT ![a] = UpdateDb(CheckVersion)]
    BY <1>3, StartNetAdminIs
  <2> QED
    BY <1>1, <1>2, <2>2, <2>3, NewFits
<1>4. CASE RunQuery(a)
  BY <1>4, RunQuerySafe
<1>5. CASE LogIn(a)
  BY <1>5 DEF LogIn, VersionInv, Safe, ProgramOK, Now, Sound, Lacks, Due, MakingOK, UpdateOK,
              RestoreOK, OldExists, OldOK
<1>6. CASE Leave(a)
  BY <1>1, <1>2, <1>6 DEF Leave
<1>7. CASE BackupData(a)
  BY <1>7, BackupSafe
<1>8. CASE RestoreData(a)
  BY <1>1, <1>8, NewFits DEF RestoreData
<1> QED
  BY <1>3, <1>4, <1>5, <1>6, <1>7, <1>8

\* A step that leaves the schema, the backup and the programs alone
LEMMA OtherSafe ==
    ASSUME VersionInv, SameSchema(db, db'), UNCHANGED <<file, todo>>
    PROVE  VersionInv'
<1>1. PICK e : db' = e
  OBVIOUS
<1>2. AllSafe(e)
  BY <1>1, SameAllSafe
<1>3. \A x \in Admins : Now(x)' = Now(x)
  BY DEF Now
<1>4. (\A x, y \in Admins : Safe(db, file, Now(x), Now(y)))'
  BY <1>1, <1>2, <1>3 DEF AllSafe
<1>5. (Sound(db) /\ Sound(file))'
  BY <1>1, <1>2 DEF VersionInv, AllSafe, Sound, Lacks, Due
<1> QED
  BY <1>4, <1>5 DEF VersionInv

LEMMA VersionStep == TypeInv /\ VersionInv /\ [Next]_adminVars => VersionInv'
<1> SUFFICES ASSUME TypeInv, VersionInv, [Next]_adminVars
             PROVE  VersionInv'
  OBVIOUS
<1>0. db \in Databases
  BY DEF TypeInv, Kept
<1>1. /\ SameSchema(db, db)
      /\ \A U : SameSchema(db, [db EXCEPT !.users = U])
      /\ \A K : SameSchema(db, [db EXCEPT !.calls = K])
  BY <1>0 DEF Databases, SameSchema
<1>2. /\ \A u, row : SameSchema(db, With(u, row))
      /\ \A u : SameSchema(db, Without(u))
  BY <1>1 DEF With, Without
<1>3. CASE \E a \in Admins : Main(a)
  BY <1>3, MainSafe DEF Main
<1>4. CASE \E a \in Admins, u \in Users : Elsewhere(a, u)
  BY <1>2, <1>4, OtherSafe DEF Elsewhere
<1>5. ASSUME NEW d, NEW told, Update(d, told), SameSchema(db, d)
      PROVE  VersionInv'
  <2>1. db' = d /\ UNCHANGED <<file, todo>>
    BY <1>5 DEF Update
  <2> QED
    BY <1>5, <2>1, OtherSafe
<1>6. CASE \E u \in Users, b \in BOOLEAN : Online(u, b)
  <2>1. \A u, b : SameSchema(db, [db EXCEPT !.users[u].online = b])
    BY <1>0 DEF Databases, SameSchema
  <2> QED
    BY <1>5, <1>6, <2>1 DEF Online
<1>7. CASE \E c \in Calls, u, v \in Users : InitiateCall(c, u, v)
  BY <1>1, <1>5, <1>7 DEF InitiateCall
<1>8. CASE \E c \in Calls : EndCall(c)
  <2>1. \A c : SameSchema(db, [db EXCEPT !.calls[c].open = FALSE])
    BY <1>0 DEF Databases, SameSchema
  <2> QED
    BY <1>5, <1>8, <2>1 DEF EndCall
<1>9. CASE \/ \E l \in Lists : OpenList(l)
           \/ ToggledData \/ CloseData \/ UserUpdateData \/ CallUpdateData
           \/ \E u \in Users : EditData(u) \/ DeleteData(u)
           \/ CancelData \/ Reject \/ RejectName \/ UNCHANGED adminVars
  <2>1. UNCHANGED <<db, file, todo>>
    BY <1>9 DEF OpenList, ToggledData, RefreshList, CloseData, UserUpdateData, CallUpdateData,
                UpdateData, EditData, DeleteData, OpenDialog, CancelData, Reject, Finish,
                RejectName, adminVars, dbVars
  <2> QED
    BY <1>1, <2>1, OtherSafe
<1>10. CASE \E u \in Users : AddData(u)
  BY <1>2, <1>10, OtherSafe DEF AddData
<1>11. CASE \E i \in Infos : OkData(i)
  <2>1. UNCHANGED <<file, todo>> /\ (db' = db \/ \E u, row : db' = With(u, row))
    BY <1>11 DEF OkData, Finish
  <2> QED
    BY <1>1, <1>2, <2>1, OtherSafe
<1>12. CASE DeleteYes
  <2>1. UNCHANGED <<file, todo>> /\ \E u : db' \in {db, Without(u)}
    BY <1>12 DEF DeleteYes
  <2> QED
    BY <1>1, <1>2, <2>1, OtherSafe
<1> QED
  BY <1>3, <1>4, <1>6, <1>7, <1>8, <1>9, <1>10, <1>11, <1>12 DEF Next

LEMMA VersionInit == Init => VersionInv
<1> SUFFICES ASSUME Init
             PROVE  VersionInv
  OBVIOUS
<1>1. PICK found \in Found : db = found[1] /\ file = found[2]
  BY DEF Init, DbInit
<1>2. ASSUME NEW d, Released(d)
      PROVE  Sound(d)
  <2>1. \E s \in {NoDb} \union {Schema(v) : v \in 1..6} :
           d = [s EXCEPT !.users = d.users, !.calls = d.calls]
    BY <1>2 DEF Released, NET_VERSION_DATABASE
  <2>2. CASE d = [NoDb EXCEPT !.users = d.users, !.calls = d.calls]
    BY <2>2 DEF NoDb, Sound
  <2>3. CASE \E v \in 1..6 : d = [Schema(v) EXCEPT !.users = d.users, !.calls = d.calls]
    <3>1. PICK v \in 1..6 : d = [Schema(v) EXCEPT !.users = d.users, !.calls = d.calls]
      BY <2>3
    <3>2. /\ d.versions = {v} /\ d.columns = {c \in Columns : Since(c) <= v}
          /\ d.tables = {t \in Tables : Since(t) <= v}
      BY <3>1 DEF Schema, NoDb
    <3>3. ASSUME NEW x \in Lacks(d)
          PROVE  v < Since(x)
      <4>1. x \in Tables \union Columns /\ ~(Since(x) <= v)
        BY <3>2, <3>3 DEF Lacks
      <4> QED
        BY <4>1, SinceIs
    <3> QED
      BY <3>2, <3>3 DEF Sound, Due
  <2> QED
    BY <2>1, <2>2, <2>3
<1>3. Sound(db) /\ Sound(file)
  BY <1>1, <1>2, DatabaseAssumption
<1>4. \A x \in Admins : Now(x) = {}
  BY NoProgram DEF Init, DbInit, Now
<1> QED
  BY <1>3, <1>4, NothingSafe DEF VersionInv

\* For any number of copies, whatever fails, dies or is done at the same time: a database that
\* says it has the current version has all of that version's tables and columns, but for
\* ONLINE, whose statement nobody checks.  Nothing is said of one that is spoilt: while it
\* is being restored, when a restore was left half done, when its version could not be read
\* after it, or when it went while another copy was at work on it.
THEOREM VersionAlwaysTells == Spec => []VersionTells
<1>1. TypeInv /\ VersionInv => VersionTells
  <2> SUFFICES ASSUME TypeInv, VersionInv, CheckVersion = 6, db.spoilt = "no"
               PROVE  /\ db.tables = Tables /\ Columns \ db.columns \subseteq {"ONLINE"}
                      /\ db.versions = {6}
    BY DEF VersionTells, NET_VERSION_DATABASE
  <2>1. /\ 6 \in db.versions /\ db.versions \subseteq 1..6
        /\ \A v \in db.versions : 6 <= v
    BY CheckVersionIs DEF TypeInv
  <2>2. db.versions = {6}
    <3>1. \A v \in db.versions : v = 6
      BY <2>1
    <3> QED
      BY <2>1, <3>1
  <2>3. ASSUME NEW x \in Lacks(db)
        PROVE  x = "ONLINE"
    <3>1. Due(db, x)
      BY <2>2 DEF VersionInv, Sound
    <3>2. x \in Tables \union Columns
      <4>1. Lacks(db) \subseteq Tables \union Columns
        BY DEF Lacks
      <4> QED
        BY <4>1
    <3>3. Since(x) \in 1..6
      BY <3>2, SinceIs
    <3>4. ~(6 < Since(x))
      BY <3>3
    <3> QED
      BY <2>2, <3>1, <3>4 DEF Due
  <2>4. "ONLINE" \notin Tables /\ db.tables \subseteq Tables
    BY DEF Tables, TypeInv, Kept, Databases
  <2> QED
    BY <2>2, <2>3, <2>4 DEF Lacks
<1> QED
  BY InvInit, InvStep, TypesInit, TypesStep, VersionInit, VersionStep, <1>1, PTL DEF Spec
=============================================================================
