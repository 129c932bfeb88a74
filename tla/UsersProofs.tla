---------------------------- MODULE UsersProofs ----------------------------
(***************************************************************************)
(* What holds of Users for any number of instances, users and names, as    *)
(* long as the instances are Careful: the inductive invariant, the         *)
(* properties of the index, that the instances together implement          *)
(* Directory, and what a logon by name may find.                           *)
(***************************************************************************)
EXTENDS UserLookup, TLAPS, FiniteSetTheorems, WellFoundedInduction

---------------------------------------------------------------------------
(* The inductive invariant *)

\* Places 0 .. users - 1 have names.
Filled == \A i \in Slots : i < users => names[i].name \in Names /\ names[i].number \in Numbers

Sorted == \A i, j \in Slots : i < j /\ j < users => names[i].name < names[j].name

\* User k is in the index as s.
Has(s, k) == \E i \in Slots : i < users /\ names[i].name = s /\ names[i].number = k

\* Whether the user that instance n adds, removes or renames is in yet, or still.
TransitOK(n) ==
    \A k \in Numbers, s \in Names :
        node[n].un = k =>
            /\ node[n].pc \in {"enter", "delete", "relist"} => ~Has(s, k)
            /\ node[n].pc = "rewrite" => (Has(s, k) <=> s = node[n].u.name)

\* The index has whoever is a user, but for those.
IndexOK ==
    /\ \A k \in Numbers \ InTransit, s \in Names :
          Has(s, k) <=> IsUser(k) /\ userlst[k].name = s
    /\ \A n \in Nodes : TransitOK(n)

\* The steps at which an instance has a record, and those at which it has just a number.
AtRecord == {"on", "enter", "joined", "edit", "unlist", "relist", "restore", "rewrite",
             "delist", "delete", "forget"}

\* The steps at which the record at hand is the one in USER.LST.
Fresh == {"on", "enter", "joined", "edit", "unlist", "relist", "delist", "forget"}

\* What an instance knows of itself.
LocalOK(n) ==
    LET nd == node[n]
    IN  /\ nd.pc \in {"idle", "named", "reset"} => nd.un = 0
        /\ nd.pc = "idle" => nd.s = NoName
        /\ nd.pc \in {"load", "look"} => nd.s \in Names /\ (nd.why # "uedit" => nd.un = 0)
        /\ nd.pc \in {"load", "look"} /\ nd.why = "uedit" => nd.un \in Numbers /\ nd.u \in Records
        /\ nd.pc \in AtRecord => nd.un \in Numbers /\ nd.u \in Records
        /\ nd.pc = "found" => nd.un \in Numbers
        /\ nd.pc \in {"named", "enter"} => nd.s \in Names /\ nd.why = "newuser"
        /\ nd.pc \in {"unlist", "relist"} => nd.s \in Names /\ nd.why = "uedit"
        /\ nd.pc = "enter" => nd.u.name = nd.s
        /\ nd.pc \in {"enter", "relist", "restore", "rewrite", "delist"} => ~nd.u.inact
        /\ nd.pc \in {"delete", "forget"} => nd.u.inact

\* The copies of records.
CopyOK(n) ==
    LET nd == node[n]
    IN  /\ nd.un # 0 => nd.un <= nu
        /\ nd.pc \in Fresh \/ (nd.pc \in {"load", "look"} /\ nd.why = "uedit") =>
              nd.u = userlst[nd.un]
        /\ nd.pc = "restore" => userlst[nd.un].inact /\ nd.u.name = userlst[nd.un].name

\* The copy of the index.
Same(n) == \A i \in Slots : i < users => node[n].list[i] = names[i]

ListOK(n) ==
    /\ n \notin changed /\ ~At(n, "load") => Same(n)
    /\ n \notin changed /\ At(n, "load") => node[n].cnt = users
    /\ At(n, "reset") => node[n].cnt = users /\ Same(n)

\* What bsearch finds for a new name is a user of that name; if it finds nothing,
\* there is none.
LookOK(n) ==
    At(n, "look") /\ node[n].why # "logon" =>
        /\ \A k \in Candidates(node[n]) : k \in Numbers /\ IsUser(k)
        /\ Candidates(node[n]) = {} => ~IsListed(node[n].s)

\* A name that was found free is free, and so is the one that is given up.
FreeOK(n) ==
    /\ node[n].pc \in {"named", "enter", "unlist", "relist"} => ~IsListed(node[n].s)
    /\ At(n, "relist") => ~IsListed(node[n].u.name)

NodeOK(n) == LocalOK(n) /\ CopyOK(n) /\ ListOK(n) /\ LookOK(n) /\ FreeOK(n)

IInv == /\ TypeOK /\ Filled /\ Sorted /\ IndexOK
        /\ \A n \in Nodes : NodeOK(n)

---------------------------------------------------------------------------
(* Lists of names *)

LEMMA LeastOf ==
    ASSUME NEW S \in SUBSET Nat, S # {}
    PROVE  \E x \in S : \A y \in S : x <= y
<1>1. PICK x \in S : \A y \in S : ~ (<<y, x>> \in OpToRel(<, Nat))
  BY NatLessThanWellFounded, WFMin
<1>2. ASSUME NEW y \in S, y < x PROVE FALSE
  <2>1. <<y, x>> \in Nat \X Nat
    OBVIOUS
  <2>2. <<y, x>> \in OpToRel(<, Nat)
    BY <1>2, <2>1 DEF OpToRel
  <2>3. QED
    BY <1>1, <2>2
<1>3. \A y \in S : x <= y
  BY <1>2
<1>4. QED
  BY <1>3

LEMMA EntryFields ==
    ASSUME NEW e \in Entries
    PROVE  /\ e.name \in Nat /\ (e.name \in Names \/ e.name = NoName)
           /\ e.number \in Nat /\ (e.number \in Numbers \/ e.number = 0)
           /\ e = [name |-> e.name, number |-> e.number]
           /\ e.name \in Names => e # NoEntry
<1>1. MaxUsers \in Nat /\ 0 \notin Names /\ Names \subseteq Nat
  BY UsersAssumption
<1>2. CASE e = NoEntry
  <2>1. e.name = 0 /\ e.number = 0
    BY <1>2 DEF NoEntry, NoName
  <2>2. QED
    BY <1>1, <1>2, <2>1 DEF NoEntry, NoName
<1>3. CASE e \in [name : Names, number : Numbers]
  <2>1. e.name \in Names /\ e.number \in Numbers /\ e = [name |-> e.name, number |-> e.number]
    BY <1>3
  <2>2. e.name \in Nat /\ e.number \in Nat
    BY <1>1, <2>1 DEF Numbers
  <2>3. e # NoEntry
    BY <1>1, <2>1 DEF NoEntry, NoName
  <2>4. QED
    BY <2>1, <2>2, <2>3
<1>4. QED
  BY <1>2, <1>3 DEF Entries

\* isr puts the name between the smaller ones and the greater ones.
LEMMA InsertedIs ==
    ASSUME NEW l \in [Slots -> Entries], NEW k \in Nat, k < MaxUsers,
           NEW e \in [name : Names, number : Numbers],
           \A i \in Slots : i < k => l[i].name # e.name,
           \A i, j \in Slots : i < j /\ j < k => l[i].name < l[j].name
    PROVE  \E p \in 0 .. k :
              /\ \A i \in Slots : i < p => /\ Inserted(l, k, e)[i] = l[i]
                                           /\ l[i].name < e.name
              /\ Inserted(l, k, e)[p] = e
              /\ \A i \in Slots : p < i /\ i <= k => /\ Inserted(l, k, e)[i] = l[i - 1]
                                                     /\ l[i - 1].name > e.name
              /\ \A i \in Slots : i > k => Inserted(l, k, e)[i] = l[i]
<1>. DEFINE P == {i \in 0 .. k : i = k \/ ~ (l[i].name < e.name)}
<1>1. MaxUsers \in Nat /\ e.name \in Nat /\ \A i \in Slots : l[i].name \in Nat
  BY UsersAssumption, EntryFields
<1>2. k \in P /\ P \in SUBSET Nat
  OBVIOUS
<1>3. PICK p \in P : \A y \in P : p <= y
  BY <1>2, LeastOf
<1>4. p \in 0 .. k /\ p \in Slots
  BY <1>1, <1>3 DEF Slots
<1>5. ASSUME NEW i \in Slots, i < p PROVE l[i].name < e.name
  <2>1. i \in 0 .. k /\ i # k
    BY <1>1, <1>4, <1>5 DEF Slots
  <2>2. QED
    BY <1>3, <1>4, <1>5, <2>1
<1>6. ASSUME NEW i \in Slots, p <= i, i < k PROVE l[i].name > e.name
  <2>1. l[p].name > e.name
    BY <1>1, <1>3, <1>4, <1>6 DEF Slots
  <2>2. CASE p = i
    BY <2>1, <2>2
  <2>3. CASE p < i
    BY <1>1, <1>4, <1>6, <2>1, <2>3
  <2>4. QED
    BY <1>1, <1>4, <1>6, <2>2, <2>3 DEF Slots
<1>7. ASSUME NEW i \in Int PROVE (i \in Slots => (Below(l, k, e.name, i) <=> i < p))
  <2>. SUFFICES ASSUME i \in Slots PROVE Below(l, k, e.name, i) <=> i < p
    OBVIOUS
  <2>1. ASSUME i < p PROVE Below(l, k, e.name, i)
    BY <1>1, <1>4, <1>5, <2>1 DEF Below, Slots
  <2>2. ASSUME ~(i < p) PROVE ~Below(l, k, e.name, i)
    BY <1>1, <1>3, <1>4, <2>2 DEF Below, Slots
  <2>3. QED
    BY <2>1, <2>2
<1>8. ASSUME NEW i \in Slots
      PROVE  /\ i < p => Inserted(l, k, e)[i] = l[i]
             /\ i = p => Inserted(l, k, e)[i] = e
             /\ p < i /\ i <= k => Inserted(l, k, e)[i] = l[i - 1]
             /\ i > k => Inserted(l, k, e)[i] = l[i]
  <2>1. i \in Int /\ i - 1 \in Int /\ i >= 0 /\ (i # 0 => i - 1 \in Slots)
    BY <1>1 DEF Slots
  <2>2. Below(l, k, e.name, i) <=> i < p
    BY <1>7, <2>1
  <2>3. i # 0 => (Below(l, k, e.name, i - 1) <=> i - 1 < p)
    BY <1>7, <2>1
  <2>4. Inserted(l, k, e)[i] = IF i > k \/ i < p THEN l[i]
                               ELSE IF i = 0 \/ i - 1 < p THEN e ELSE l[i - 1]
    BY <2>2, <2>3 DEF Inserted
  <2>5. QED
    BY <1>4, <2>1, <2>4
<1>9. ASSUME NEW i \in Slots, p < i, i <= k PROVE l[i - 1].name > e.name
  <2>1. i - 1 \in Slots /\ p <= i - 1 /\ i - 1 < k
    BY <1>1, <1>4, <1>9 DEF Slots
  <2>2. QED
    BY <1>6, <2>1
<1>10. QED
  BY <1>4, <1>5, <1>8, <1>9

\* dsr closes the gap that the name leaves.
LEMMA RemovedIs ==
    ASSUME NEW l \in [Slots -> Entries], NEW k \in Nat, k <= MaxUsers,
           NEW p \in Slots, p < k,
           \A i \in Slots : i < p => l[i].name # l[p].name
    PROVE  /\ \A i \in Slots : i < p => Removed(l, k, l[p].name)[i] = l[i]
           /\ \A i \in Slots : p <= i /\ i < k - 1 =>
                 i + 1 \in Slots /\ Removed(l, k, l[p].name)[i] = l[i + 1]
           /\ \A i \in Slots : i >= k - 1 => Removed(l, k, l[p].name)[i] = l[i]
<1>1. MaxUsers \in Nat
  BY UsersAssumption
<1>2. ASSUME NEW i \in Slots PROVE Other(l, k, l[p].name, i) <=> i < p
  BY <1>1, p \in 0 .. i <=> p <= i DEF Other, Slots
<1>3. ASSUME NEW i \in Slots
      PROVE  Removed(l, k, l[p].name)[i] = IF i >= k - 1 \/ i < p THEN l[i] ELSE l[i + 1]
  BY <1>2 DEF Removed
<1>4. QED
  BY <1>1, <1>3 DEF Slots

---------------------------------------------------------------------------
(* The index *)

LEMMA NamesType ==
    ASSUME TypeOK, Filled
    PROVE  /\ MaxUsers \in Nat \ {0} /\ users \in Nat /\ users <= MaxUsers /\ nu \in Numbers
           /\ \A i \in Slots : /\ i \in Nat /\ i < MaxUsers
                               /\ names[i] \in Entries /\ names[i].name \in Nat
           /\ \A i \in Nat : i < users => i \in Slots
           /\ \A i \in Slots : i < users => names[i] \in [name : Names, number : Numbers]
<1>1. MaxUsers \in Nat \ {0} /\ users \in Nat /\ users <= MaxUsers /\ nu \in Numbers
  BY UsersAssumption DEF TypeOK
<1>2. ASSUME NEW i \in Slots
      PROVE  i \in Nat /\ i < MaxUsers /\ names[i] \in Entries /\ names[i].name \in Nat
  BY <1>1, EntryFields DEF TypeOK, Slots
<1>3. ASSUME NEW i \in Slots, i < users PROVE names[i] \in [name : Names, number : Numbers]
  <2>1. names[i].name \in Names
    BY <1>3 DEF Filled
  <2>2. names[i] # NoEntry
    BY <1>2, <2>1, EntryFields
  <2>3. QED
    BY <1>2, <2>2 DEF Entries
<1>4. QED
  BY <1>1, <1>2, <1>3 DEF Slots

\* lock_status brings smallist up to date.
LEMMA LockedList ==
    ASSUME TypeOK, Filled, NEW n \in Nodes, ListOK(n), ~At(n, "load")
    PROVE  /\ Locked(n) \in [Slots -> Entries]
           /\ \A i \in Slots : i < users => Locked(n)[i] = names[i]
<1>1. node[n].list \in [Slots -> Entries] /\ names \in [Slots -> Entries]
  BY DEF TypeOK, Instance
<1>2. \A i \in Slots : i < users => names[i] # NoEntry
  BY NamesType, EntryFields
<1>3. CASE n \in changed
  BY <1>1, <1>2, <1>3 DEF Locked, ReadNames
<1>4. CASE n \notin changed
  BY <1>1, <1>4 DEF Locked, ListOK, Same
<1>5. QED
  BY <1>3, <1>4

\* A name is one user's.
LEMMA NameHasOneUser ==
    ASSUME TypeOK, Filled, Sorted, NEW s, NEW j, NEW k, Has(s, j), Has(s, k)
    PROVE  j = k
<1>1. PICK a \in Slots : a < users /\ names[a].name = s /\ names[a].number = j
  BY DEF Has
<1>2. PICK b \in Slots : b < users /\ names[b].name = s /\ names[b].number = k
  BY DEF Has
<1>3. ~ (a < b) /\ ~ (b < a)
  BY <1>1, <1>2, NamesType DEF Sorted
<1>4. QED
  BY <1>1, <1>2, <1>3, NamesType

\* isr adds a user, and keeps the index in order.
LEMMA IsrAdds ==
    ASSUME TypeOK, Filled, Sorted, NEW n \in Nodes, ListOK(n), ~At(n, "load"),
           NEW s \in Names, ~IsListed(s), NEW nd, nd.un \in Numbers, Isr(n, s, nd)
    PROVE  /\ users < MaxUsers /\ users' = users + 1 /\ changed' = Nodes \ {n}
           /\ names' \in [Slots -> Entries] /\ Filled' /\ Sorted'
           /\ \A t, k : Has(t, k)' <=> Has(t, k) \/ (t = s /\ k = nd.un)
           /\ \A t : IsListed(t)' <=> IsListed(t) \/ t = s
           /\ \E l \in [Slots -> Entries] :
                 (\A i \in Slots : i < users' => l[i] = names'[i]) /\ Goes(n, nd, l)
<1>. DEFINE e == [name |-> s, number |-> nd.un]
            L == Locked(n)
            l == Inserted(L, users, e)
<1>1. L \in [Slots -> Entries] /\ \A i \in Slots : i < users => L[i] = names[i]
  BY LockedList
<1>2. /\ MaxUsers \in Nat \ {0} /\ users \in Nat /\ users < MaxUsers
      /\ e \in [name : Names, number : Numbers] /\ e \in Entries
      /\ s \in Nat /\ e.name = s /\ e.number = nd.un
  BY NamesType, UsersAssumption DEF Isr, Entries
<1>3. /\ \A i \in Slots : i < users => L[i].name # s
      /\ \A i, j \in Slots : i < j /\ j < users => L[i].name < L[j].name
  <2>1. ASSUME NEW i \in Slots, NEW j \in Slots, i < j, j < users PROVE L[i].name < L[j].name
    <3>1. i < users
      BY <2>1, <1>2, NamesType
    <3>2. QED
      BY <2>1, <3>1, <1>1 DEF Sorted
  <2>2. QED
    BY <1>1, <2>1 DEF IsListed
<1>4. PICK p \in 0 .. users :
         /\ \A i \in Slots : i < p => l[i] = L[i] /\ L[i].name < s
         /\ l[p] = e
         /\ \A i \in Slots : p < i /\ i <= users => l[i] = L[i - 1] /\ L[i - 1].name > s
         /\ \A i \in Slots : i > users => l[i] = L[i]
  <2>. HIDE DEF e, L, l
  <2>1. \E p \in 0 .. users :
         /\ \A i \in Slots : i < p => Inserted(L, users, e)[i] = L[i] /\ L[i].name < e.name
         /\ Inserted(L, users, e)[p] = e
         /\ \A i \in Slots : p < i /\ i <= users =>
               Inserted(L, users, e)[i] = L[i - 1] /\ L[i - 1].name > e.name
         /\ \A i \in Slots : i > users => Inserted(L, users, e)[i] = L[i]
    BY <1>1, <1>2, <1>3, InsertedIs
  <2>2. QED
    BY <2>1, <1>2 DEF l
<1>5. /\ names' = [i \in Slots |-> IF i < users + 1 THEN l[i] ELSE NoEntry]
      /\ users' = users + 1 /\ changed' = Nodes \ {n} /\ Goes(n, nd, l)
  BY DEF Isr, WriteNames
<1>. HIDE DEF e, L, l
<1>6. /\ p \in Slots /\ p \in Nat /\ p <= users
      /\ \A i \in Slots : /\ i \in Nat /\ i < MaxUsers
                          /\ i < p \/ i = p \/ p < i
                          /\ i < p \/ p <= i
                          /\ i <= users \/ i > users
                          /\ i < users + 1 <=> i <= users
                          /\ i < users => i < users + 1
                          /\ i < p => i < users /\ i < users + 1
                          /\ i # 0 => i - 1 \in Slots
                          /\ p < i => i # 0 /\ p <= i - 1
                          /\ p < i /\ i <= users => i - 1 < users
                          /\ i < users => i + 1 \in Slots
  BY <1>2 DEF Slots
<1>7. /\ \A i \in Slots : i < p => names'[i] = names[i] /\ names[i].name < s
      /\ names'[p] = e
      /\ \A i \in Slots : p < i /\ i <= users => names'[i] = names[i - 1] /\ names[i - 1].name > s
  <2>1. ASSUME NEW i \in Slots, i < p PROVE names'[i] = names[i] /\ names[i].name < s
    BY <1>1, <1>2, <1>4, <1>5, <1>6, <2>1
  <2>2. names'[p] = e
    BY <1>2, <1>4, <1>5, <1>6
  <2>3. ASSUME NEW i \in Slots, p < i, i <= users
        PROVE names'[i] = names[i - 1] /\ names[i - 1].name > s
    <3>1. i - 1 \in Slots /\ i - 1 < users /\ i < users + 1
      BY <1>2, <1>6, <2>3
    <3>2. L[i - 1] = names[i - 1]
      BY <1>1, <3>1
    <3>3. QED
      BY <1>4, <1>5, <2>3, <3>1, <3>2
  <2>4. QED
    BY <2>1, <2>2, <2>3
<1>8. names' \in [Slots -> Entries] /\ l \in [Slots -> Entries]
  <2>1. ASSUME NEW i \in Slots PROVE l[i] \in Entries
    <3>1. CASE i < p
      BY <1>1, <1>4, <3>1
    <3>2. CASE i = p
      BY <1>2, <1>4, <3>2
    <3>3. CASE p < i /\ i <= users
      <4>1. i - 1 \in Slots
        BY <1>6, <3>3
      <4>2. QED
        BY <1>1, <1>4, <3>3, <4>1
    <3>4. CASE i > users
      BY <1>1, <1>4, <3>4
    <3>5. QED
      BY <1>2, <1>6, <3>1, <3>2, <3>3, <3>4
  <2>2. l \in [Slots -> Entries]
    BY <2>1 DEF l, Inserted
  <2>3. QED
    BY <1>5, <2>1, <2>2 DEF Entries
<1>9. Filled'
  <2>1. ASSUME NEW i \in Slots, i < users + 1
        PROVE names'[i].name \in Names /\ names'[i].number \in Numbers
    <3>1. CASE i < p
      BY <1>2, <1>6, <1>7, <3>1 DEF Filled
    <3>2. CASE i = p
      BY <1>2, <1>7, <3>2
    <3>3. CASE p < i
      <4>1. i - 1 \in Slots /\ i - 1 < users /\ i <= users
        BY <1>2, <1>6, <2>1, <3>3
      <4>2. QED
        BY <1>7, <3>3, <4>1 DEF Filled
    <3>4. QED
      BY <1>6, <3>1, <3>2, <3>3
  <2>2. QED
    BY <1>5, <2>1 DEF Filled
<1>10. Sorted'
  <2>1. ASSUME NEW i \in Slots, NEW j \in Slots, i < j, j < users + 1
        PROVE names'[i].name < names'[j].name
    <3>1. CASE j < p
      <4>1. i < p /\ j < users
        BY <1>2, <1>6, <2>1, <3>1
      <4>2. QED
        BY <1>7, <2>1, <3>1, <4>1 DEF Sorted
    <3>2. CASE j = p
      BY <1>2, <1>6, <1>7, <2>1, <3>2
    <3>3. CASE p < j
      <4>. j - 1 \in Slots /\ j - 1 < users /\ j <= users
        BY <1>6, <2>1, <3>3
      <4>1. names'[j] = names[j - 1] /\ names[j - 1].name > s
        BY <1>7, <3>3
      <4>2. CASE i < p
        BY <1>2, <1>6, <1>7, <4>1, <4>2, NamesType
      <4>3. CASE i = p
        BY <1>2, <1>7, <4>1, <4>3
      <4>4. CASE p < i
        <5>1. i \in Nat /\ j \in Nat /\ i # 0
          BY <1>6, <4>4
        <5>2. i - 1 < j - 1 /\ i <= users
          BY <1>2, <2>1, <4>1, <5>1
        <5>3. i - 1 \in Slots
          BY <1>6, <5>1
        <5>4. QED
          BY <1>7, <4>1, <4>4, <5>2, <5>3 DEF Sorted
      <4>5. QED
        BY <1>6, <4>2, <4>3, <4>4
    <3>4. QED
      BY <1>6, <3>1, <3>2, <3>3
  <2>2. QED
    BY <1>5, <2>1 DEF Sorted
<1>11. \A x : (\E i \in Slots : i < users + 1 /\ names'[i] = x)
                  <=> x = e \/ \E i \in Slots : i < users /\ names[i] = x
  <2>1. ASSUME NEW i \in Slots, i < users + 1
        PROVE names'[i] = e \/ \E j \in Slots : j < users /\ names[j] = names'[i]
    <3>1. CASE i < p
      BY <1>2, <1>6, <1>7, <3>1
    <3>2. CASE i = p
      BY <1>7, <3>2
    <3>3. CASE p < i
      <4>1. i - 1 \in Slots /\ i - 1 < users /\ i <= users
        BY <1>2, <1>6, <2>1, <3>3
      <4>2. QED
        BY <1>7, <3>3, <4>1
    <3>4. QED
      BY <1>6, <3>1, <3>2, <3>3
  <2>2. ASSUME NEW i \in Slots, i < users
        PROVE \E j \in Slots : j < users + 1 /\ names'[j] = names[i]
    <3>1. CASE i < p
      BY <1>2, <1>6, <1>7, <2>2, <3>1
    <3>2. CASE p <= i
      <4>1. i + 1 \in Slots
        BY <1>6, <2>2
      <4>2. p < i + 1 /\ i + 1 <= users /\ i + 1 < users + 1 /\ (i + 1) - 1 = i
        BY <1>2, <1>6, <2>2, <3>2
      <4>3. QED
        BY <1>7, <4>1, <4>2
    <3>3. QED
      BY <1>6, <3>1, <3>2
  <2>3. p < users + 1
    BY <1>2, <1>6
  <2>4. QED
    BY <1>6, <1>7, <2>1, <2>2, <2>3
<1>12. \A t, k : Has(t, k)' <=> Has(t, k) \/ (t = s /\ k = nd.un)
  <2>1. ASSUME NEW t, NEW k, Has(t, k)' PROVE Has(t, k) \/ (t = s /\ k = nd.un)
    <3>1. PICK i \in Slots : i < users + 1 /\ names'[i].name = t /\ names'[i].number = k
      BY <1>5, <2>1 DEF Has
    <3>2. names'[i] = e \/ \E j \in Slots : j < users /\ names[j] = names'[i]
      BY <1>11, <3>1
    <3>3. QED
      BY <1>2, <3>1, <3>2 DEF Has
  <2>2. ASSUME NEW t, NEW k, Has(t, k) PROVE Has(t, k)'
    <3>1. PICK i \in Slots : i < users /\ names[i].name = t /\ names[i].number = k
      BY <2>2 DEF Has
    <3>2. \E j \in Slots : j < users + 1 /\ names'[j] = names[i]
      BY <1>11, <3>1
    <3>3. QED
      BY <1>5, <3>1, <3>2 DEF Has
  <2>3. Has(s, nd.un)'
    <3>1. \E j \in Slots : j < users + 1 /\ names'[j] = e
      BY <1>11
    <3>2. QED
      BY <1>2, <1>5, <3>1 DEF Has
  <2>4. QED
    BY <2>1, <2>2, <2>3
<1>13. \A t : IsListed(t)' <=> IsListed(t) \/ t = s
  <2>1. \A t : IsListed(t) <=> \E k : Has(t, k)
    BY DEF IsListed, Has
  <2>2. \A t : IsListed(t)' <=> \E k : Has(t, k)'
    BY DEF IsListed, Has
  <2>3. QED
    BY <1>12, <2>1, <2>2
<1>14. \A i \in Slots : i < users' => l[i] = names'[i]
  BY <1>5
<1>15. QED
  BY <1>2, <1>5, <1>8, <1>9, <1>10, <1>12, <1>13, <1>14

\* dsr removes a user who is in the index.
LEMMA DsrRemoves ==
    ASSUME TypeOK, Filled, Sorted, NEW n \in Nodes, ListOK(n), ~At(n, "load"),
           NEW s \in Names, IsListed(s), NEW nd, Dsr(n, s, nd)
    PROVE  /\ users' \in Nat /\ users' <= MaxUsers /\ changed' = Nodes \ {n}
           /\ names' \in [Slots -> Entries] /\ Filled' /\ Sorted'
           /\ \A t, k : Has(t, k)' <=> Has(t, k) /\ t # s
           /\ \A t : IsListed(t)' <=> IsListed(t) /\ t # s
           /\ \E l \in [Slots -> Entries] :
                 (\A i \in Slots : i < users' => l[i] = names'[i]) /\ Goes(n, nd, l)
<1>. DEFINE L == Locked(n)
            l == Removed(L, users, s)
<1>1. L \in [Slots -> Entries] /\ \A i \in Slots : i < users => L[i] = names[i]
  BY LockedList
<1>2. PICK p \in Slots : p < users /\ names[p].name = s
  BY DEF IsListed
<1>3. /\ MaxUsers \in Nat \ {0} /\ users \in Nat /\ users <= MaxUsers /\ users - 1 \in Nat
      /\ p \in Nat /\ s \in Nat /\ L[p].name = s
      /\ \A i \in Slots : /\ i \in Nat /\ i < MaxUsers
                          /\ i < p \/ i = p \/ p < i
                          /\ i < p \/ p <= i
                          /\ i < users - 1 => i < users
                          /\ i < p => i < users - 1
                          /\ i # 0 => i - 1 \in Slots
                          /\ i < users - 1 => i + 1 \in Slots /\ i + 1 < users
                          /\ i < users - 1 \/ i >= users - 1
  BY <1>1, <1>2, NamesType, UsersAssumption DEF Slots
<1>4. \A i \in Slots : i < p => L[i].name < s
  <2>1. ASSUME NEW i \in Slots, i < p PROVE L[i].name < s
    <3>1. i < users
      BY <1>2, <1>3, <2>1
    <3>2. QED
      BY <1>1, <1>2, <2>1, <3>1 DEF Sorted
  <2>2. QED
    BY <2>1
<1>5. InList(L, users, s)
  BY <1>2, <1>3 DEF InList
<1>6. /\ \A i \in Slots : i < p => l[i] = L[i]
      /\ \A i \in Slots : p <= i /\ i < users - 1 => i + 1 \in Slots /\ l[i] = L[i + 1]
      /\ \A i \in Slots : i >= users - 1 => l[i] = L[i]
  <2>. HIDE DEF L
  <2>1. \A i \in Slots : i < p => L[i].name # L[p].name
    <3>1. ASSUME NEW i \in Slots, i < p PROVE L[i].name # s
      <4>1. L[i].name < s /\ L[i].name \in Nat
        BY <1>1, <1>4, <3>1, EntryFields
      <4>2. QED
        BY <1>3, <4>1
    <3>2. QED
      BY <1>3, <3>1
  <2>2. QED
    BY <1>1, <1>2, <1>3, <2>1, RemovedIs
<1>7. /\ names' = [i \in Slots |-> IF i < users - 1 THEN l[i] ELSE NoEntry]
      /\ users' = users - 1 /\ changed' = Nodes \ {n} /\ Goes(n, nd, l)
  BY <1>5 DEF Dsr, WriteNames
<1>. HIDE DEF L, l
<1>8. /\ \A i \in Slots : i < p => names'[i] = names[i]
      /\ \A i \in Slots : p <= i /\ i < users - 1 => names'[i] = names[i + 1]
  <2>1. ASSUME NEW i \in Slots, i < p PROVE names'[i] = names[i]
    <3>1. i < users - 1 /\ i < users
      BY <1>3, <2>1
    <3>2. QED
      BY <1>1, <1>6, <1>7, <2>1, <3>1
  <2>2. ASSUME NEW i \in Slots, p <= i, i < users - 1 PROVE names'[i] = names[i + 1]
    <3>1. i + 1 \in Slots /\ i + 1 < users
      BY <1>3, <2>2
    <3>2. QED
      BY <1>1, <1>6, <1>7, <2>2, <3>1
  <2>3. QED
    BY <2>1, <2>2
<1>9. names' \in [Slots -> Entries] /\ l \in [Slots -> Entries]
  <2>1. ASSUME NEW i \in Slots PROVE l[i] \in Entries
    BY <1>1, <1>3, <1>6, <2>1
  <2>2. l \in [Slots -> Entries]
    BY <2>1 DEF l, Removed
  <2>3. QED
    BY <1>7, <2>1, <2>2 DEF Entries
<1>10. Filled'
  <2>1. ASSUME NEW i \in Slots, i < users - 1
        PROVE names'[i].name \in Names /\ names'[i].number \in Numbers
    <3>1. CASE i < p
      BY <1>3, <1>8, <2>1, <3>1 DEF Filled
    <3>2. CASE p <= i
      BY <1>3, <1>8, <2>1, <3>2 DEF Filled
    <3>3. QED
      BY <1>3, <3>1, <3>2
  <2>2. QED
    BY <1>7, <2>1 DEF Filled
<1>11. Sorted'
  <2>1. ASSUME NEW i \in Slots, NEW j \in Slots, i < j, j < users - 1
        PROVE names'[i].name < names'[j].name
    <3>1. i \in Nat /\ j \in Nat /\ i < users - 1 /\ i + 1 < j + 1
      BY <1>3, <2>1
    <3>2. CASE j < p
      <4>1. i < p /\ j < users
        BY <1>3, <2>1, <3>1, <3>2
      <4>2. QED
        BY <1>8, <2>1, <3>2, <4>1 DEF Sorted
    <3>3. CASE p <= j
      <4>1. j + 1 \in Slots /\ j + 1 < users /\ names'[j] = names[j + 1]
        BY <1>3, <1>8, <2>1, <3>3
      <4>2. CASE i < p
        <5>1. i < j + 1 /\ names'[i] = names[i]
          BY <1>8, <2>1, <3>1, <4>2
        <5>2. QED
          BY <4>1, <5>1 DEF Sorted
      <4>3. CASE p <= i
        <5>1. i + 1 \in Slots /\ names'[i] = names[i + 1]
          BY <1>3, <1>8, <3>1, <4>3
        <5>2. QED
          BY <3>1, <4>1, <5>1 DEF Sorted
      <4>4. QED
        BY <1>3, <4>2, <4>3
    <3>4. QED
      BY <1>3, <3>2, <3>3
  <2>2. QED
    BY <1>7, <2>1 DEF Sorted
<1>12. ASSUME NEW t, NEW k, Has(t, k)' PROVE Has(t, k) /\ t # s
  <2>1. PICK i \in Slots : i < users - 1 /\ names'[i].name = t /\ names'[i].number = k
    BY <1>7, <1>12 DEF Has
  <2>2. CASE i < p
    <3>1. i < users /\ names'[i] = names[i] /\ names[i].name < s
      BY <1>1, <1>3, <1>4, <1>8, <2>1, <2>2
    <3>2. names[i].name # s
      BY <1>3, <3>1, NamesType
    <3>3. QED
      BY <2>1, <3>1, <3>2 DEF Has
  <2>3. CASE p <= i
    <3>1. i + 1 \in Slots /\ i + 1 < users /\ p < i + 1 /\ names'[i] = names[i + 1]
      BY <1>3, <1>8, <2>1, <2>3
    <3>2. s < names[i + 1].name
      BY <1>2, <3>1 DEF Sorted
    <3>3. names[i + 1].name # s
      BY <1>3, <3>1, <3>2, NamesType
    <3>4. QED
      BY <2>1, <3>1, <3>3 DEF Has
  <2>4. QED
    BY <1>3, <2>2, <2>3
<1>13. ASSUME NEW t, NEW k, Has(t, k), t # s PROVE Has(t, k)'
  <2>1. PICK i \in Slots : i < users /\ names[i].name = t /\ names[i].number = k
    BY <1>13 DEF Has
  <2>2. CASE i < p
    <3>1. i < users - 1 /\ names'[i] = names[i]
      BY <1>3, <1>8, <2>2
    <3>2. QED
      BY <1>7, <2>1, <3>1 DEF Has
  <2>3. CASE p < i
    <3>1. i \in Nat /\ i # 0
      BY <1>3, <2>3
    <3>2. i - 1 < users - 1 /\ p <= i - 1 /\ (i - 1) + 1 = i
      BY <1>3, <2>1, <2>3, <3>1
    <3>3. i - 1 \in Slots
      BY <1>3, <3>1
    <3>4. names'[i - 1] = names[i]
      BY <1>8, <3>2, <3>3
    <3>5. QED
      BY <1>7, <2>1, <3>2, <3>3, <3>4 DEF Has
  <2>4. QED
    BY <1>2, <1>3, <1>13, <2>1, <2>2, <2>3
<1>14. \A t : IsListed(t)' <=> IsListed(t) /\ t # s
  <2>1. \A t : IsListed(t) <=> \E k : Has(t, k)
    BY DEF IsListed, Has
  <2>2. \A t : IsListed(t)' <=> \E k : Has(t, k)'
    BY DEF IsListed, Has
  <2>3. QED
    BY <1>12, <1>13, <2>1, <2>2
<1>15. \A i \in Slots : i < users' => l[i] = names'[i]
  BY <1>7
<1>16. users' \in Nat /\ users' <= MaxUsers
  BY <1>3, <1>7
<1>17. QED
  BY <1>7, <1>9, <1>10, <1>11, <1>12, <1>13, <1>14, <1>15, <1>16

---------------------------------------------------------------------------
(* Instances that do not get in each other's way *)

\* The steps between the two writes of a new, restored, renamed or deleted user.
Transit == {"enter", "delete", "relist", "rewrite"}

LEMMA InTransitIs ==
    \A k : k \in InTransit <=> \E n \in Nodes : node[n].pc \in Transit /\ node[n].un = k
BY DEF InTransit, Transit

\* A number is at hand for one instance.
LEMMA NumbersApart ==
    ASSUME Careful, NEW n \in Nodes, NEW m \in Nodes \ {n}, node[n].un # 0,
           node[n].pc # "found", node[m].pc \in Transit
    PROVE  node[m].un # node[n].un
BY DEF Careful, AtHand, At, Transit

\* Instance n has the number at hand alone.
LEMMA OnlyInTransit ==
    ASSUME Careful, NEW n \in Nodes, node[n].un # 0, node[n].pc # "found"
    PROVE  node[n].un \in InTransit <=> node[n].pc \in Transit
BY NumbersApart, InTransitIs

\* Whoever is at hand and not in transit is in the index if he is a user.
LEMMA IsIn ==
    ASSUME IndexOK, Careful, NEW n \in Nodes, node[n].un \in Numbers, node[n].un # 0,
           node[n].pc \notin Transit, node[n].pc # "found", NEW s \in Names
    PROVE  Has(s, node[n].un) <=> IsUser(node[n].un) /\ userlst[node[n].un].name = s
BY OnlyInTransit DEF IndexOK

LEMMA HasTypes ==
    ASSUME Filled, NEW s, NEW k, Has(s, k)
    PROVE  s \in Names /\ k \in Numbers /\ IsListed(s)
BY DEF Filled, Has, IsListed

LEMMA ListedIsHas ==
    ASSUME NEW s
    PROVE  IsListed(s) <=> \E k : Has(s, k)
BY DEF IsListed, Has

LEMMA NumbersType == Numbers \subseteq Nat \ {0} /\ Sysop \in Numbers
BY UsersAssumption DEF Numbers, Sysop

\* A number is in the index once.
LEMMA NumberHasOneName ==
    ASSUME Filled, IndexOK, NEW k, NEW s, NEW t, Has(s, k), Has(t, k)
    PROVE  s = t
<1>1. k \in Numbers /\ s \in Names /\ t \in Names
  BY HasTypes
<1>2. CASE k \in InTransit
  <2>1. PICK n \in Nodes : node[n].pc \in Transit /\ node[n].un = k
    BY <1>2, InTransitIs
  <2>2. TransitOK(n)
    BY DEF IndexOK
  <2>3. QED
    BY <1>1, <2>1, <2>2 DEF TransitOK, Transit
<1>3. CASE k \notin InTransit
  BY <1>1, <1>3 DEF IndexOK
<1>4. QED
  BY <1>2, <1>3

\* isr finds room in smallist for a user who is not in the index.
LEMMA RoomForOne ==
    ASSUME TypeOK, Filled, Sorted, IndexOK, NEW k \in Numbers, \A s : ~Has(s, k)
    PROVE  users < MaxUsers
<1>. DEFINE S == 0 .. users - 1
            T == Numbers \ {k}
            f == [i \in S |-> names[i].number]
<1>1. /\ MaxUsers \in Nat \ {0} /\ users \in Nat
      /\ \A i \in S : i \in Slots /\ i \in Nat /\ i < users
  BY NamesType DEF Slots
<1>2. ASSUME NEW i \in S PROVE Has(names[i].name, names[i].number)
  BY <1>1 DEF Has
<1>3. ASSUME NEW i \in S PROVE f[i] \in T
  BY <1>1, <1>2 DEF Filled
<1>4. ASSUME NEW i \in S, NEW j \in S, f[i] = f[j] PROVE i = j
  <2>1. names[i].name = names[j].name
    BY <1>2, <1>4, NumberHasOneName
  <2>2. names[i].name \in Nat
    BY <1>1, NamesType
  <2>3. ~ (i < j) /\ ~ (j < i)
    BY <1>1, <2>1, <2>2 DEF Sorted
  <2>4. QED
    BY <1>1, <2>3
<1>5. f \in Injection(S, T)
  BY <1>3, <1>4 DEF Injection, IsInjective
<1>6. IsFiniteSet(T) /\ Cardinality(T) = MaxUsers - 1
  <2>1. IsFiniteSet(Numbers) /\ Cardinality(Numbers) = MaxUsers
    BY <1>1, FS_Interval DEF Numbers
  <2>2. QED
    BY <2>1, FS_RemoveElement
<1>7. Cardinality(S) <= MaxUsers - 1
  <2>. HIDE DEF S, T, f
  <2>1. QED
    BY <1>5, <1>6, FS_Injection
<1>8. Cardinality(S) = users
  BY <1>1, FS_Interval
<1>9. QED
  BY <1>1, <1>7, <1>8

\* What n does, while it has other records and names at hand, leaves m as it is.
LEMMA OthersStay ==
    ASSUME TypeOK, Careful, Careful', NEW n \in Nodes, NEW m \in Nodes \ {n}, NodeOK(m),
           node'[m] = node[m], nu' \in Nat, nu' >= nu,
           \A k \in Numbers : \/ userlst'[k] = userlst[k]
                              \/ k \in AtHand(n) \/ k \in AtHand(n)',
           \A s \in Names : IsListed(s)' => IsListed(s) \/ s \in NamesAtHand(n),
           \/ /\ users' = users
              /\ \A i \in Slots : i < users => names'[i] = names[i]
              /\ m \in changed' <=> m \in changed
           \/ m \in changed' /\ (InTransit # {} \/ InTransit' # {})
    PROVE  NodeOK(m)'
<1>1. nu \in Nat /\ Numbers \subseteq Nat \ {0} /\ NoName \notin Names
  BY NumbersType, UsersAssumption DEF TypeOK, NoName
<1>2. /\ AtHand(m)' = AtHand(m) /\ Candidates(node[m])' = Candidates(node[m])
      /\ \A pc : At(m, pc)' <=> At(m, pc)
  BY DEF AtHand, At, Candidates
<1>3. \A k \in Numbers \cap AtHand(m) : userlst'[k] = userlst[k]
  BY <1>2 DEF Careful
<1>11. ASSUME NEW k \in Numbers \cap AtHand(m), IsUser(k) PROVE IsUser(k)'
  <2>1. k \in Nat /\ k <= nu /\ ~userlst[k].inact
    BY <1>1, <1>11 DEF IsUser
  <2>2. k <= nu'
    BY <1>1, <2>1
  <2>3. userlst'[k] = userlst[k]
    BY <1>3
  <2>4. QED
    BY <2>1, <2>2, <2>3, Zenon DEF IsUser
<1>4. \A s \in Names \cap NamesAtHand(m) : IsListed(s)' => IsListed(s)
  BY DEF Careful
<1>5. LocalOK(m)'
  BY DEF NodeOK, LocalOK
<1>6. CopyOK(m)'
  <2>1. node[m].un # 0 =>
           /\ node[m].un \in Numbers
           /\ node[m].pc # "found" => userlst'[node[m].un] = userlst[node[m].un]
    BY <1>3 DEF AtHand, At, TypeOK, Instance
  <2>2. CASE node[m].un = 0
    <3>1. 0 \notin Numbers
      BY <1>1
    <3>2. node[m].pc \notin AtRecord
          /\ ~ (node[m].pc \in {"load", "look"} /\ node[m].why = "uedit")
      BY <2>2, <3>1 DEF NodeOK, LocalOK
    <3>3. QED
      BY <2>2, <3>2 DEF CopyOK, AtRecord, Fresh
  <2>3. CASE node[m].un # 0
    <3>1. node[m].un <= nu'
      <4>1. node[m].un \in Nat /\ node[m].un <= nu
        BY <1>1, <2>1, <2>3 DEF NodeOK, CopyOK
      <4>2. QED
        BY <1>1, <4>1
    <3>5. node[m].pc \in Fresh \/ (node[m].pc \in {"load", "look"} /\ node[m].why = "uedit") =>
             node[m].u = userlst'[node[m].un]
      BY <2>1, <2>3 DEF NodeOK, CopyOK, Fresh
    <3>6. node[m].pc = "restore" =>
             /\ userlst'[node[m].un].inact
             /\ node[m].u.name = userlst'[node[m].un].name
      BY <2>1, <2>3 DEF NodeOK, CopyOK
    <3>7. QED
      BY <3>1, <3>5, <3>6 DEF CopyOK
  <2>4. QED
    BY <2>2, <2>3
<1>7. ListOK(m)'
  <2>1. CASE /\ users' = users
             /\ \A i \in Slots : i < users => names'[i] = names[i]
             /\ m \in changed' <=> m \in changed
    BY <1>2, <2>1 DEF NodeOK, ListOK, Same
  <2>2. CASE m \in changed' /\ (InTransit # {} \/ InTransit' # {})
    BY <1>2, <2>2 DEF Careful, ListOK
  <2>3. QED
    BY <2>1, <2>2
<1>8. LookOK(m)'
  <2>. SUFFICES ASSUME At(m, "look"), node[m].why # "logon" PROVE LookOK(m)'
    BY <1>2 DEF LookOK
  <2>1. ASSUME NEW k \in Candidates(node[m])
        PROVE  k \in Numbers /\ IsUser(k)'
    <3>1. k \in Numbers /\ IsUser(k) /\ k \in AtHand(m)
      BY <2>1 DEF NodeOK, LookOK, AtHand
    <3>2. QED
      BY <1>3, <1>11, <3>1
  <2>2. ASSUME Candidates(node[m]) = {} PROVE ~IsListed(node[m].s)'
    <3>1. node[m].s \in Names
      BY DEF NodeOK, LocalOK, At
    <3>2. node[m].s \in NamesAtHand(m)
      BY <1>1, <2>2, <3>1 DEF NamesAtHand
    <3>3. ~IsListed(node[m].s)
      BY <2>2 DEF NodeOK, LookOK
    <3>4. QED
      BY <1>4, <3>1, <3>2, <3>3 DEF IsListed
  <2>3. QED
    BY <1>2, <2>1, <2>2 DEF LookOK, IsListed
<1>9. FreeOK(m)'
  <2>1. ASSUME node[m].pc \in {"named", "enter", "unlist", "relist"}
        PROVE  ~IsListed(node[m].s)'
    <3>1. node[m].s \in Names /\ node[m].s \in NamesAtHand(m)
      BY <1>1, <2>1 DEF NodeOK, LocalOK, NamesAtHand
    <3>2. QED
      BY <1>4, <2>1, <3>1 DEF NodeOK, FreeOK, IsListed
  <2>2. ASSUME At(m, "relist") PROVE ~IsListed(node[m].u.name)'
    <3>1. node[m].u.name \in Names /\ node[m].u.name \in NamesAtHand(m)
      BY <2>2 DEF NodeOK, LocalOK, NamesAtHand, At, AtRecord, Records
    <3>2. QED
      BY <1>4, <2>2, <3>1 DEF NodeOK, FreeOK, IsListed
  <2>3. QED
    BY <1>2, <2>1, <2>2 DEF FreeOK, IsListed
<1>10. QED
  BY <1>5, <1>6, <1>7, <1>8, <1>9 DEF NodeOK

---------------------------------------------------------------------------
(* Steps *)

\* An invariant step, from what it does to the rest and to the instance that takes it.
LEMMA StepKeeps ==
    ASSUME IInv, Careful, Careful', NEW n \in Nodes, NEW nd \in Instance, Do(n, nd),
           names' \in [Slots -> Entries], users' \in 0 .. MaxUsers, changed' \subseteq Nodes,
           userlst' \in [Numbers -> Records \union {NoRecord}], nu' \in Numbers, nu' >= nu,
           \A k \in Numbers : userlst'[k] \in Records <=> k <= nu',
           Filled', Sorted', IndexOK', NodeOK(n)',
           \A k \in Numbers : \/ userlst'[k] = userlst[k]
                              \/ k \in AtHand(n) \/ k \in AtHand(n)',
           \A s \in Names : IsListed(s)' => IsListed(s) \/ s \in NamesAtHand(n),
           \/ /\ users' = users
              /\ \A i \in Slots : i < users => names'[i] = names[i]
              /\ changed' \in {changed, changed \ {n}}
           \/ changed' = Nodes \ {n} /\ (InTransit # {} \/ InTransit' # {})
    PROVE  IInv'
<1>1. TypeOK'
  BY DEF IInv, TypeOK, Do
<1>2. nu' \in Nat
  BY NumbersType
<1>3. ASSUME NEW m \in Nodes \ {n} PROVE NodeOK(m)'
  <2>1. node'[m] = node[m]
    BY DEF Do, IInv, TypeOK
  <2>2. NodeOK(m) /\ TypeOK
    BY DEF IInv
  <2>3. \/ /\ users' = users
           /\ \A i \in Slots : i < users => names'[i] = names[i]
           /\ m \in changed' <=> m \in changed
        \/ m \in changed' /\ (InTransit # {} \/ InTransit' # {})
    OBVIOUS
  <2>4. QED
    BY <1>2, <2>1, <2>2, <2>3, OthersStay
<1>4. QED
  BY <1>1, <1>3 DEF IInv

\* A step that changes neither the index nor a record.
LEMMA QuietStep ==
    ASSUME IInv, Careful, Careful', NEW n \in Nodes, NEW nd \in Instance, Do(n, nd),
           UNCHANGED <<userlst, nu>>, names' \in [Slots -> Entries], users' = users,
           \A i \in Slots : i < users => names'[i] = names[i],
           changed' \in {changed, changed \ {n}},
           node[n].pc \notin Transit, nd.pc \notin Transit, NodeOK(n)'
    PROVE  IInv'
<1>1. node'[n] = nd /\ \A m \in Nodes \ {n} : node'[m] = node[m]
  BY DEF Do, IInv, TypeOK
<1>2. \A k : k \in InTransit' <=> k \in InTransit
  <2>1. \A k : k \in InTransit' <=> \E m \in Nodes : node'[m].pc \in Transit /\ node'[m].un = k
    BY DEF InTransit, Transit
  <2>2. QED
    BY <1>1, <2>1, InTransitIs
<1>3. \A s, k : Has(s, k)' <=> Has(s, k)
  BY DEF Has
<1>4. \A s : IsListed(s)' <=> IsListed(s)
  BY DEF IsListed
<1>5. \A k : IsUser(k)' <=> IsUser(k)
  BY DEF IsUser
<1>6. Filled' /\ Sorted'
  <2>1. Filled /\ Sorted
    BY DEF IInv
  <2>2. Filled'
    BY <2>1 DEF Filled
  <2>3. \A i, j \in Slots : i < j /\ j < users => i < users
    BY NamesType DEF IInv
  <2>4. QED
    BY <2>1, <2>2, <2>3 DEF Sorted
<1>7. IndexOK'
  <2>1. ASSUME NEW k \in Numbers, k \notin InTransit', NEW s \in Names
        PROVE Has(s, k)' <=> IsUser(k)' /\ userlst'[k].name = s
    BY <1>2, <1>3, <1>5, <2>1 DEF IInv, IndexOK
  <2>2. ASSUME NEW m \in Nodes PROVE TransitOK(m)'
    <3>1. CASE m = n
      BY <1>1, <3>1 DEF TransitOK, Transit
    <3>2. CASE m # n
      BY <1>1, <1>3, <3>2 DEF IInv, IndexOK, TransitOK
    <3>3. QED
      BY <3>1, <3>2
  <2>3. QED
    BY <2>1, <2>2 DEF IndexOK
<1>8. QED
  BY <1>4, <1>6, <1>7, StepKeeps, NumbersType DEF IInv, TypeOK

\* The record at hand is the one in USER.LST, which it changes nothing to write again.
LEMMA WrittenAgain ==
    ASSUME TypeOK, NEW k \in Numbers, k <= nu, WriteUser(k, userlst[k])
    PROVE  UNCHANGED <<userlst, nu>>
BY NumbersType DEF TypeOK, WriteUser

---------------------------------------------------------------------------
(* Steps that change neither the index nor a record *)

LEMMA IdleIsOK ==
    ASSUME NEW n \in Nodes, node'[n].pc = "idle", node'[n].un = 0, node'[n].s = NoName,
           n \notin changed' => Same(n)'
    PROVE  NodeOK(n)'
BY DEF NodeOK, LocalOK, CopyOK, ListOK, LookOK, FreeOK, At, AtRecord, Fresh

LEMMA IdleType ==
    ASSUME NEW n \in Nodes, TypeOK, NEW l \in [Slots -> Entries]
    PROVE  /\ Idle(n) \in Instance /\ [Idle(n) EXCEPT !.list = l] \in Instance
           /\ Idle(n).pc = "idle" /\ Idle(n).un = 0 /\ Idle(n).s = NoName
           /\ Idle(n).list = node[n].list
<1>1. node[n] \in Instance /\ 0 \in 0 .. MaxUsers
  BY UsersAssumption DEF TypeOK
<1>. DEFINE a == [node[n] EXCEPT !.pc = "idle", !.cnt = 0, !.s = NoName]
            b == [a EXCEPT !.why = "logon", !.un = 0, !.u = NoRecord]
<1>2. a \in Instance /\ a.pc = "idle" /\ a.s = NoName /\ a.list = node[n].list
  BY <1>1 DEF Instance, Steps
<1>3. Idle(n) = b
  BY DEF Idle
<1>. HIDE DEF a
<1>4. /\ b \in Instance
      /\ b.pc = "idle" /\ b.un = 0 /\ b.s = NoName /\ b.list = node[n].list
  BY <1>2 DEF Instance
<1>. HIDE DEF b
<1>5. [b EXCEPT !.list = l] \in Instance
  BY <1>4 DEF Instance
<1>6. QED
  BY <1>3, <1>4, <1>5

LEMMA SameStays ==
    ASSUME NEW n \in Nodes, ListOK(n), ~At(n, "load"), UNCHANGED <<names, users, changed>>,
           node'[n].list = node[n].list
    PROVE  n \notin changed' => Same(n)'
BY DEF ListOK, Same

\* Back to the prompt.
LEMMA GoesIdle ==
    ASSUME IInv, Careful, Careful', NEW n \in Nodes, Do(n, Idle(n)),
           UNCHANGED <<userlst, nu, names, users, changed>>,
           node[n].pc \notin Transit, ~At(n, "load")
    PROVE  IInv'
<1>1. node[n].list \in [Slots -> Entries] /\ node'[n] = Idle(n) /\ ListOK(n)
  BY DEF IInv, TypeOK, Instance, Do, NodeOK
<1>2. NodeOK(n)'
  BY <1>1, IdleType, SameStays, IdleIsOK DEF IInv
<1>3. QED
  BY <1>1, <1>2, IdleType, QuietStep DEF IInv, TypeOK, Transit

\* bsearch looks at a smallist that is up to date, and at nobody who is in transit.
LEMMA LooksRight ==
    ASSUME IInv, Careful', NEW n \in Nodes, UNCHANGED <<userlst, nu, names, users>>,
           node[n].pc \notin Transit, \A m \in Nodes \ {n} : node'[m] = node[m],
           node'[n].pc = "look", node'[n].why # "logon", node'[n].cnt = users,
           node'[n].s \in Names,
           \A i \in Slots : i < users => node'[n].list[i] = names[i]
    PROVE  LookOK(n)'
<1>. DEFINE C == Candidates(node[n])'
<1>1. C = {names[i].number : i \in {j \in Slots : j < users /\ names[j].name = node'[n].s}}
  BY DEF Candidates
<1>2. ASSUME NEW k \in C PROVE Has(node'[n].s, k)
  BY <1>1, <1>2 DEF Has
<1>3. ASSUME NEW k \in C PROVE k \in Numbers /\ k # 0 /\ k \notin InTransit
  <2>1. k \in Numbers /\ k # 0
    BY <1>2, HasTypes, NumbersType DEF IInv
  <2>2. k \in AtHand(n)'
    BY DEF AtHand, At
  <2>3. \A m \in Nodes \ {n} : node[m].pc \in Transit => node[m].un # k
    BY <2>1, <2>2 DEF Careful, AtHand, At, Transit
  <2>4. QED
    BY <2>1, <2>3, InTransitIs
<1>4. ASSUME NEW k \in C PROVE k \in Numbers /\ IsUser(k)'
  <2>1. IsUser(k)
    BY <1>2, <1>3 DEF IInv, IndexOK
  <2>2. IsUser(k)'
    BY <2>1 DEF IsUser
  <2>3. QED
    BY <1>3, <2>1, <2>2
<1>5. ASSUME C = {} PROVE \A i \in Slots : ~ (i < users' /\ names'[i].name = node'[n].s)
  <2>1. ASSUME NEW i \in Slots, i < users, names[i].name = node'[n].s PROVE names[i].number \in C
    BY <1>1, <2>1
  <2>2. QED
    BY <1>5, <2>1
<1>6. QED
  BY <1>4, <1>5 DEF LookOK, IsListed

\* finduser
LEMMA ReadStatusKeeps ==
    ASSUME IInv, Careful, Careful', NEW n \in Nodes, NEW s \in Names,
           NEW why \in {"logon", "newuser", "uedit"}, ReadStatus(n, s, why),
           IF why = "uedit" THEN At(n, "edit") ELSE At(n, "idle")
    PROVE  IInv'
<1>. DEFINE nd == [node[n] EXCEPT !.pc = IF n \in changed THEN "load" ELSE "look",
                                  !.cnt = users, !.s = s, !.why = why]
<1>1. node[n] \in Instance /\ users \in 0 .. MaxUsers /\ NodeOK(n)
  BY DEF IInv, TypeOK
<1>2. nd \in Instance /\ Do(n, nd)
  BY <1>1 DEF ReadStatus, Instance, Steps
<1>3. node'[n] = nd /\ \A m \in Nodes \ {n} : node'[m] = node[m]
  BY <1>2 DEF Do, IInv, TypeOK
<1>4. /\ UNCHANGED <<userlst, nu, names, users>> /\ changed' = changed \ {n}
      /\ node[n].pc \notin Transit /\ nd.pc \in {"load", "look"} /\ nd.pc \notin Transit
      /\ nd.un = node[n].un /\ nd.u = node[n].u /\ nd.list = node[n].list
      /\ nd.s = s /\ nd.why = why /\ nd.cnt = users
  BY <1>1 DEF ReadStatus, Instance, At, Transit
<1>5. n \notin changed => \A i \in Slots : i < users => nd.list[i] = names[i]
  BY <1>1, <1>4 DEF NodeOK, ListOK, Same, At
<1>6. n \in changed <=> nd.pc = "load"
  BY <1>1 DEF Instance
<1>. HIDE DEF nd
<1>7. LocalOK(n)'
  BY <1>1, <1>3, <1>4 DEF NodeOK, LocalOK, At, AtRecord
<1>8. CopyOK(n)'
  BY <1>1, <1>3, <1>4 DEF NodeOK, LocalOK, CopyOK, At, AtRecord, Fresh
<1>9. ListOK(n)'
  BY <1>3, <1>4, <1>5, <1>6 DEF ListOK, Same, At
<1>10. LookOK(n)'
  BY <1>3, <1>4, <1>5, <1>6, LooksRight DEF LookOK, At
<1>11. FreeOK(n)'
  BY <1>3, <1>4 DEF FreeOK, At
<1>12. NodeOK(n)'
  BY <1>7, <1>8, <1>9, <1>10, <1>11 DEF NodeOK
<1>13. QED
  BY <1>2, <1>4, <1>12, QuietStep DEF IInv, TypeOK

LEMMA LoadKeeps ==
    ASSUME IInv, Careful, Careful', NEW n \in Nodes, Load(n)
    PROVE  IInv'
<1>. DEFINE l == ReadNames(node[n].list, node[n].cnt)
            nd == [node[n] EXCEPT !.pc = "look", !.list = l]
<1>1. node[n] \in Instance /\ NodeOK(n) /\ names \in [Slots -> Entries]
  BY DEF IInv, TypeOK
<1>2. l \in [Slots -> Entries]
  BY <1>1 DEF ReadNames, Instance
<1>3. nd \in Instance /\ Do(n, nd)
  BY <1>1, <1>2 DEF Load, Instance, Steps
<1>4. node'[n] = nd /\ \A m \in Nodes \ {n} : node'[m] = node[m]
  BY <1>3 DEF Do, IInv, TypeOK
<1>5. /\ UNCHANGED <<userlst, nu, names, users, changed>>
      /\ node[n].pc = "load" /\ nd.pc = "look"
      /\ nd.un = node[n].un /\ nd.u = node[n].u /\ nd.s = node[n].s /\ nd.why = node[n].why
      /\ nd.list = l /\ nd.cnt = node[n].cnt
  BY <1>1 DEF Load, Instance, At
<1>6. /\ n \notin changed => node[n].cnt = users
      /\ node[n].why # "logon" => n \notin changed
  BY <1>1, <1>5 DEF Careful, NodeOK, ListOK, At
<1>7. n \notin changed => \A i \in Slots : i < users => l[i] = names[i]
  <2>1. \A i \in Slots : i < users => names[i] # NoEntry
    BY NamesType, EntryFields DEF IInv
  <2>2. QED
    BY <1>6, <2>1 DEF ReadNames
<1>. HIDE DEF nd, l
<1>8. LocalOK(n)'
  BY <1>1, <1>4, <1>5 DEF NodeOK, LocalOK, AtRecord
<1>9. CopyOK(n)'
  BY <1>1, <1>4, <1>5 DEF NodeOK, LocalOK, CopyOK, AtRecord, Fresh
<1>10. ListOK(n)'
  BY <1>4, <1>5, <1>7 DEF ListOK, Same, At
<1>11. LookOK(n)'
  <2>1. node[n].s \in Names
    BY <1>1, <1>5 DEF NodeOK, LocalOK
  <2>2. CASE node[n].why = "logon"
    BY <1>4, <1>5, <2>2 DEF LookOK
  <2>3. CASE node[n].why # "logon"
    BY <1>4, <1>5, <1>6, <1>7, <2>1, <2>3, LooksRight DEF Transit
  <2>4. QED
    BY <2>2, <2>3
<1>12. FreeOK(n)'
  BY <1>4, <1>5 DEF FreeOK, At
<1>13. NodeOK(n)'
  BY <1>8, <1>9, <1>10, <1>11, <1>12 DEF NodeOK
<1>14. QED
  BY <1>3, <1>5, <1>13, QuietStep DEF IInv, TypeOK, Transit

LEMMA FoundKeeps ==
    ASSUME IInv, Careful, Careful', NEW n \in Nodes, At(n, "look"),
           NEW k \in Candidates(node[n]), IsUser(k), Do(n, Found(n, k)),
           UNCHANGED <<userlst, nu, names, users, changed>>
    PROVE  IInv'
<1>1. /\ node[n] \in Instance /\ NodeOK(n) /\ node[n].pc = "look" /\ node[n].pc \notin Transit
      /\ node[n].why \in {"logon", "newuser", "uedit"} /\ 0 \in 0 .. MaxUsers
  BY UsersAssumption DEF IInv, TypeOK, At, Transit, Instance
<1>2. k \in Numbers
  <2>1. PICK i \in Slots : node[n].list[i].name = node[n].s /\ k = node[n].list[i].number
    BY DEF Candidates
  <2>2. node[n].list[i] \in Entries /\ node[n].s \in Names /\ NoName \notin Names
    BY <1>1, UsersAssumption DEF Instance, NodeOK, LocalOK, NoName
  <2>3. QED
    BY <2>1, <2>2, EntryFields DEF Entries, NoEntry
<1>3. CASE node[n].why = "logon"
  <2>. DEFINE nd == [node[n] EXCEPT !.pc = "found", !.cnt = 0, !.un = k]
  <2>1. Do(n, nd)
    BY <1>3 DEF Found
  <2>2. nd \in Instance
    BY <1>1, <1>2 DEF Instance, Steps
  <2>3. node'[n] = nd
    BY <2>1 DEF Do, IInv, TypeOK
  <2>4. nd.pc = "found" /\ nd.un = k /\ nd.s = node[n].s /\ nd.list = node[n].list
    BY <1>1 DEF Instance
  <2>. HIDE DEF nd
  <2>5. LocalOK(n)'
    BY <1>2, <2>3, <2>4 DEF LocalOK, AtRecord
  <2>6. CopyOK(n)'
    <3>1. k <= nu'
      BY DEF IsUser
    <3>2. QED
      BY <2>3, <2>4, <3>1 DEF CopyOK, Fresh
  <2>7. ListOK(n)' /\ LookOK(n)' /\ FreeOK(n)'
    BY <1>1, <2>3, <2>4, SameStays DEF NodeOK, ListOK, LookOK, FreeOK, At
  <2>8. QED
    BY <1>1, <2>1, <2>2, <2>4, <2>5, <2>6, <2>7, QuietStep DEF IInv, TypeOK, NodeOK, Transit
<1>4. CASE node[n].why = "newuser"
  <2>1. Do(n, Idle(n))
    BY <1>4 DEF Found
  <2>2. QED
    BY <1>1, <2>1, GoesIdle DEF At
<1>5. CASE node[n].why = "uedit"
  <2>. DEFINE nd == Resume(n)
  <2>1. Do(n, nd)
    BY <1>5 DEF Found
  <2>2. nd \in Instance
    BY <1>1 DEF Resume, Instance, Steps
  <2>3. node'[n] = nd
    BY <2>1 DEF Do, IInv, TypeOK
  <2>4. nd.pc = "edit" /\ nd.un = node[n].un /\ nd.u = node[n].u /\ nd.list = node[n].list
    BY <1>1 DEF Instance, Resume
  <2>. HIDE DEF nd
  <2>5. LocalOK(n)' /\ CopyOK(n)'
    BY <1>1, <1>5, <2>3, <2>4 DEF NodeOK, LocalOK, CopyOK, AtRecord, Fresh
  <2>7. ListOK(n)' /\ LookOK(n)' /\ FreeOK(n)'
    BY <1>1, <2>3, <2>4, SameStays DEF NodeOK, ListOK, LookOK, FreeOK, At
  <2>8. QED
    BY <1>1, <2>1, <2>2, <2>4, <2>5, <2>7, QuietStep DEF IInv, TypeOK, NodeOK, Transit
<1>6. QED
  BY <1>1, <1>3, <1>4, <1>5

LEMMA NotFoundKeeps ==
    ASSUME IInv, Careful, Careful', NEW n \in Nodes, At(n, "look"),
           node[n].why = "logon" \/ Candidates(node[n]) = {}, Do(n, NotFound(n)),
           UNCHANGED <<userlst, nu, names, users, changed>>
    PROVE  IInv'
<1>1. /\ node[n] \in Instance /\ NodeOK(n) /\ node[n].pc = "look" /\ node[n].pc \notin Transit
      /\ node[n].why \in {"logon", "newuser", "uedit"} /\ 0 \in 0 .. MaxUsers
      /\ node[n].s \in Names
  BY UsersAssumption DEF IInv, TypeOK, At, Transit, Instance, NodeOK, LocalOK
<1>2. node[n].why # "logon" => ~IsListed(node[n].s)
  BY <1>1 DEF NodeOK, LookOK
<1>3. CASE node[n].why = "logon"
  <2>1. Do(n, Idle(n))
    BY <1>3 DEF NotFound
  <2>2. QED
    BY <1>1, <2>1, GoesIdle DEF At
<1>4. ASSUME NEW pc \in {"named", "unlist"}, node[n].why # "logon",
             pc = (IF node[n].why = "newuser" THEN "named" ELSE "unlist"),
             Do(n, [node[n] EXCEPT !.pc = pc, !.cnt = 0])
      PROVE  IInv'
  <2>. DEFINE nd == [node[n] EXCEPT !.pc = pc, !.cnt = 0]
  <2>1. Do(n, nd)
    BY <1>4
  <2>2. nd \in Instance
    BY <1>1 DEF Instance, Steps
  <2>3. node'[n] = nd
    BY <2>1 DEF Do, IInv, TypeOK
  <2>4. /\ nd.pc = pc /\ nd.un = node[n].un /\ nd.u = node[n].u /\ nd.list = node[n].list
        /\ nd.s = node[n].s /\ nd.why = node[n].why
    BY <1>1 DEF Instance
  <2>. HIDE DEF nd
  <2>5. LocalOK(n)'
    BY <1>1, <1>4, <2>3, <2>4 DEF NodeOK, LocalOK, AtRecord
  <2>6. CopyOK(n)'
    BY <1>1, <1>4, <2>3, <2>4 DEF NodeOK, LocalOK, CopyOK, AtRecord, Fresh
  <2>7. ListOK(n)' /\ LookOK(n)'
    BY <1>1, <1>4, <2>3, <2>4, SameStays DEF NodeOK, ListOK, LookOK, At
  <2>8. FreeOK(n)'
    <3>1. \A i \in Slots : ~ (i < users /\ names[i].name = node[n].s)
      BY <1>2, <1>4 DEF IsListed
    <3>2. QED
      BY <1>4, <2>3, <2>4, <3>1 DEF FreeOK, IsListed, At
  <2>9. QED
    BY <1>1, <1>4, <2>1, <2>2, <2>4, <2>5, <2>6, <2>7, <2>8, QuietStep
    DEF IInv, TypeOK, NodeOK, Transit
<1>5. CASE node[n].why = "newuser"
  BY <1>4, <1>5 DEF NotFound
<1>6. CASE node[n].why = "uedit"
  BY <1>4, <1>6 DEF NotFound
<1>7. QED
  BY <1>1, <1>3, <1>5, <1>6

LEMMA LookKeeps ==
    ASSUME IInv, Careful, Careful', NEW n \in Nodes, Look(n)
    PROVE  IInv'
<1>1. At(n, "look") /\ UNCHANGED <<userlst, nu, names, users, changed>>
  BY DEF Look
<1>2. node[n].why # "logon" => \A k \in Candidates(node[n]) : IsUser(k)
  BY <1>1 DEF IInv, NodeOK, LookOK
<1>3. CASE \E k \in Candidates(node[n]) : IsUser(k) /\ Do(n, Found(n, k))
  BY <1>1, <1>3, FoundKeeps
<1>4. CASE (node[n].why = "logon" \/ Candidates(node[n]) = {}) /\ Do(n, NotFound(n))
  BY <1>1, <1>4, NotFoundKeeps
<1>5. QED
  BY <1>2, <1>3, <1>4 DEF Look

LEMMA AskNumberKeeps ==
    ASSUME IInv, Careful, Careful', NEW n \in Nodes, AskNumber(n)
    PROVE  IInv'
<1>1. PICK k \in Numbers : IsUser(k) /\ Do(n, [node[n] EXCEPT !.pc = "found", !.un = k])
  BY DEF AskNumber
<1>. DEFINE nd == [node[n] EXCEPT !.pc = "found", !.un = k]
<1>2. /\ node[n] \in Instance /\ NodeOK(n) /\ node[n].pc = "idle" /\ node[n].pc \notin Transit
      /\ UNCHANGED <<userlst, nu, names, users, changed>>
  BY DEF IInv, TypeOK, At, Transit, AskNumber
<1>3. nd \in Instance /\ Do(n, nd) /\ node'[n] = nd
  BY <1>1, <1>2 DEF Do, Instance, Steps, IInv, TypeOK
<1>4. nd.pc = "found" /\ nd.un = k /\ nd.s = NoName /\ nd.list = node[n].list
  BY <1>2 DEF Instance, NodeOK, LocalOK
<1>. HIDE DEF nd
<1>5. LocalOK(n)'
  BY <1>3, <1>4 DEF LocalOK, AtRecord
<1>6. CopyOK(n)'
  <2>1. k <= nu'
    BY <1>1, <1>2 DEF IsUser
  <2>2. QED
    BY <1>3, <1>4, <2>1 DEF CopyOK, Fresh
<1>7. ListOK(n)' /\ LookOK(n)' /\ FreeOK(n)'
  BY <1>2, <1>3, <1>4, SameStays DEF NodeOK, ListOK, LookOK, FreeOK, At
<1>8. QED
  BY <1>2, <1>3, <1>4, <1>5, <1>6, <1>7, QuietStep DEF IInv, TypeOK, NodeOK, Transit

\* A step of a session or an editor that looks at no name.
LEMMA MovesOn ==
    ASSUME IInv, Careful, Careful', NEW n \in Nodes, NEW nd \in Instance, Do(n, nd),
           UNCHANGED <<userlst, nu, names, users, changed>>,
           node[n].pc \notin Transit, node[n].pc # "load", nd.list = node[n].list,
           nd.pc \in {"found", "on", "joined", "edit", "restore", "delist"},
           LocalOK(n)', CopyOK(n)'
    PROVE  IInv'
<1>1. node'[n] = nd /\ NodeOK(n)
  BY DEF Do, IInv, TypeOK
<1>2. ListOK(n)' /\ LookOK(n)' /\ FreeOK(n)'
  BY <1>1, SameStays DEF NodeOK, ListOK, LookOK, FreeOK, At
<1>3. QED
  BY <1>2, QuietStep DEF IInv, TypeOK, NodeOK, Transit

LEMMA ReadUserKeeps ==
    ASSUME IInv, Careful, Careful', NEW n \in Nodes, ReadUser(n)
    PROVE  IInv'
<1>. DEFINE nd == [node[n] EXCEPT !.pc = "on", !.s = NoName, !.u = userlst[node[n].un]]
<1>1. /\ node[n] \in Instance /\ NodeOK(n) /\ node[n].pc = "found"
      /\ UNCHANGED <<userlst, nu, names, users, changed>>
  BY DEF IInv, TypeOK, At, ReadUser
<1>2. node[n].un \in Numbers /\ node[n].un <= nu /\ userlst[node[n].un] \in Records
  <2>1. node[n].un \in Numbers /\ node[n].un # 0
    BY <1>1, NumbersType DEF NodeOK, LocalOK
  <2>2. node[n].un <= nu
    BY <1>1, <2>1 DEF NodeOK, CopyOK
  <2>3. QED
    BY <2>1, <2>2 DEF IInv, TypeOK
<1>3. nd \in Instance /\ Do(n, nd) /\ node'[n] = nd
  BY <1>1, <1>2 DEF Do, Instance, Steps, IInv, TypeOK, ReadUser
<1>4. nd.pc = "on" /\ nd.un = node[n].un /\ nd.u = userlst[node[n].un] /\ nd.list = node[n].list
  BY <1>1 DEF Instance
<1>. HIDE DEF nd
<1>5. LocalOK(n)' /\ CopyOK(n)'
  BY <1>1, <1>2, <1>3, <1>4 DEF LocalOK, CopyOK, AtRecord, Fresh
<1>6. QED
  BY <1>1, <1>3, <1>4, <1>5, MovesOn DEF Transit

\* write_user with the record at hand.
LEMMA FreshWrite ==
    ASSUME IInv, NEW n \in Nodes, node[n].pc \in Fresh, WriteUser(node[n].un, node[n].u)
    PROVE  UNCHANGED <<userlst, nu>>
<1>1. NodeOK(n) /\ node[n].pc \in AtRecord
  BY DEF IInv, Fresh, AtRecord
<1>2. node[n].un \in Numbers /\ node[n].un <= nu /\ node[n].u = userlst[node[n].un]
  BY <1>1, NumbersType DEF NodeOK, LocalOK, CopyOK
<1>3. QED
  BY <1>2, WrittenAgain DEF IInv

LEMMA LogOffKeeps ==
    ASSUME IInv, Careful, Careful', NEW n \in Nodes, LogOff(n) \/ Forget(n)
    PROVE  IInv'
<1>1. /\ node[n].pc \in {"on", "forget"} /\ WriteUser(node[n].un, node[n].u) /\ Do(n, Idle(n))
      /\ UNCHANGED <<names, users, changed>>
  BY DEF LogOff, Forget, At
<1>2. UNCHANGED <<userlst, nu>>
  BY <1>1, FreshWrite DEF Fresh
<1>3. QED
  BY <1>1, <1>2, GoesIdle DEF Transit, At

LEMMA LeavesKeeps ==
    ASSUME IInv, Careful, Careful', NEW n \in Nodes, HangUp(n) \/ Quit(n)
    PROVE  IInv'
<1>1. /\ node[n].pc \in {"on", "named", "joined", "edit"} /\ Do(n, Idle(n))
      /\ UNCHANGED <<userlst, nu, names, users, changed>>
  BY DEF HangUp, Quit, At
<1>2. QED
  BY <1>1, GoesIdle DEF Transit, At

LEMMA WelcomeKeeps ==
    ASSUME IInv, Careful, Careful', NEW n \in Nodes, Welcome(n)
    PROVE  IInv'
<1>. DEFINE nd == [node[n] EXCEPT !.pc = "on"]
<1>1. /\ node[n] \in Instance /\ NodeOK(n) /\ node[n].pc = "joined"
      /\ UNCHANGED <<userlst, nu, names, users, changed>>
  BY DEF IInv, TypeOK, At, Welcome
<1>2. nd \in Instance /\ Do(n, nd) /\ node'[n] = nd
  BY <1>1 DEF Do, Instance, Steps, IInv, TypeOK, Welcome
<1>3. nd.pc = "on" /\ nd.un = node[n].un /\ nd.u = node[n].u /\ nd.list = node[n].list
  BY <1>1 DEF Instance
<1>. HIDE DEF nd
<1>4. LocalOK(n)' /\ CopyOK(n)'
  BY <1>1, <1>2, <1>3 DEF NodeOK, LocalOK, CopyOK, AtRecord, Fresh
<1>5. QED
  BY <1>1, <1>2, <1>3, <1>4, MovesOn DEF Transit

LEMMA KillKeeps ==
    ASSUME IInv, Careful, Careful', NEW n \in Nodes, Kill(n)
    PROVE  IInv'
<1>. DEFINE u == userlst[node[n].un]
            nd == [node[n] EXCEPT !.pc = "delist", !.u = u]
<1>1. /\ node[n] \in Instance /\ NodeOK(n) /\ node[n].pc \in {"joined", "edit"}
      /\ UNCHANGED <<userlst, nu, names, users, changed>>
  BY DEF IInv, TypeOK, At, Kill
<1>2. node[n].un \in Numbers /\ node[n].un # 0 /\ node[n].un <= nu /\ u \in Records
  BY <1>1, NumbersType DEF NodeOK, LocalOK, CopyOK, AtRecord, IInv, TypeOK
<1>3. CASE Do(n, Idle(n))
  BY <1>1, <1>3, GoesIdle DEF Transit, At
<1>4. CASE Do(n, nd) /\ ~u.inact
  <2>1. nd \in Instance /\ node'[n] = nd
    BY <1>1, <1>2, <1>4 DEF Do, Instance, Steps, IInv, TypeOK
  <2>2. nd.pc = "delist" /\ nd.un = node[n].un /\ nd.u = u /\ nd.list = node[n].list
    BY <1>1 DEF Instance
  <2>3. u = userlst'[node[n].un]
    BY <1>1
  <2>. HIDE DEF nd, u
  <2>4. LocalOK(n)'
    BY <1>1, <1>2, <1>4, <2>1, <2>2 DEF NodeOK, LocalOK, AtRecord
  <2>5. CopyOK(n)'
    BY <1>1, <1>2, <2>1, <2>2, <2>3 DEF CopyOK, Fresh
  <2>6. QED
    BY <1>1, <1>4, <2>1, <2>2, <2>4, <2>5, MovesOn DEF Transit
<1>5. QED
  BY <1>3, <1>4 DEF Kill, DelUser

LEMMA EditKeeps ==
    ASSUME IInv, Careful, Careful', NEW n \in Nodes, Edit(n)
    PROVE  IInv'
<1>1. PICK k \in Numbers :
         k <= nu /\ Do(n, [node[n] EXCEPT !.pc = "edit", !.un = k, !.u = userlst[k]])
  BY DEF Edit
<1>. DEFINE nd == [node[n] EXCEPT !.pc = "edit", !.un = k, !.u = userlst[k]]
<1>2. /\ node[n] \in Instance /\ node[n].pc = "idle" /\ userlst[k] \in Records
      /\ UNCHANGED <<userlst, nu, names, users, changed>>
  BY <1>1 DEF IInv, TypeOK, At, Edit
<1>3. nd \in Instance /\ Do(n, nd) /\ node'[n] = nd
  BY <1>1, <1>2 DEF Do, Instance, Steps, IInv, TypeOK
<1>4. nd.pc = "edit" /\ nd.un = k /\ nd.u = userlst[k] /\ nd.list = node[n].list
  BY <1>2 DEF Instance
<1>. HIDE DEF nd
<1>5. LocalOK(n)' /\ CopyOK(n)'
  BY <1>1, <1>2, <1>3, <1>4 DEF LocalOK, CopyOK, AtRecord, Fresh
<1>6. QED
  BY <1>2, <1>3, <1>4, <1>5, MovesOn DEF Transit

LEMMA RestoreKeeps ==
    ASSUME IInv, Careful, Careful', NEW n \in Nodes, Restore(n)
    PROVE  IInv'
<1>. DEFINE nd == [node[n] EXCEPT !.pc = "restore", !.u.inact = FALSE]
<1>1. /\ node[n] \in Instance /\ NodeOK(n) /\ node[n].pc = "edit" /\ node[n].u.inact
      /\ UNCHANGED <<userlst, nu, names, users, changed>>
  BY DEF IInv, TypeOK, At, Restore
<1>2. node[n].un \in Numbers /\ node[n].u \in Records /\ node[n].u = userlst[node[n].un]
      /\ (node[n].un # 0 => node[n].un <= nu)
  BY <1>1 DEF NodeOK, LocalOK, CopyOK, AtRecord, Fresh
<1>3. /\ [node[n].u EXCEPT !.inact = FALSE] \in Records
      /\ [node[n].u EXCEPT !.inact = FALSE].name = node[n].u.name
      /\ ~[node[n].u EXCEPT !.inact = FALSE].inact
  BY <1>2 DEF Records
<1>4. nd \in Instance /\ Do(n, nd) /\ node'[n] = nd
  BY <1>1, <1>3 DEF Do, Instance, Steps, IInv, TypeOK, Restore
<1>5. /\ nd.pc = "restore" /\ nd.un = node[n].un /\ nd.list = node[n].list
      /\ nd.u \in Records /\ nd.u.name = node[n].u.name /\ ~nd.u.inact
  BY <1>1, <1>3 DEF Instance
<1>. HIDE DEF nd
<1>6. LocalOK(n)' /\ CopyOK(n)'
  BY <1>1, <1>2, <1>4, <1>5 DEF LocalOK, CopyOK, AtRecord, Fresh
<1>7. QED
  BY <1>1, <1>4, <1>5, <1>6, MovesOn DEF Transit

---------------------------------------------------------------------------
(* Steps that change the index *)

LEMMA GoesAs ==
    ASSUME IInv, NEW n \in Nodes, NEW nd \in Instance, NEW l \in [Slots -> Entries],
           Goes(n, nd, l)
    PROVE  /\ [nd EXCEPT !.list = l] \in Instance
           /\ Do(n, [nd EXCEPT !.list = l])
           /\ node'[n] = [nd EXCEPT !.list = l]
           /\ node'[n].pc = nd.pc /\ node'[n].un = nd.un /\ node'[n].u = nd.u
           /\ node'[n].s = nd.s /\ node'[n].why = nd.why /\ node'[n].list = l
           /\ node'[n].cnt = nd.cnt
           /\ \A m \in Nodes \ {n} : node'[m] = node[m]
<1>1. [nd EXCEPT !.list = l] \in Instance
  BY DEF Instance
<1>2. Do(n, [nd EXCEPT !.list = l])
  BY DEF Goes, Do
<1>3. node'[n] = [nd EXCEPT !.list = l] /\ \A m \in Nodes \ {n} : node'[m] = node[m]
  BY <1>2 DEF Do, IInv, TypeOK
<1>. DEFINE e == [nd EXCEPT !.list = l]
<1>4. e.pc = nd.pc /\ e.un = nd.un /\ e.u = nd.u /\ e.s = nd.s /\ e.why = nd.why
      /\ e.list = l /\ e.cnt = nd.cnt
  BY DEF Instance
<1>5. QED
  BY <1>1, <1>2, <1>3, <1>4

\* Who is in transit after a step of n.
LEMMA InTransitNext ==
    ASSUME NEW n \in Nodes, \A m \in Nodes \ {n} : node'[m] = node[m]
    PROVE  \A k : k \in InTransit' <=>
                     \/ node'[n].pc \in Transit /\ node'[n].un = k
                     \/ \E m \in Nodes \ {n} : node[m].pc \in Transit /\ node[m].un = k
<1>1. \A k : k \in InTransit' <=> \E m \in Nodes : node'[m].pc \in Transit /\ node'[m].un = k
  BY DEF InTransit, Transit
<1>2. QED
  BY <1>1

\* The index is right after a step of n about user k, if it is as to k.
LEMMA IndexStep ==
    ASSUME IInv, Careful, NEW n \in Nodes, NEW k \in Numbers, node[n].un \in {0, k},
           \A m \in Nodes \ {n} : /\ node'[m] = node[m]
                                  /\ node[m].pc \in Transit => node[m].un # k,
           \A j \in Numbers \ {k} : userlst'[j] = userlst[j] /\ (j <= nu' <=> j <= nu),
           \A s \in Names, j \in Numbers \ {k} : Has(s, j)' <=> Has(s, j),
           node'[n].un = k, TransitOK(n)',
           node'[n].pc \notin Transit =>
               \A s \in Names : Has(s, k)' <=> IsUser(k)' /\ userlst'[k].name = s
    PROVE  IndexOK'
<1>1. ASSUME NEW j \in Numbers, j # k
      PROVE  j \in InTransit' <=> j \in InTransit
  <2>1. j \in InTransit' <=> \E m \in Nodes \ {n} : node[m].pc \in Transit /\ node[m].un = j
    BY <1>1, InTransitNext
  <2>2. node[n].un # j
    BY <1>1, NumbersType
  <2>3. j \in InTransit <=> \E m \in Nodes : node[m].pc \in Transit /\ node[m].un = j
    BY InTransitIs
  <2>4. QED
    BY <2>1, <2>2, <2>3
<1>2. ASSUME NEW j \in Numbers, j \notin InTransit', NEW s \in Names
      PROVE  Has(s, j)' <=> IsUser(j)' /\ userlst'[j].name = s
  <2>1. CASE j = k
    <3>1. k \in InTransit' <=>
             \/ node'[n].pc \in Transit /\ node'[n].un = k
             \/ \E m \in Nodes \ {n} : node[m].pc \in Transit /\ node[m].un = k
      BY InTransitNext
    <3>2. node'[n].pc \notin Transit
      BY <1>2, <2>1, <3>1
    <3>3. QED
      BY <2>1, <3>2
  <2>2. CASE j # k
    <3>1. Has(s, j) <=> IsUser(j) /\ userlst[j].name = s
      BY <1>1, <1>2, <2>2 DEF IInv, IndexOK
    <3>2. IsUser(j)' <=> IsUser(j)
      BY <2>2 DEF IsUser
    <3>3. QED
      BY <2>2, <3>1, <3>2
  <2>3. QED
    BY <2>1, <2>2
<1>3. ASSUME NEW m \in Nodes PROVE TransitOK(m)'
  <2>1. CASE m # n /\ node[m].pc \in Transit
    <3>1. node'[m] = node[m] /\ node[m].un # k /\ TransitOK(m)
      BY <2>1 DEF IInv, IndexOK
    <3>2. QED
      BY <3>1 DEF TransitOK
  <2>2. CASE m # n /\ node[m].pc \notin Transit
    <3>1. node'[m] = node[m]
      BY <2>2
    <3>2. QED
      BY <2>2, <3>1 DEF TransitOK, Transit
  <2>3. QED
    BY <2>1, <2>2
<1>4. QED
  BY <1>2, <1>3 DEF IndexOK

\* isr, when its user is not in the index and its name is free.
LEMMA IsrKeeps ==
    ASSUME IInv, Careful, Careful', NEW n \in Nodes, NEW s \in Names, NEW nd \in Instance,
           Isr(n, s, nd), UNCHANGED <<userlst, nu>>,
           node[n].pc \in {"enter", "relist", "restore"}, nd.pc \in {"joined", "rewrite"},
           node[n].pc = "restore" => nd.pc = "rewrite",
           nd.un = node[n].un, nd.un \in Numbers, ~IsListed(s), s \in NamesAtHand(n),
           \A t \in Names : ~Has(t, nd.un),
           nd.pc = "joined" => IsUser(nd.un) /\ userlst[nd.un].name = s,
           nd.pc = "rewrite" => nd.u.name = s,
           \A l \in [Slots -> Entries] : Goes(n, nd, l) => LocalOK(n)' /\ CopyOK(n)'
    PROVE  IInv'
<1>. DEFINE k == nd.un
<1>1. /\ TypeOK /\ Filled /\ Sorted /\ IndexOK /\ NodeOK(n) /\ ListOK(n) /\ ~At(n, "load")
      /\ k # 0 /\ node[n].un # 0
  BY NumbersType DEF IInv, NodeOK, At
<1>2. /\ users < MaxUsers /\ users' = users + 1 /\ changed' = Nodes \ {n}
      /\ names' \in [Slots -> Entries] /\ Filled' /\ Sorted'
      /\ \A t, j : Has(t, j)' <=> Has(t, j) \/ (t = s /\ j = k)
      /\ \A t : IsListed(t)' <=> IsListed(t) \/ t = s
      /\ \E l \in [Slots -> Entries] :
            (\A i \in Slots : i < users' => l[i] = names'[i]) /\ Goes(n, nd, l)
  BY <1>1, IsrAdds
<1>3. PICK l \in [Slots -> Entries] :
         (\A i \in Slots : i < users' => l[i] = names'[i]) /\ Goes(n, nd, l)
  BY <1>2
<1>. DEFINE e == [nd EXCEPT !.list = l]
<1>4. /\ e \in Instance /\ Do(n, e)
      /\ node'[n].pc = nd.pc /\ node'[n].un = k /\ node'[n].u = nd.u /\ node'[n].list = l
      /\ \A m \in Nodes \ {n} : /\ node'[m] = node[m]
                                /\ node[m].pc \in Transit => node[m].un # k
  BY <1>1, <1>3, GoesAs, NumbersApart
<1>5. LocalOK(n)' /\ CopyOK(n)'
  BY <1>3
<1>. HIDE DEF e, k
<1>6. IndexOK'
  <2>1. TransitOK(n)'
    BY <1>2, <1>4 DEF TransitOK, k
  <2>2. node'[n].pc \notin Transit =>
           \A t \in Names : Has(t, k)' <=> IsUser(k)' /\ userlst'[k].name = t
    BY <1>2, <1>4 DEF Transit, IsUser, k
  <2>3. k \in Numbers /\ node[n].un \in {0, k}
    BY DEF k
  <2>4. \A t \in Names, j \in Numbers \ {k} : Has(t, j)' <=> Has(t, j)
    BY <1>2
  <2>5. QED
    BY <1>4, <2>1, <2>2, <2>3, <2>4, IndexStep
<1>7. NodeOK(n)'
  <2>1. ListOK(n)' /\ LookOK(n)' /\ FreeOK(n)'
    BY <1>2, <1>3, <1>4 DEF ListOK, LookOK, FreeOK, Same, At
  <2>2. QED
    BY <1>5, <2>1 DEF NodeOK
<1>8. InTransit # {} \/ InTransit' # {}
  BY <1>4, InTransitIs, InTransitNext DEF Transit
<1>9. users' \in 0 .. MaxUsers
  BY <1>1, <1>2, NamesType
<1>10. nu \in Nat /\ nu' >= nu
  BY <1>1, NumbersType DEF TypeOK
<1>11. QED
  BY <1>1, <1>2, <1>4, <1>6, <1>7, <1>8, <1>9, <1>10, StepKeeps DEF TypeOK

LEMMA EnterKeeps ==
    ASSUME IInv, Careful, Careful', NEW n \in Nodes, Enter(n)
    PROVE  IInv'
<1>. DEFINE nd == [node[n] EXCEPT !.pc = "joined", !.s = NoName, !.why = "logon"]
            s == node[n].u.name
            k == node[n].un
<1>1. /\ node[n] \in Instance /\ NodeOK(n) /\ node[n].pc = "enter" /\ TransitOK(n)
      /\ UNCHANGED <<userlst, nu>> /\ Isr(n, s, nd)
  BY DEF IInv, TypeOK, IndexOK, At, Enter
<1>2. /\ node[n].u \in Records /\ k \in Numbers /\ k # 0 /\ k <= nu
      /\ node[n].u = userlst[k] /\ ~node[n].u.inact /\ node[n].s = s /\ s \in Names
      /\ node[n].why = "newuser" /\ ~IsListed(s)
  BY <1>1, NumbersType DEF NodeOK, LocalOK, CopyOK, FreeOK, AtRecord, Fresh
<1>3. nd \in Instance
  BY <1>1 DEF Instance, Steps
<1>4. nd.pc = "joined" /\ nd.un = k /\ nd.u = node[n].u
  BY <1>1 DEF Instance
<1>5. s \in NamesAtHand(n)
  BY <1>2, UsersAssumption DEF NamesAtHand, NoName
<1>6. \A t \in Names : ~Has(t, k)
  BY <1>1, <1>2 DEF TransitOK
<1>7. IsUser(k) /\ userlst[k].name = s
  BY <1>2 DEF IsUser
<1>. HIDE DEF nd, s
<1>8. ASSUME NEW l \in [Slots -> Entries], Goes(n, nd, l) PROVE LocalOK(n)' /\ CopyOK(n)'
  <2>1. node'[n].pc = "joined" /\ node'[n].un = k /\ node'[n].u = node[n].u
    BY <1>3, <1>4, <1>8, GoesAs
  <2>2. QED
    BY <1>1, <1>2, <2>1 DEF LocalOK, CopyOK, AtRecord, Fresh
<1>. HIDE DEF k
<1>9. QED
  BY <1>1, <1>2, <1>3, <1>4, <1>5, <1>6, <1>7, <1>8, IsrKeeps DEF k

LEMMA RelistKeeps ==
    ASSUME IInv, Careful, Careful', NEW n \in Nodes, Relist(n)
    PROVE  IInv'
<1>. DEFINE s == node[n].s
            nd == [node[n] EXCEPT !.pc = "rewrite", !.u.name = s]
            k == node[n].un
<1>1. /\ node[n] \in Instance /\ NodeOK(n) /\ node[n].pc = "relist" /\ TransitOK(n)
      /\ UNCHANGED <<userlst, nu>> /\ Isr(n, s, nd)
  BY DEF IInv, TypeOK, IndexOK, At, Relist
<1>2. /\ node[n].u \in Records /\ k \in Numbers /\ k # 0 /\ k <= nu
      /\ ~node[n].u.inact /\ s \in Names
      /\ node[n].why = "uedit" /\ ~IsListed(s)
  BY <1>1, NumbersType DEF NodeOK, LocalOK, CopyOK, FreeOK, AtRecord
<1>3. /\ [node[n].u EXCEPT !.name = s] \in Records
      /\ [node[n].u EXCEPT !.name = s].name = s
      /\ ~[node[n].u EXCEPT !.name = s].inact
  BY <1>2 DEF Records
<1>4. nd \in Instance
  BY <1>1, <1>3 DEF Instance, Steps
<1>5. nd.pc = "rewrite" /\ nd.un = k /\ nd.u \in Records /\ nd.u.name = s /\ ~nd.u.inact
  BY <1>1, <1>3 DEF Instance
<1>6. s \in NamesAtHand(n)
  BY <1>2, UsersAssumption DEF NamesAtHand, NoName
<1>7. \A t \in Names : ~Has(t, k)
  BY <1>1, <1>2 DEF TransitOK
<1>. HIDE DEF nd, s
<1>8. ASSUME NEW l \in [Slots -> Entries], Goes(n, nd, l) PROVE LocalOK(n)' /\ CopyOK(n)'
  <2>1. node'[n].pc = "rewrite" /\ node'[n].un = k /\ node'[n].u = nd.u
    BY <1>4, <1>5, <1>8, GoesAs
  <2>2. QED
    BY <1>1, <1>2, <1>5, <2>1 DEF LocalOK, CopyOK, AtRecord, Fresh
<1>. HIDE DEF k
<1>9. QED
  BY <1>1, <1>2, <1>4, <1>5, <1>6, <1>7, <1>8, IsrKeeps DEF k

LEMMA RestoreNameKeeps ==
    ASSUME IInv, Careful, Careful', NEW n \in Nodes, RestoreName(n)
    PROVE  IInv'
<1>. DEFINE s == node[n].u.name
            nd == [node[n] EXCEPT !.pc = "rewrite"]
            k == node[n].un
<1>1. /\ node[n] \in Instance /\ NodeOK(n) /\ node[n].pc = "restore" /\ At(n, "restore")
      /\ UNCHANGED <<userlst, nu>> /\ Isr(n, s, nd)
  BY DEF IInv, TypeOK, At, RestoreName
<1>2. /\ node[n].u \in Records /\ k \in Numbers /\ k # 0 /\ k <= nu
      /\ ~node[n].u.inact /\ s \in Names /\ userlst[k].inact
  BY <1>1, NumbersType DEF NodeOK, LocalOK, CopyOK, AtRecord, Records
<1>3. ~IsListed(s)
  BY <1>1 DEF Careful
<1>4. nd \in Instance
  BY <1>1 DEF Instance, Steps
<1>5. nd.pc = "rewrite" /\ nd.un = k /\ nd.u = node[n].u
  BY <1>1 DEF Instance
<1>6. s \in NamesAtHand(n)
  BY <1>1 DEF NamesAtHand
<1>7. \A t \in Names : ~Has(t, k)
  BY <1>1, <1>2, IsIn DEF IInv, Transit, IsUser
<1>. HIDE DEF nd, s
<1>8. ASSUME NEW l \in [Slots -> Entries], Goes(n, nd, l) PROVE LocalOK(n)' /\ CopyOK(n)'
  <2>1. node'[n].pc = "rewrite" /\ node'[n].un = k /\ node'[n].u = node[n].u
    BY <1>4, <1>5, <1>8, GoesAs
  <2>2. QED
    BY <1>1, <1>2, <2>1 DEF LocalOK, CopyOK, AtRecord, Fresh
<1>9. nd.u.name = s
  BY <1>5 DEF s
<1>. HIDE DEF k
<1>10. QED
  BY <1>1, <1>2, <1>3, <1>4, <1>5, <1>6, <1>7, <1>8, <1>9, IsrKeeps DEF k

\* dsr, for a user who is in the index.
LEMMA DsrKeeps ==
    ASSUME IInv, Careful, Careful', NEW n \in Nodes, NEW s \in Names, NEW nd \in Instance,
           Dsr(n, s, nd), UNCHANGED <<userlst, nu>>,
           node[n].pc \in {"delist", "unlist"}, nd.pc \in {"delete", "relist"},
           nd.un = node[n].un, nd.un \in Numbers, IsUser(nd.un), userlst[nd.un].name = s,
           nd.pc = "relist" => ~IsListed(nd.s) /\ nd.u.name = s,
           \A l \in [Slots -> Entries] : Goes(n, nd, l) => LocalOK(n)' /\ CopyOK(n)'
    PROVE  IInv'
<1>. DEFINE k == nd.un
<1>1. /\ TypeOK /\ Filled /\ Sorted /\ IndexOK /\ NodeOK(n) /\ ListOK(n) /\ ~At(n, "load")
      /\ k # 0 /\ node[n].un # 0
  BY NumbersType DEF IInv, NodeOK, At
<1>2. \A t \in Names : Has(t, k) <=> t = s
  BY <1>1, IsIn DEF Transit
<1>3. IsListed(s)
  BY <1>2, HasTypes, <1>1
<1>4. /\ users' \in Nat /\ users' <= MaxUsers /\ changed' = Nodes \ {n}
      /\ names' \in [Slots -> Entries] /\ Filled' /\ Sorted'
      /\ \A t, j : Has(t, j)' <=> Has(t, j) /\ t # s
      /\ \A t : IsListed(t)' <=> IsListed(t) /\ t # s
      /\ \E l \in [Slots -> Entries] :
            (\A i \in Slots : i < users' => l[i] = names'[i]) /\ Goes(n, nd, l)
  BY <1>1, <1>3, DsrRemoves
<1>5. PICK l \in [Slots -> Entries] :
         (\A i \in Slots : i < users' => l[i] = names'[i]) /\ Goes(n, nd, l)
  BY <1>4
<1>. DEFINE e == [nd EXCEPT !.list = l]
<1>6. /\ e \in Instance /\ Do(n, e)
      /\ node'[n].pc = nd.pc /\ node'[n].un = k /\ node'[n].u = nd.u /\ node'[n].list = l
      /\ node'[n].s = nd.s
      /\ \A m \in Nodes \ {n} : /\ node'[m] = node[m]
                                /\ node[m].pc \in Transit => node[m].un # k
  BY <1>1, <1>5, GoesAs, NumbersApart
<1>7. LocalOK(n)' /\ CopyOK(n)'
  BY <1>5
<1>. HIDE DEF e, k
<1>8. IndexOK'
  <2>1. TransitOK(n)'
    BY <1>2, <1>4, <1>6 DEF TransitOK
  <2>2. node'[n].pc \in Transit
    BY <1>6 DEF Transit
  <2>3. ASSUME NEW t \in Names, NEW j \in Numbers \ {k} PROVE Has(t, j)' <=> Has(t, j)
    <3>1. Has(s, k)
      BY <1>2
    <3>2. ~Has(s, j)
      BY <1>1, <3>1, NameHasOneUser
    <3>3. QED
      BY <1>4, <3>2
  <2>4. k \in Numbers /\ node[n].un \in {0, k}
    BY DEF k
  <2>5. QED
    BY <1>6, <2>1, <2>2, <2>3, <2>4, IndexStep
<1>9. NodeOK(n)'
  <2>1. ListOK(n)' /\ LookOK(n)'
    BY <1>4, <1>5, <1>6 DEF ListOK, LookOK, Same, At
  <2>2. FreeOK(n)'
    <3>1. node'[n].pc = "relist" => ~IsListed(nd.s)' /\ ~IsListed(nd.u.name)'
      BY <1>4, <1>6
    <3>2. QED
      BY <1>6, <3>1 DEF FreeOK, IsListed, At
  <2>3. QED
    BY <1>7, <2>1, <2>2 DEF NodeOK
<1>10. InTransit' # {}
  BY <1>6, InTransitNext DEF Transit
<1>11. users' \in 0 .. MaxUsers
  BY <1>1, <1>4, NamesType
<1>12. nu \in Nat /\ nu' >= nu
  BY <1>1, NumbersType DEF TypeOK
<1>13. QED
  BY <1>1, <1>4, <1>6, <1>8, <1>9, <1>10, <1>11, <1>12, StepKeeps DEF TypeOK

LEMMA DelistKeeps ==
    ASSUME IInv, Careful, Careful', NEW n \in Nodes, Delist(n)
    PROVE  IInv'
<1>. DEFINE nd == [node[n] EXCEPT !.pc = "delete", !.u.inact = TRUE]
            s == node[n].u.name
            k == node[n].un
<1>1. /\ node[n] \in Instance /\ NodeOK(n) /\ node[n].pc = "delist"
      /\ UNCHANGED <<userlst, nu>> /\ Dsr(n, s, nd)
  BY DEF IInv, TypeOK, At, Delist
<1>2. /\ node[n].u \in Records /\ k \in Numbers /\ k # 0 /\ k <= nu
      /\ node[n].u = userlst[k] /\ ~node[n].u.inact /\ s \in Names
  BY <1>1, NumbersType DEF NodeOK, LocalOK, CopyOK, AtRecord, Fresh, Records
<1>3. /\ [node[n].u EXCEPT !.inact = TRUE] \in Records
      /\ [node[n].u EXCEPT !.inact = TRUE].inact
  BY <1>2 DEF Records
<1>4. nd \in Instance
  BY <1>1, <1>3 DEF Instance, Steps
<1>5. nd.pc = "delete" /\ nd.un = k /\ nd.u \in Records /\ nd.u.inact
  BY <1>1, <1>3 DEF Instance
<1>6. IsUser(k) /\ userlst[k].name = s
  BY <1>2 DEF IsUser
<1>. HIDE DEF nd, s
<1>7. ASSUME NEW l \in [Slots -> Entries], Goes(n, nd, l) PROVE LocalOK(n)' /\ CopyOK(n)'
  <2>1. node'[n].pc = "delete" /\ node'[n].un = k /\ node'[n].u = nd.u
    BY <1>4, <1>5, <1>7, GoesAs
  <2>2. QED
    BY <1>1, <1>2, <1>5, <2>1 DEF LocalOK, CopyOK, AtRecord, Fresh
<1>. HIDE DEF k
<1>8. QED
  BY <1>1, <1>2, <1>4, <1>5, <1>6, <1>7, DsrKeeps DEF k

LEMMA UnlistKeeps ==
    ASSUME IInv, Careful, Careful', NEW n \in Nodes, Unlist(n)
    PROVE  IInv'
<1>. DEFINE nd == [node[n] EXCEPT !.pc = "relist"]
            s == node[n].u.name
            k == node[n].un
<1>1. /\ node[n] \in Instance /\ NodeOK(n) /\ node[n].pc = "unlist" /\ At(n, "unlist")
      /\ UNCHANGED <<userlst, nu>> /\ Dsr(n, s, nd)
  BY DEF IInv, TypeOK, At, Unlist
<1>2. /\ node[n].u \in Records /\ k \in Numbers /\ k # 0 /\ k <= nu
      /\ node[n].u = userlst[k] /\ ~node[n].u.inact /\ s \in Names
      /\ node[n].s \in Names /\ node[n].why = "uedit" /\ ~IsListed(node[n].s)
  BY <1>1, NumbersType DEF NodeOK, LocalOK, CopyOK, FreeOK, AtRecord, Fresh, Records, Careful
<1>3. nd \in Instance
  BY <1>1 DEF Instance, Steps
<1>4. /\ nd.pc = "relist" /\ nd.un = k /\ nd.u = node[n].u /\ nd.s = node[n].s
      /\ nd.why = node[n].why
  BY <1>1 DEF Instance
<1>5. IsUser(k) /\ userlst[k].name = s
  BY <1>2 DEF IsUser
<1>6. nd.u.name = s
  BY <1>4
<1>. HIDE DEF nd, s
<1>7. ASSUME NEW l \in [Slots -> Entries], Goes(n, nd, l) PROVE LocalOK(n)' /\ CopyOK(n)'
  <2>1. /\ node'[n].pc = "relist" /\ node'[n].un = k /\ node'[n].u = node[n].u
        /\ node'[n].s = node[n].s /\ node'[n].why = node[n].why
    BY <1>3, <1>4, <1>7, GoesAs
  <2>2. QED
    BY <1>1, <1>2, <2>1 DEF LocalOK, CopyOK, AtRecord, Fresh
<1>. HIDE DEF k
<1>8. QED
  BY <1>1, <1>2, <1>3, <1>4, <1>5, <1>6, <1>7, DsrKeeps DEF k

---------------------------------------------------------------------------
(* Steps that change a record *)

LEMMA WriteUserType ==
    ASSUME TypeOK, NEW k \in Numbers, k <= nu + 1, NEW u \in Records, WriteUser(k, u)
    PROVE  /\ userlst' \in [Numbers -> Records \union {NoRecord}]
           /\ nu' \in Numbers /\ nu' >= nu /\ k <= nu' /\ userlst'[k] = u
           /\ \A j \in Numbers : userlst'[j] \in Records <=> j <= nu'
           /\ \A j \in Numbers \ {k} : userlst'[j] = userlst[j] /\ (j <= nu' <=> j <= nu)
<1>1. nu \in Nat /\ k \in Nat /\ \A j \in Numbers : j \in Nat
  BY NumbersType DEF TypeOK
<1>2. nu' = (IF k > nu THEN k ELSE nu) /\ userlst' = [userlst EXCEPT ![k] = u]
  BY DEF WriteUser
<1>3. nu' \in Numbers /\ nu' >= nu /\ k <= nu'
  BY <1>1, <1>2 DEF TypeOK
<1>4. \A j \in Numbers \ {k} : j <= nu' <=> j <= nu
  BY <1>1, <1>2
<1>5. /\ userlst' \in [Numbers -> Records \union {NoRecord}]
      /\ userlst'[k] = u /\ \A j \in Numbers \ {k} : userlst'[j] = userlst[j]
  BY <1>2 DEF TypeOK
<1>6. \A j \in Numbers : userlst'[j] \in Records <=> j <= nu'
  BY <1>3, <1>4, <1>5 DEF TypeOK
<1>7. QED
  BY <1>3, <1>4, <1>5, <1>6

\* The record of a user whom n alone has at hand.
LEMMA RecordStep ==
    ASSUME IInv, Careful, Careful', NEW n \in Nodes, NEW k \in Numbers, NEW u \in Records,
           k <= nu + 1, WriteUser(k, u), UNCHANGED <<names, users>>,
           changed' \in {changed, changed \ {n}},
           NEW nd \in Instance, Do(n, nd), node[n].un \in {0, k}, nd.un = k, nd.pc # "found",
           NodeOK(n)', TransitOK(n)',
           nd.pc \notin Transit => \A s \in Names : Has(s, k) <=> ~u.inact /\ u.name = s
    PROVE  IInv'
<1>1. TypeOK /\ Filled /\ Sorted /\ k # 0
  BY NumbersType DEF IInv
<1>2. /\ userlst' \in [Numbers -> Records \union {NoRecord}]
      /\ nu' \in Numbers /\ nu' >= nu /\ k <= nu' /\ userlst'[k] = u
      /\ \A j \in Numbers : userlst'[j] \in Records <=> j <= nu'
      /\ \A j \in Numbers \ {k} : userlst'[j] = userlst[j] /\ (j <= nu' <=> j <= nu)
  BY <1>1, WriteUserType
<1>3. node'[n] = nd /\ \A m \in Nodes \ {n} : node'[m] = node[m]
  BY <1>1 DEF Do, TypeOK
<1>4. \A m \in Nodes \ {n} : node[m].pc \in Transit => node[m].un # k
  <2>1. ASSUME NEW m \in Nodes \ {n}, node[m].pc \in Transit, node[m].un = k PROVE FALSE
    <3>1. k \in AtHand(n)' /\ k \in AtHand(m)'
      BY <1>1, <1>3, <2>1 DEF AtHand, At, Transit
    <3>2. QED
      BY <3>1 DEF Careful
  <2>2. QED
    BY <2>1
<1>5. \A s, j : Has(s, j)' <=> Has(s, j)
  BY DEF Has
<1>6. IndexOK'
  <2>1. node'[n].pc \notin Transit =>
           \A s \in Names : Has(s, k)' <=> IsUser(k)' /\ userlst'[k].name = s
    BY <1>2, <1>3, <1>5 DEF IsUser
  <2>2. QED
    BY <1>2, <1>3, <1>4, <1>5, <2>1, IndexStep
<1>7. Filled' /\ Sorted'
  BY <1>1 DEF Filled, Sorted
<1>8. \A s \in Names : IsListed(s)' => IsListed(s)
  BY DEF IsListed
<1>9. \A j \in Numbers : userlst'[j] = userlst[j] \/ j \in AtHand(n) \/ j \in AtHand(n)'
  BY <1>1, <1>2, <1>3 DEF AtHand, At
<1>10. QED
  BY <1>1, <1>2, <1>6, <1>7, <1>8, <1>9, StepKeeps DEF TypeOK

LEMMA DeleteKeeps ==
    ASSUME IInv, Careful, Careful', NEW n \in Nodes, Delete(n)
    PROVE  IInv'
<1>. DEFINE nd == [node[n] EXCEPT !.pc = "forget"]
            k == node[n].un
            u == node[n].u
<1>1. /\ node[n] \in Instance /\ NodeOK(n) /\ node[n].pc = "delete" /\ TransitOK(n)
      /\ UNCHANGED <<names, users, changed>> /\ Do(n, nd) /\ WriteUser(k, u)
  BY DEF IInv, TypeOK, IndexOK, At, Delete
<1>2. /\ u \in Records /\ k \in Numbers /\ k # 0 /\ k <= nu /\ u.inact
  BY <1>1, NumbersType DEF NodeOK, LocalOK, CopyOK, AtRecord
<1>3. nd \in Instance /\ node'[n] = nd
  BY <1>1 DEF Instance, Steps, Do, IInv, TypeOK
<1>4. nd.pc = "forget" /\ nd.un = k /\ nd.u = u /\ nd.list = node[n].list
  BY <1>1 DEF Instance
<1>5. nu \in Nat /\ k \in Nat /\ k <= nu + 1
  <2>1. nu \in Nat /\ k \in Nat
    BY <1>2, NumbersType DEF IInv, TypeOK
  <2>2. QED
    BY <1>2, <2>1
<1>6. userlst'[k] = u /\ k <= nu'
  BY <1>1, <1>2, <1>5, WriteUserType DEF IInv
<1>7. \A t \in Names : ~Has(t, k)
  BY <1>1, <1>2 DEF TransitOK
<1>. HIDE DEF nd, k, u
<1>8. LocalOK(n)' /\ CopyOK(n)' /\ TransitOK(n)'
  BY <1>2, <1>3, <1>4, <1>6 DEF LocalOK, CopyOK, TransitOK, AtRecord, Fresh
<1>9. ListOK(n)' /\ LookOK(n)' /\ FreeOK(n)'
  BY <1>1, <1>3, <1>4, SameStays DEF NodeOK, ListOK, LookOK, FreeOK, At
<1>10. NodeOK(n)'
  BY <1>8, <1>9 DEF NodeOK
<1>11. node[n].un \in {0, k}
  BY DEF k
<1>12. QED
  BY <1>1, <1>2, <1>3, <1>4, <1>5, <1>7, <1>8, <1>10, <1>11, RecordStep

LEMMA RewriteKeeps ==
    ASSUME IInv, Careful, Careful', NEW n \in Nodes, Rewrite(n)
    PROVE  IInv'
<1>. DEFINE nd == Resume(n)
            k == node[n].un
            u == node[n].u
<1>1. /\ node[n] \in Instance /\ NodeOK(n) /\ node[n].pc = "rewrite" /\ TransitOK(n)
      /\ UNCHANGED <<names, users, changed>> /\ Do(n, nd) /\ WriteUser(k, u)
      /\ 0 \in 0 .. MaxUsers
  BY UsersAssumption DEF IInv, TypeOK, IndexOK, At, Rewrite
<1>2. /\ u \in Records /\ k \in Numbers /\ k # 0 /\ k <= nu /\ ~u.inact
  BY <1>1, NumbersType DEF NodeOK, LocalOK, CopyOK, AtRecord
<1>3. nd \in Instance /\ node'[n] = nd
  BY <1>1 DEF Resume, Instance, Steps, Do, IInv, TypeOK
<1>4. nd.pc = "edit" /\ nd.un = k /\ nd.u = u /\ nd.list = node[n].list
  BY <1>1 DEF Instance, Resume
<1>5. nu \in Nat /\ k \in Nat /\ k <= nu + 1
  <2>1. nu \in Nat /\ k \in Nat
    BY <1>2, NumbersType DEF IInv, TypeOK
  <2>2. QED
    BY <1>2, <2>1
<1>6. userlst'[k] = u /\ k <= nu'
  BY <1>1, <1>2, <1>5, WriteUserType DEF IInv
<1>7. \A t \in Names : Has(t, k) <=> ~u.inact /\ u.name = t
  BY <1>1, <1>2 DEF TransitOK
<1>. HIDE DEF nd, k, u
<1>8. LocalOK(n)' /\ CopyOK(n)' /\ TransitOK(n)'
  BY <1>2, <1>3, <1>4, <1>6 DEF LocalOK, CopyOK, TransitOK, AtRecord, Fresh
<1>9. ListOK(n)' /\ LookOK(n)' /\ FreeOK(n)'
  BY <1>1, <1>3, <1>4, SameStays DEF NodeOK, ListOK, LookOK, FreeOK, At
<1>10. NodeOK(n)'
  BY <1>8, <1>9 DEF NodeOK
<1>11. node[n].un \in {0, k}
  BY DEF k
<1>12. QED
  BY <1>1, <1>2, <1>3, <1>4, <1>5, <1>7, <1>8, <1>10, <1>11, RecordStep

\* The number of a new user is nobody's.
LEMMA NewNumberIsNew ==
    ASSUME TypeOK
    PROVE  NewNumber \in Nat \ {0} /\ NewNumber <= nu + 1 /\ ~IsUser(NewNumber)
<1>1. nu \in Nat \ {0}
  BY NumbersType DEF TypeOK
<1>2. CASE nu = users \/ Deleted = {}
  BY <1>1, <1>2 DEF NewNumber, IsUser
<1>3. CASE ~ (nu = users \/ Deleted = {})
  <2>1. Deleted \in SUBSET Nat
    BY NumbersType DEF Deleted
  <2>2. \E k \in Deleted : \A j \in Deleted : k <= j
    BY <1>3, <2>1, LeastOf
  <2>3. NewNumber \in Deleted
    BY <1>3, <2>2 DEF NewNumber
  <2>4. NewNumber \in Nat \ {0} /\ NewNumber <= nu /\ userlst[NewNumber].inact
    BY <2>3, NumbersType DEF Deleted
  <2>5. QED
    BY <1>1, <2>4 DEF IsUser
<1>4. QED
  BY <1>2, <1>3

LEMMA FindNewUsernumKeeps ==
    ASSUME IInv, Careful, Careful', NEW n \in Nodes, FindNewUsernum(n)
    PROVE  IInv'
<1>0. PICK k : k = NewNumber
  OBVIOUS
<1>. DEFINE s == node[n].s
            u == [name |-> s, inact |-> FALSE]
            L == Locked(n)
            nd == [node[n] EXCEPT !.pc = "enter", !.un = k, !.u = u]
<1>1. /\ node[n] \in Instance /\ NodeOK(n) /\ node[n].pc = "named" /\ ~At(n, "load")
      /\ UNCHANGED <<names, users>> /\ changed' = changed \ {n}
      /\ node[n].un = 0 /\ s \in Names /\ node[n].why = "newuser" /\ ~IsListed(s)
      /\ TypeOK /\ Filled /\ IndexOK /\ ListOK(n)
  BY DEF IInv, TypeOK, At, FindNewUsernum, NodeOK, LocalOK, FreeOK
<1>2. L \in [Slots -> Entries] /\ \A i \in Slots : i < users => L[i] = names[i]
  BY <1>1, LockedList
<1>3. k \in Nat \ {0} /\ k <= nu + 1 /\ ~IsUser(k)
  BY <1>0, <1>1, NewNumberIsNew
<1>4. CASE Goes(n, Idle(n), L) /\ UNCHANGED <<userlst, nu>>
  <2>. DEFINE e == [Idle(n) EXCEPT !.list = L]
  <2>1. /\ e \in Instance /\ Do(n, e) /\ node'[n] = e
        /\ e.pc = "idle" /\ e.un = 0 /\ e.s = NoName /\ e.list = L
    BY <1>1, <1>2, <1>4, IdleType, GoesAs
  <2>. HIDE DEF e, L
  <2>2. NodeOK(n)'
    <3>1. Same(n)'
      BY <1>1, <1>2, <2>1 DEF Same
    <3>2. QED
      BY <2>1, <3>1, IdleIsOK
  <2>3. QED
    BY <1>1, <1>4, <2>1, <2>2, QuietStep DEF Transit, TypeOK
<1>5. CASE k <= MaxUsers /\ WriteUser(k, u) /\ Goes(n, nd, L)
  <2>1. k \in Numbers /\ k # 0 /\ u \in Records /\ u.name = s /\ ~u.inact
    BY <1>1, <1>3, <1>5, UsersAssumption DEF Numbers, Records
  <2>2. nd \in Instance
    BY <1>1, <2>1 DEF Instance, Steps
  <2>3. nd.pc = "enter" /\ nd.un = k /\ nd.u = u /\ nd.s = s /\ nd.why = "newuser"
    BY <1>1 DEF Instance
  <2>4. userlst'[k] = u /\ k <= nu'
    BY <1>1, <1>3, <1>5, <2>1, WriteUserType
  <2>. HIDE DEF nd, u
  <2>. DEFINE e == [nd EXCEPT !.list = L]
  <2>5. /\ e \in Instance /\ Do(n, e) /\ node'[n] = e /\ node'[n].list = L
        /\ node'[n].pc = "enter" /\ node'[n].un = k /\ node'[n].u = u
        /\ node'[n].s = s /\ node'[n].why = "newuser"
        /\ \A m \in Nodes \ {n} : node'[m] = node[m]
    BY <1>2, <1>5, <2>2, <2>3, GoesAs
  <2>. HIDE DEF e
  <2>6. LocalOK(n)' /\ CopyOK(n)'
    BY <1>1, <2>1, <2>4, <2>5 DEF LocalOK, CopyOK, AtRecord, Fresh
  <2>7. ListOK(n)' /\ LookOK(n)' /\ FreeOK(n)'
    BY <1>1, <1>2, <2>5 DEF ListOK, LookOK, FreeOK, Same, IsListed, At
  <2>8. TransitOK(n)'
    <3>1. k \notin InTransit
      <4>1. ASSUME NEW m \in Nodes, node[m].pc \in Transit, node[m].un = k PROVE FALSE
        <5>1. m # n
          BY <1>1, <2>1, <4>1
        <5>2. k \in AtHand(n)' /\ k \in AtHand(m)'
          BY <2>1, <2>5, <4>1, <5>1 DEF AtHand, At, Transit
        <5>3. QED
          BY <5>1, <5>2 DEF Careful
      <4>2. QED
        BY <4>1, InTransitIs
    <3>2. \A t \in Names : ~Has(t, k)
      BY <1>1, <1>3, <2>1, <3>1 DEF IndexOK
    <3>3. \A t \in Names : ~Has(t, k)'
      BY <1>1, <3>2 DEF Has
    <3>4. QED
      BY <2>5, <3>3 DEF TransitOK
  <2>9. NodeOK(n)'
    BY <2>6, <2>7 DEF NodeOK
  <2>10. e.un = k /\ e.pc \in Transit /\ e.pc # "found"
    BY <2>5 DEF Transit
  <2>11. QED
    BY <1>1, <1>3, <1>5, <2>1, <2>5, <2>8, <2>9, <2>10, RecordStep
<1>6. QED
  BY <1>0, <1>4, <1>5 DEF FindNewUsernum

---------------------------------------------------------------------------
(* //resetf *)

LEMMA ResetFilesKeeps ==
    ASSUME IInv, Careful, Careful', NEW n \in Nodes, ResetFiles(n)
    PROVE  IInv'
<1>. DEFINE L == Locked(n)
            e == [Idle(n) EXCEPT !.list = L]
<1>1. /\ TypeOK /\ Filled /\ NodeOK(n) /\ ListOK(n) /\ node[n].pc = "reset"
      /\ ~At(n, "load") /\ UNCHANGED <<userlst, nu>> /\ changed' = changed \ {n}
      /\ names' = [i \in Slots |-> IF i < users THEN L[i] ELSE NoEntry]
      /\ users' = node[n].cnt /\ Goes(n, Idle(n), L)
  BY DEF IInv, NodeOK, At, ResetFiles
<1>2. L \in [Slots -> Entries] /\ \A i \in Slots : i < users => L[i] = names[i]
  BY <1>1, LockedList
<1>3. users' = users
  BY <1>1 DEF ListOK, At
<1>4. names' \in [Slots -> Entries] /\ \A i \in Slots : i < users => names'[i] = names[i]
  BY <1>1, <1>2 DEF Entries
<1>5. /\ e \in Instance /\ Do(n, e) /\ node'[n] = e
      /\ e.pc = "idle" /\ e.un = 0 /\ e.s = NoName /\ e.list = L
  BY <1>1, <1>2, IdleType, GoesAs
<1>6. NodeOK(n)'
  BY <1>2, <1>3, <1>4, <1>5, IdleIsOK DEF Same
<1>. HIDE DEF e
<1>7. QED
  BY <1>1, <1>3, <1>4, <1>5, <1>6, QuietStep DEF Transit

\* While nobody is added or removed, isr1 puts every user where he is in NAMES.LST.
LEMMA PlacesAreNames ==
    ASSUME IInv, InTransit = {}
    PROVE  /\ Cardinality(Living) = users
           /\ \A k \in Living : \E i \in Slots : i < users /\ names[i].number = k
           /\ \A i \in Slots : i < users => /\ names[i].number \in Living
                                            /\ userlst[names[i].number].name = names[i].name
                                            /\ Place(names[i].number) = i
<1>1. /\ TypeOK /\ Filled /\ Sorted /\ IndexOK /\ users \in Nat
      /\ \A i \in Slots : i \in Nat /\ names[i].name \in Nat
      /\ \A i \in Nat : i < users => i \in Slots
  BY NamesType DEF IInv
<1>2. \A k \in Numbers, s \in Names : Has(s, k) <=> IsUser(k) /\ userlst[k].name = s
  BY <1>1 DEF IndexOK
<1>3. ASSUME NEW i \in Slots, i < users
      PROVE  names[i].number \in Living /\ userlst[names[i].number].name = names[i].name
  <2>1. Has(names[i].name, names[i].number)
    BY <1>3 DEF Has
  <2>2. QED
    BY <1>1, <1>2, <2>1, HasTypes DEF Living
<1>4. ASSUME NEW k \in Living PROVE \E i \in Slots : i < users /\ names[i].number = k
  <2>1. k \in Numbers /\ IsUser(k) /\ k <= nu
    BY DEF Living, IsUser
  <2>2. userlst[k].name \in Names
    BY <1>1, <2>1 DEF TypeOK, Records
  <2>3. Has(userlst[k].name, k)
    BY <1>2, <2>1, <2>2
  <2>4. QED
    BY <2>3 DEF Has
<1>5. ASSUME NEW i \in Slots, NEW j \in Slots, i < users, j < users
      PROVE  /\ names[i].name < names[j].name <=> i < j
             /\ names[i].name = names[j].name <=> i = j
             /\ names[i].number = names[j].number => i = j
  <2>1. /\ i < j => names[i].name < names[j].name
        /\ j < i => names[j].name < names[i].name
    BY <1>1, <1>5 DEF Sorted
  <2>2. names[i].number = names[j].number => names[i].name = names[j].name
    BY <1>3, <1>5
  <2>3. QED
    BY <1>1, <2>1, <2>2
<1>6. ASSUME NEW m \in Nat, m <= users, NEW T,
             \A k \in T : \E i \in Slots : i < m /\ names[i].number = k,
             \A i \in Slots : i < m => names[i].number \in T
      PROVE  Cardinality(T) = m
  <2>. DEFINE S == 0 .. m - 1
              f == [i \in S |-> names[i].number]
  <2>1. \A i \in S : i \in Slots /\ i < m /\ i < users
    BY <1>1, <1>6
  <2>2. f \in Injection(S, T)
    BY <1>5, <1>6, <2>1 DEF Injection, IsInjective
  <2>3. f \in Surjection(S, T)
    <3>1. ASSUME NEW k \in T PROVE \E i \in S : f[i] = k
      <4>1. PICK i \in Slots : i < m /\ names[i].number = k
        BY <1>6
      <4>2. i \in S
        BY <1>1, <4>1
      <4>3. QED
        BY <4>1, <4>2
    <3>2. QED
      BY <2>2, <3>1 DEF Injection, Surjection
  <2>4. IsFiniteSet(S) /\ Cardinality(S) = m
    BY FS_Interval
  <2>. HIDE DEF S, f
  <2>5. ExistsBijection(S, T)
    BY <2>2, <2>3 DEF ExistsBijection, Bijection
  <2>6. QED
    BY <2>4, <2>5, FS_Bijection
<1>7. Cardinality(Living) = users
  BY <1>1, <1>3, <1>4, <1>6
<1>8. ASSUME NEW i \in Slots, i < users PROVE Place(names[i].number) = i
  <2>. DEFINE k == names[i].number
              T == {j \in Living : \/ userlst[j].name < userlst[k].name
                                   \/ userlst[j].name = userlst[k].name /\ j > k}
  <2>1. ASSUME NEW j \in T PROVE \E h \in Slots : h < i /\ names[h].number = j
    <3>1. PICK h \in Slots : h < users /\ names[h].number = j
      BY <1>4
    <3>2. userlst[j].name = names[h].name /\ userlst[k].name = names[i].name
      BY <1>3, <1>8, <3>1
    <3>3. CASE names[h].name < names[i].name
      BY <1>5, <1>8, <3>1, <3>3
    <3>4. CASE names[h].name = names[i].name /\ j > k
      <4>1. h = i
        BY <1>5, <1>8, <3>1, <3>4
      <4>2. k \in Nat
        BY <1>3, <1>8, NumbersType DEF Living
      <4>3. QED
        BY <3>1, <3>4, <4>1, <4>2
    <3>5. QED
      BY <2>1, <3>2, <3>3, <3>4
  <2>2. ASSUME NEW h \in Slots, h < i PROVE names[h].number \in T
    <3>1. h < users
      BY <1>1, <1>8, <2>2
    <3>2. names[h].name < names[i].name
      BY <1>5, <1>8, <2>2, <3>1
    <3>3. QED
      BY <1>3, <1>8, <3>1, <3>2
  <2>3. i \in Nat /\ i <= users
    BY <1>1, <1>8
  <2>. HIDE DEF T
  <2>4. Cardinality(T) = i
    BY <1>6, <2>1, <2>2, <2>3
  <2>5. QED
    BY <2>4 DEF Place, T
<1>9. QED
  BY <1>3, <1>4, <1>7, <1>8

LEMMA ScanUsersKeeps ==
    ASSUME IInv, Careful, Careful', NEW n \in Nodes, ScanUsers(n)
    PROVE  IInv'
<1>. DEFINE nd == [node[n] EXCEPT !.pc = "reset", !.cnt = Cardinality(Living)]
            l == [i \in Slots |->
                    IF \E k \in Living : Place(k) = i
                    THEN LET k == CHOOSE j \in Living : Place(j) = i
                         IN  [name |-> userlst[k].name, number |-> k]
                    ELSE node[n].list[i]]
            e == [nd EXCEPT !.list = l]
<1>1. /\ node[n] \in Instance /\ TypeOK /\ NodeOK(n) /\ node[n].pc = "idle" /\ node[n].un = 0
      /\ Goes(n, nd, l)
      /\ UNCHANGED <<userlst, nu, names, users>> /\ changed' = changed \ {n}
  BY DEF IInv, TypeOK, At, ScanUsers, NodeOK, LocalOK
<1>2. At(n, "reset")'
  <2>1. node'[n] = e
    BY <1>1 DEF Goes, TypeOK
  <2>2. e.pc = "reset"
    BY <1>1 DEF Instance
  <2>3. QED
    BY <2>1, <2>2 DEF At
<1>3. InTransit = {}
  <2>1. InTransit' = {}
    BY <1>2 DEF Careful
  <2>2. \A m \in Nodes \ {n} : node'[m] = node[m]
    BY <1>1 DEF Goes, TypeOK
  <2>3. ASSUME NEW k \in InTransit PROVE FALSE
    <3>1. PICK m \in Nodes : node[m].pc \in Transit /\ node[m].un = k
      BY InTransitIs
    <3>2. m # n
      BY <1>1, <3>1 DEF Transit
    <3>3. k \in InTransit'
      BY <2>2, <3>1, <3>2, InTransitNext
    <3>4. QED
      BY <2>1, <3>3
  <2>4. QED
    BY <2>3
<1>4. /\ Cardinality(Living) = users
      /\ \A k \in Living : \E i \in Slots : i < users /\ names[i].number = k
      /\ \A i \in Slots : i < users => /\ names[i].number \in Living
                                       /\ userlst[names[i].number].name = names[i].name
                                       /\ Place(names[i].number) = i
  BY <1>3, PlacesAreNames
<1>5. ASSUME NEW i \in Slots, i < users PROVE l[i] = names[i]
  <2>1. \E k \in Living : Place(k) = i
    BY <1>4, <1>5
  <2>2. PICK k : k = CHOOSE j \in Living : Place(j) = i
    OBVIOUS
  <2>3. k \in Living /\ Place(k) = i
    BY <2>1, <2>2
  <2>4. k = names[i].number
    BY <1>4, <1>5, <2>3
  <2>5. l[i] = [name |-> userlst[k].name, number |-> k]
    BY <2>1, <2>2
  <2>6. names[i] = [name |-> names[i].name, number |-> names[i].number]
    BY <1>1, EntryFields DEF TypeOK
  <2>7. QED
    BY <1>4, <1>5, <2>4, <2>5, <2>6
<1>6. ASSUME NEW i \in Slots, ~(i < users) PROVE l[i] = node[n].list[i]
  BY <1>4, <1>6
<1>7. l \in [Slots -> Entries]
  <2>1. ASSUME NEW i \in Slots PROVE l[i] \in Entries
    <3>1. names[i] \in Entries /\ node[n].list[i] \in Entries
      BY <1>1 DEF TypeOK, Instance
    <3>2. QED
      BY <1>5, <1>6, <3>1
  <2>2. QED
    BY <2>1
<1>8. nd \in Instance /\ nd.pc = "reset" /\ nd.un = 0 /\ nd.cnt = users
  BY <1>1, <1>4 DEF Instance, Steps, TypeOK
<1>. HIDE DEF nd, l
<1>9. /\ e \in Instance /\ Do(n, e) /\ node'[n] = e /\ node'[n].list = l
      /\ node'[n].pc = "reset" /\ node'[n].un = 0 /\ node'[n].cnt = users
  BY <1>1, <1>7, <1>8, GoesAs
<1>. HIDE DEF e
<1>10. NodeOK(n)'
  BY <1>1, <1>5, <1>9
  DEF NodeOK, LocalOK, CopyOK, ListOK, LookOK, FreeOK, Same, At, AtRecord, Fresh
<1>11. QED
  BY <1>1, <1>9, <1>10, QuietStep DEF Transit, TypeOK

---------------------------------------------------------------------------
(* The invariant *)

LEMMA InitInv == Init => IInv
<1>. SUFFICES ASSUME Init PROVE IInv
  OBVIOUS
<1>1. /\ MaxUsers \in Nat \ {0} /\ SysopName \in Names /\ Sysop \in Numbers /\ Sysop = 1
      /\ 0 \in Slots /\ \A i \in Slots : i \in Nat /\ (i < 1 <=> i = 0)
      /\ \A k \in Numbers : k \in Nat /\ (k <= 1 <=> k = Sysop)
  BY UsersAssumption, NumbersType DEF Slots, Numbers, Sysop
<1>2. /\ userlst = [k \in Numbers |-> IF k = Sysop THEN [name |-> SysopName, inact |-> FALSE]
                                               ELSE NoRecord]
      /\ nu = 1 /\ names = OneName /\ users = 1 /\ changed = {}
      /\ \A n \in Nodes : node[n] = [pc |-> "idle", list |-> OneName, cnt |-> 0, s |-> NoName,
                                     why |-> "logon", un |-> 0, u |-> NoRecord]
  BY DEF Init
<1>3. OneName \in [Slots -> Entries]
  <2>1. [name |-> SysopName, number |-> Sysop] \in [name : Names, number : Numbers]
    BY <1>1
  <2>2. QED
    BY <2>1 DEF OneName, Entries
<1>4. /\ names[0].name = SysopName /\ names[0].number = Sysop
      /\ \A i \in Slots : i < users <=> i = 0
  BY <1>1, <1>2 DEF OneName
<1>5. TypeOK
  <2>1. userlst \in [Numbers -> Records \union {NoRecord}]
    BY <1>1, <1>2 DEF Records
  <2>2. \A k \in Numbers : userlst[k] \in Records <=> k <= nu
    BY <1>1, <1>2, NoRecordAssumption DEF Records
  <2>3. node \in [Nodes -> Instance]
    <3>1. 0 \in 0 .. MaxUsers
      BY <1>1
    <3>2. [pc |-> "idle", list |-> OneName, cnt |-> 0, s |-> NoName, why |-> "logon",
           un |-> 0, u |-> NoRecord] \in Instance
      BY <1>3, <3>1 DEF Instance, Steps
    <3>3. QED
      BY <3>2 DEF Init
  <2>4. users \in 0 .. MaxUsers /\ nu \in Numbers
    BY <1>1, <1>2
  <2>5. QED
    BY <1>2, <1>3, <2>1, <2>2, <2>3, <2>4 DEF TypeOK
<1>6. Filled /\ Sorted
  BY <1>1, <1>4 DEF Filled, Sorted
<1>7. IndexOK
  <2>1. \A n \in Nodes : node[n].pc = "idle"
    BY <1>2
  <2>2. \A n \in Nodes : TransitOK(n)
    BY <2>1 DEF TransitOK
  <2>3. ASSUME NEW k \in Numbers, NEW s \in Names
        PROVE Has(s, k) <=> IsUser(k) /\ userlst[k].name = s
    <3>1. Has(s, k) <=> s = SysopName /\ k = Sysop
      BY <1>1, <1>4 DEF Has
    <3>2. IsUser(k) <=> k = Sysop
      BY <1>1, <1>2 DEF IsUser
    <3>3. userlst[Sysop].name = SysopName
      BY <1>1, <1>2
    <3>4. QED
      BY <3>1, <3>2, <3>3
  <2>4. QED
    BY <2>2, <2>3 DEF IndexOK
<1>8. ASSUME NEW n \in Nodes PROVE NodeOK(n)
  <2>1. /\ node[n].pc = "idle" /\ node[n].un = 0 /\ node[n].s = NoName
        /\ node[n].list = names
    BY <1>2
  <2>2. QED
    BY <2>1 DEF NodeOK, LocalOK, CopyOK, ListOK, LookOK, FreeOK, Same, At, AtRecord, Fresh
<1>9. QED
  BY <1>5, <1>6, <1>7, <1>8 DEF IInv

LEMMA Stutters ==
    ASSUME IInv, UNCHANGED vars
    PROVE  IInv'
<1>1. UNCHANGED <<userlst, nu, names, users, changed, node>>
  BY DEF vars
<1>2. TypeOK' /\ Filled' /\ Sorted'
  BY <1>1 DEF IInv, TypeOK, Filled, Sorted
<1>3. \A s, k : Has(s, k)' <=> Has(s, k)
  BY <1>1 DEF Has
<1>4. IndexOK'
  <2>1. \A k : k \in InTransit' <=> k \in InTransit
    BY <1>1 DEF InTransit
  <2>2. \A k : IsUser(k)' <=> IsUser(k)
    BY <1>1 DEF IsUser
  <2>3. ASSUME NEW n \in Nodes PROVE TransitOK(n)'
    BY <1>1, <1>3 DEF IInv, IndexOK, TransitOK
  <2>4. QED
    BY <1>1, <1>3, <2>1, <2>2, <2>3 DEF IInv, IndexOK
<1>5. ASSUME NEW n \in Nodes PROVE NodeOK(n)'
  <2>1. NodeOK(n)
    BY DEF IInv
  <2>2. LocalOK(n)' /\ CopyOK(n)' /\ ListOK(n)'
    BY <1>1, <2>1 DEF NodeOK, LocalOK, CopyOK, ListOK, Same, At, IsUser
  <2>3. LookOK(n)' /\ FreeOK(n)'
    BY <1>1, <2>1 DEF NodeOK, LookOK, FreeOK, At, IsUser, IsListed, Candidates
  <2>4. QED
    BY <2>2, <2>3 DEF NodeOK
<1>6. QED
  BY <1>2, <1>4, <1>5 DEF IInv

LEMMA StepInv ==
    ASSUME IInv, Careful, Careful', [Next]_vars
    PROVE  IInv'
<1>1. CASE UNCHANGED vars
  BY <1>1, Stutters
<1>2. ASSUME NEW n \in Nodes, SaveUser(n) \/ Change(n) PROVE IInv'
  <2>1. /\ node[n].pc \in Fresh /\ WriteUser(node[n].un, node[n].u)
        /\ UNCHANGED <<names, users, changed, node>>
    BY <1>2 DEF SaveUser, Change, At, Fresh
  <2>2. QED
    BY <2>1, FreshWrite, Stutters DEF vars
<1>3. ASSUME NEW n \in Nodes, AskUser(n) \/ AskNew(n) \/ AskName(n) PROVE IInv'
  <2>1. CASE AskUser(n)
    BY <2>1, ReadStatusKeeps DEF AskUser
  <2>2. CASE AskNew(n)
    BY <2>2, ReadStatusKeeps DEF AskNew
  <2>3. CASE AskName(n)
    BY <2>3, ReadStatusKeeps DEF AskName
  <2>4. QED
    BY <1>3, <2>1, <2>2, <2>3
<1>4. ASSUME NEW n \in Nodes,
             Load(n) \/ Look(n) \/ AskNumber(n) \/ ReadUser(n) \/ LogOff(n) \/ Forget(n)
             \/ HangUp(n) \/ Quit(n) \/ Welcome(n)
      PROVE  IInv'
  BY <1>4, LoadKeeps, LookKeeps, AskNumberKeeps, ReadUserKeeps, LogOffKeeps, LeavesKeeps,
     WelcomeKeeps
<1>5. ASSUME NEW n \in Nodes,
             Kill(n) \/ Edit(n) \/ Restore(n) \/ Enter(n) \/ Relist(n) \/ RestoreName(n)
             \/ Delist(n) \/ Unlist(n)
      PROVE  IInv'
  BY <1>5, KillKeeps, EditKeeps, RestoreKeeps, EnterKeeps, RelistKeeps, RestoreNameKeeps,
     DelistKeeps, UnlistKeeps
<1>6. ASSUME NEW n \in Nodes,
             Delete(n) \/ Rewrite(n) \/ FindNewUsernum(n) \/ ScanUsers(n) \/ ResetFiles(n)
      PROVE  IInv'
  BY <1>6, DeleteKeeps, RewriteKeeps, FindNewUsernumKeeps, ScanUsersKeeps, ResetFilesKeeps
<1>7. CASE Next
  BY <1>2, <1>3, <1>4, <1>5, <1>6, <1>7 DEF Next
<1>8. QED
  BY <1>1, <1>7

\* As long as the instances are Careful, the invariant holds.
THEOREM UsersInvariant == Spec /\ []Careful => []IInv
<1>1. Init => IInv
  BY InitInv
<1>2. IInv /\ Careful /\ Careful' /\ [Next]_vars => IInv'
  BY StepInv
<1>3. QED
  BY <1>1, <1>2, PTL DEF Spec

---------------------------------------------------------------------------
(* The properties *)

\* The files and what the instances keep of them are of their types.
THEOREM UsersTypeCorrect == Spec /\ []Careful => []TypeOK
<1>1. IInv => TypeOK
  BY DEF IInv
<1>2. QED
  BY <1>1, UsersInvariant, PTL

\* The index is in the order that bsearch needs, and no name is in it twice,
\* whichever instances insert and remove names (isr, dsr).
THEOREM NamesStayInOrder == Spec /\ []Careful => []NamesInOrder
<1>1. IInv => NamesInOrder
  BY DEF IInv, Sorted, NamesInOrder
<1>2. QED
  BY <1>1, UsersInvariant, PTL

\* Whoever has a record that is not deleted is in the index under his name, and
\* nobody else is, but for those who are being added, deleted or renamed.
THEOREM UsersFoundByName == Spec /\ []Careful => []FoundByName
<1>1. ASSUME IInv PROVE FoundByName
  <2>1. ASSUME NEW i \in Slots, i < users, NEW s, NEW k
        PROVE names[i] = [name |-> s, number |-> k] <=> names[i].name = s /\ names[i].number = k
    <3>1. names[i] = [name |-> names[i].name, number |-> names[i].number]
      BY <1>1, EntryFields DEF IInv, TypeOK
    <3>2. QED
      BY <3>1
  <2>2. ASSUME NEW s, NEW k
        PROVE Has(s, k) <=> \E i \in Slots : i < users /\ names[i] = [name |-> s, number |-> k]
    BY <2>1 DEF Has
  <2>3. QED
    BY <1>1, <2>2 DEF IInv, IndexOK, FoundByName
<1>2. QED
  BY <1>1, UsersInvariant, PTL

\* isr does not write behind the end of smallist: when a name is about to be
\* inserted, some number is in nobody's use.
THEOREM RoomForEachName == Spec /\ []Careful => []RoomForName
<1>1. ASSUME IInv, Careful, NEW n \in Nodes, node[n].pc \in {"enter", "relist", "restore"}
      PROVE  users < MaxUsers
  <2>1. NodeOK(n) /\ node[n].un \in Numbers /\ node[n].un # 0
    BY <1>1, NumbersType DEF IInv, NodeOK, LocalOK, AtRecord
  <2>2. \A s \in Names : ~Has(s, node[n].un)
    <3>1. CASE node[n].pc \in {"enter", "relist"}
      BY <1>1, <2>1, <3>1 DEF IInv, IndexOK, TransitOK
    <3>2. CASE node[n].pc = "restore"
      <4>1. ~IsUser(node[n].un)
        BY <2>1, <3>2 DEF NodeOK, CopyOK, IsUser
      <4>2. QED
        BY <1>1, <2>1, <3>2, <4>1, IsIn DEF IInv, Transit
    <3>3. QED
      BY <1>1, <3>1, <3>2
  <2>3. \A s : ~Has(s, node[n].un)
    BY <1>1, <2>2, HasTypes DEF IInv
  <2>4. QED
    BY <1>1, <2>1, <2>3, RoomForOne DEF IInv
<1>2. IInv => RoomForName
  BY <1>1 DEF RoomForName
<1>3. QED
  BY <1>2, UsersInvariant, PTL

---------------------------------------------------------------------------
(* Directory *)

\* The users of the directory: those in the index, and those between dsr and isr.
Members == Listed \union Renamed

User(s, k) == [name |-> s, number |-> k]

LEMMA RowsAre ==
    ASSUME NEW nm \in [Slots -> Entries], NEW c
    PROVE  \A x : x \in {nm[i] : i \in {j \in Slots : j < c}} <=>
              \E s, k : /\ x = User(s, k)
                        /\ \E i \in Slots : i < c /\ nm[i].name = s /\ nm[i].number = k
<1>1. ASSUME NEW i \in Slots, NEW s, NEW k, nm[i].name = s, nm[i].number = k
      PROVE nm[i] = User(s, k)
  BY <1>1, EntryFields DEF User
<1>2. \A i \in Slots : nm[i] = User(nm[i].name, nm[i].number)
  BY <1>1
<1>3. ASSUME NEW x, x \in {nm[i] : i \in {j \in Slots : j < c}}
      PROVE \E s, k : /\ x = User(s, k)
                      /\ \E i \in Slots : i < c /\ nm[i].name = s /\ nm[i].number = k
  BY <1>2, <1>3
<1>4. ASSUME NEW s, NEW k, NEW i \in Slots, i < c, nm[i].name = s, nm[i].number = k
      PROVE User(s, k) \in {nm[j] : j \in {h \in Slots : h < c}}
  BY <1>1, <1>4
<1>5. QED
  BY <1>3, <1>4

LEMMA ListedAre ==
    ASSUME names \in [Slots -> Entries]
    PROVE  \A x : x \in Listed <=> \E s, k : x = User(s, k) /\ Has(s, k)
BY RowsAre DEF Listed, Has

LEMMA ListedNext ==
    ASSUME names' \in [Slots -> Entries]
    PROVE  \A x : x \in Listed' <=> \E s, k : x = User(s, k) /\ Has(s, k)'
BY RowsAre DEF Listed, Has

LEMMA RenamedAre ==
    \A x : x \in Renamed <=> \E n \in Nodes : /\ node[n].pc = "relist"
                                              /\ x = User(node[n].u.name, node[n].un)
BY DEF Renamed, At, User

LEMMA RenamedNext ==
    ASSUME NEW n \in Nodes, \A m \in Nodes \ {n} : node'[m] = node[m]
    PROVE  \A x : x \in Renamed' <=>
              \/ node'[n].pc = "relist" /\ x = User(node'[n].u.name, node'[n].un)
              \/ \E m \in Nodes \ {n} : /\ node[m].pc = "relist"
                                        /\ x = User(node[m].u.name, node[m].un)
<1>1. \A x : x \in Renamed' <=> \E m \in Nodes : /\ node'[m].pc = "relist"
                                                 /\ x = User(node'[m].u.name, node'[m].un)
  BY DEF Renamed, At, User
<1>2. QED
  BY <1>1

LEMMA UserIs ==
    ASSUME NEW s, NEW t, NEW j, NEW k
    PROVE  User(s, j) = User(t, k) <=> s = t /\ j = k
<1>1. User(s, j).name = s /\ User(s, j).number = j /\ User(t, k).name = t /\ User(t, k).number = k
  BY DEF User
<1>2. QED
  BY <1>1

\* isr lets a user in whose name and number are nobody's.
LEMMA IsrJoins ==
    ASSUME IInv, IInv', Careful, NEW n \in Nodes, NEW s \in Names, NEW nd \in Instance,
           Isr(n, s, nd), node[n].pc \in {"enter", "restore"}, nd.pc # "relist",
           nd.un = node[n].un, nd.un \in Numbers, ~IsListed(s), s \in NamesAtHand(n),
           \A t \in Names : ~Has(t, nd.un)
    PROVE  D!Join(s, nd.un)
<1>. DEFINE k == nd.un
<1>1. /\ TypeOK /\ Filled /\ Sorted /\ NodeOK(n) /\ ListOK(n) /\ ~At(n, "load")
      /\ names \in [Slots -> Entries] /\ names' \in [Slots -> Entries] /\ k # 0
  BY NumbersType DEF IInv, NodeOK, At, TypeOK
<1>2. /\ \A t, j : Has(t, j)' <=> Has(t, j) \/ (t = s /\ j = k)
      /\ \E l \in [Slots -> Entries] : Goes(n, nd, l)
  BY <1>1, IsrAdds
<1>3. node'[n].pc = nd.pc /\ \A m \in Nodes \ {n} : node'[m] = node[m]
  BY <1>2, GoesAs
<1>4. ASSUME NEW x PROVE x \in Renamed' <=> x \in Renamed
  BY <1>3, RenamedAre, RenamedNext
<1>5. ASSUME NEW x PROVE x \in Listed' <=> x \in Listed \/ x = User(s, k)
  BY <1>1, <1>2, ListedAre, ListedNext
<1>6. ASSUME NEW x \in Listed PROVE x.name # s /\ x.number # k
  <2>1. PICK t, j : x = User(t, j) /\ Has(t, j)
    BY <1>1, ListedAre
  <2>2. t # s
    BY <1>1, <2>1, HasTypes
  <2>3. j # k
    BY <1>1, <2>1, HasTypes
  <2>4. QED
    BY <2>1, <2>2, <2>3 DEF User
<1>7. ASSUME NEW x \in Renamed PROVE x.name # s /\ x.number # k
  <2>1. PICK m \in Nodes : node[m].pc = "relist" /\ x = User(node[m].u.name, node[m].un)
    BY RenamedAre
  <2>2. m # n
    BY <2>1
  <2>3. node[m].un # k
    BY <1>1, <2>1, <2>2, NumbersApart DEF Transit
  <2>4. node[m].u.name \in NamesAtHand(m)
    BY <2>1 DEF NamesAtHand
  <2>5. node[m].u.name # s
    BY <2>2, <2>4 DEF Careful
  <2>6. QED
    BY <2>1, <2>3, <2>5 DEF User
<1>8. (Listed \union Renamed)' = (Listed \union Renamed) \union {User(s, k)}
  BY <1>4, <1>5
<1>9. QED
  BY <1>6, <1>7, <1>8 DEF D!Join, D!Nameless, D!Vacant, D!Member, User

LEMMA EnterJoins ==
    ASSUME IInv, IInv', Careful, NEW n \in Nodes, Enter(n)
    PROVE  D!Next
<1>. DEFINE nd == [node[n] EXCEPT !.pc = "joined", !.s = NoName, !.why = "logon"]
            s == node[n].u.name
            k == node[n].un
<1>1. /\ node[n] \in Instance /\ NodeOK(n) /\ node[n].pc = "enter" /\ TransitOK(n)
      /\ Isr(n, s, nd)
  BY DEF IInv, TypeOK, IndexOK, At, Enter
<1>2. /\ k \in Numbers /\ node[n].s = s /\ s \in Names
      /\ node[n].why = "newuser" /\ ~IsListed(s)
  BY <1>1, NumbersType DEF NodeOK, LocalOK, FreeOK, AtRecord
<1>3. nd \in Instance /\ nd.pc = "joined" /\ nd.un = k
  BY <1>1 DEF Instance, Steps
<1>4. s \in NamesAtHand(n)
  BY <1>2, UsersAssumption DEF NamesAtHand, NoName
<1>5. \A t : ~Has(t, k)
  BY <1>1, <1>2, HasTypes DEF TransitOK, IInv
<1>. HIDE DEF nd, s, k
<1>6. nd.un = node[n].un
  BY <1>3 DEF k
<1>7. D!Join(s, k)
  BY <1>1, <1>2, <1>3, <1>4, <1>5, <1>6, IsrJoins
<1>8. QED
  BY <1>2, <1>7 DEF D!Next

LEMMA RestoreJoins ==
    ASSUME IInv, IInv', Careful, NEW n \in Nodes, RestoreName(n)
    PROVE  D!Next
<1>. DEFINE nd == [node[n] EXCEPT !.pc = "rewrite"]
            s == node[n].u.name
            k == node[n].un
<1>1. /\ node[n] \in Instance /\ NodeOK(n) /\ node[n].pc = "restore" /\ At(n, "restore")
      /\ Isr(n, s, nd)
  BY DEF IInv, TypeOK, At, RestoreName
<1>2. /\ k \in Numbers /\ k # 0 /\ s \in Names /\ userlst[k].inact
  BY <1>1, NumbersType DEF NodeOK, LocalOK, CopyOK, AtRecord, Records
<1>3. nd \in Instance /\ nd.pc = "rewrite" /\ nd.un = k
  BY <1>1 DEF Instance, Steps
<1>4. s \in NamesAtHand(n) /\ ~IsListed(s)
  BY <1>1 DEF NamesAtHand, Careful
<1>5. \A t : ~Has(t, k)
  <2>1. \A t \in Names : ~Has(t, k)
    BY <1>1, <1>2, IsIn DEF IInv, Transit, IsUser
  <2>2. QED
    BY <2>1, HasTypes DEF IInv
<1>. HIDE DEF nd, s, k
<1>6. nd.un = node[n].un
  BY <1>3 DEF k
<1>7. D!Join(s, k)
  BY <1>1, <1>2, <1>3, <1>4, <1>5, <1>6, IsrJoins
<1>8. QED
  BY <1>2, <1>7 DEF D!Next

\* isr with the new name of a user who is between dsr and isr; he may have typed the old
\* one again.
LEMMA RelistRenames ==
    ASSUME IInv, IInv', Careful, NEW n \in Nodes, Relist(n)
    PROVE  D!Next \/ Members' = Members
<1>. DEFINE s == node[n].s
            t == node[n].u.name
            k == node[n].un
            nd == [node[n] EXCEPT !.pc = "rewrite", !.u.name = s]
<1>1. /\ node[n] \in Instance /\ TypeOK /\ Filled /\ Sorted /\ NodeOK(n) /\ ListOK(n)
      /\ node[n].pc = "relist" /\ ~At(n, "load") /\ TransitOK(n) /\ Isr(n, s, nd)
      /\ names \in [Slots -> Entries] /\ names' \in [Slots -> Entries]
  BY DEF IInv, TypeOK, IndexOK, At, Relist, NodeOK
<1>2. /\ node[n].u \in Records /\ k \in Numbers /\ k # 0 /\ s \in Names /\ t \in Names
      /\ node[n].why = "uedit" /\ ~IsListed(s) /\ ~IsListed(t)
  BY <1>1, NumbersType DEF NodeOK, LocalOK, FreeOK, AtRecord, Records, At
<1>3. nd \in Instance /\ nd.pc = "rewrite" /\ nd.un = k
  <2>1. [node[n].u EXCEPT !.name = s] \in Records
    BY <1>2 DEF Records
  <2>2. QED
    BY <1>1, <2>1 DEF Instance, Steps
<1>4. s \in NamesAtHand(n)
  BY <1>2, UsersAssumption DEF NamesAtHand, NoName
<1>5. \A r : ~Has(r, k)
  BY <1>1, <1>2, HasTypes DEF TransitOK
<1>6. /\ \A r, j : Has(r, j)' <=> Has(r, j) \/ (r = s /\ j = k)
      /\ \E l \in [Slots -> Entries] : Goes(n, nd, l)
  <2>. HIDE DEF nd, s
  <2>1. QED
    BY <1>1, <1>2, <1>3, IsrAdds
<1>7. node'[n].pc = "rewrite" /\ \A m \in Nodes \ {n} : node'[m] = node[m]
  <2>1. PICK l \in [Slots -> Entries] : Goes(n, nd, l)
    BY <1>6
  <2>. HIDE DEF nd, s, k
  <2>2. node'[n].pc = nd.pc /\ \A m \in Nodes \ {n} : node'[m] = node[m]
    BY <1>3, <2>1, GoesAs
  <2>3. QED
    BY <1>3, <2>2
<1>8. ASSUME NEW m \in Nodes \ {n}, node[m].pc = "relist"
      PROVE  node[m].un # k /\ node[m].u.name # s
  <2>1. node[m].un # k
    BY <1>1, <1>2, <1>8, NumbersApart DEF Transit
  <2>2. node[m].u.name \in NamesAtHand(m)
    BY <1>8 DEF NamesAtHand
  <2>3. QED
    BY <1>4, <2>1, <2>2 DEF Careful
<1>. HIDE DEF nd, s, t, k
<1>9. ASSUME NEW x PROVE x \in Listed' <=> x \in Listed \/ x = User(s, k)
  BY <1>1, <1>6, ListedAre, ListedNext
<1>10. ASSUME NEW x PROVE x \in Renamed <=> x \in Renamed' \/ x = User(t, k)
  BY <1>1, <1>7, RenamedAre, RenamedNext DEF t, k
<1>11. User(t, k) \notin Listed /\ User(t, k) \notin Renamed'
  <2>1. User(t, k) \notin Listed
    BY <1>1, <1>5, ListedAre, UserIs
  <2>2. User(t, k) \notin Renamed'
    BY <1>7, <1>8, RenamedNext, UserIs
  <2>3. QED
    BY <2>1, <2>2
<1>12. Members' = (Members \ {User(t, k)}) \union {User(s, k)}
  <2>1. CASE s = t
    BY <1>9, <1>10, <2>1 DEF Members
  <2>2. CASE s # t
    <3>1. User(s, k) # User(t, k)
      BY <2>2, UserIs
    <3>2. QED
      BY <1>9, <1>10, <1>11, <3>1 DEF Members
  <2>3. QED
    BY <2>1, <2>2
<1>13. User(t, k) \in Members
  BY <1>10 DEF Members
<1>14. CASE s = t
  BY <1>12, <1>13, <1>14
<1>15. CASE s # t
  <2>1. ASSUME NEW x \in Members PROVE x.name # s
    <3>1. CASE x \in Listed
      <4>1. PICK r, j : x = User(r, j) /\ Has(r, j)
        BY <1>1, <3>1, ListedAre
      <4>2. r # s
        BY <1>1, <1>2, <4>1, HasTypes DEF s
      <4>3. QED
        BY <4>1, <4>2 DEF User
    <3>2. CASE x = User(t, k)
      BY <1>15, <3>2 DEF User
    <3>3. CASE x \in Renamed'
      BY <1>7, <1>8, <3>3, RenamedNext DEF User
    <3>4. QED
      BY <1>10, <3>1, <3>2, <3>3 DEF Members
  <2>2. User(t, k).number = k
    BY DEF User
  <2>3. D!Rename(User(t, k), s)
    BY <1>12, <2>1, <2>2 DEF D!Rename, D!Nameless, D!Member, User, Members
  <2>4. QED
    BY <1>2, <1>13, <2>3 DEF D!Next, Members, s
<1>16. QED
  BY <1>14, <1>15

\* dsr takes a user out of the index.
LEMMA DsrTakesOut ==
    ASSUME IInv, IInv', Careful, NEW n \in Nodes, NEW s \in Names, NEW nd \in Instance,
           Dsr(n, s, nd), node[n].pc \in {"delist", "unlist"},
           node[n].un \in Numbers, IsUser(node[n].un), userlst[node[n].un].name = s
    PROVE  /\ \A x : x \in Listed' <=> x \in Listed /\ x # User(s, node[n].un)
           /\ User(s, node[n].un) \in Listed
           /\ node'[n].pc = nd.pc /\ node'[n].un = nd.un /\ node'[n].u = nd.u
           /\ \A m \in Nodes \ {n} : node'[m] = node[m]
<1>. DEFINE k == node[n].un
<1>1. /\ TypeOK /\ Filled /\ Sorted /\ IndexOK /\ ListOK(n) /\ ~At(n, "load") /\ k # 0
      /\ names \in [Slots -> Entries] /\ names' \in [Slots -> Entries]
  BY NumbersType DEF IInv, NodeOK, At, TypeOK
<1>2. Has(s, k)
  BY <1>1, IsIn DEF Transit
<1>3. IsListed(s)
  BY <1>1, <1>2, HasTypes
<1>4. /\ \A t, j : Has(t, j)' <=> Has(t, j) /\ t # s
      /\ \E l \in [Slots -> Entries] : Goes(n, nd, l)
  BY <1>1, <1>3, DsrRemoves
<1>5. /\ node'[n].pc = nd.pc /\ node'[n].un = nd.un /\ node'[n].u = nd.u
      /\ \A m \in Nodes \ {n} : node'[m] = node[m]
  <2>1. PICK l \in [Slots -> Entries] : Goes(n, nd, l)
    BY <1>4
  <2>2. QED
    BY <2>1, GoesAs
<1>6. \A j : Has(s, j) => j = k
  BY <1>1, <1>2, NameHasOneUser
<1>. HIDE DEF k
<1>7. ASSUME NEW x PROVE x \in Listed' <=> x \in Listed /\ x # User(s, k)
  BY <1>1, <1>2, <1>4, <1>6, ListedAre, ListedNext, UserIs
<1>8. User(s, k) \in Listed
  BY <1>1, <1>2, ListedAre
<1>9. QED
  BY <1>5, <1>7, <1>8 DEF k

LEMMA DelistLeaves ==
    ASSUME IInv, IInv', Careful, NEW n \in Nodes, Delist(n)
    PROVE  D!Next
<1>. DEFINE nd == [node[n] EXCEPT !.pc = "delete", !.u.inact = TRUE]
            s == node[n].u.name
            k == node[n].un
<1>1. node[n] \in Instance /\ NodeOK(n) /\ node[n].pc = "delist" /\ Dsr(n, s, nd)
  BY DEF IInv, TypeOK, At, Delist
<1>2. /\ node[n].u \in Records /\ k \in Numbers /\ k # 0 /\ k <= nu
      /\ node[n].u = userlst[k] /\ ~node[n].u.inact /\ s \in Names
  BY <1>1, NumbersType DEF NodeOK, LocalOK, CopyOK, AtRecord, Fresh, Records
<1>3. nd \in Instance /\ nd.pc = "delete"
  <2>1. [node[n].u EXCEPT !.inact = TRUE] \in Records
    BY <1>2 DEF Records
  <2>2. QED
    BY <1>1, <2>1 DEF Instance, Steps
<1>4. IsUser(k) /\ userlst[k].name = s
  BY <1>2 DEF IsUser
<1>. HIDE DEF nd, s
<1>5. /\ \A x : x \in Listed' <=> x \in Listed /\ x # User(s, k)
      /\ User(s, k) \in Listed
      /\ node'[n].pc = "delete" /\ \A m \in Nodes \ {n} : node'[m] = node[m]
  BY <1>1, <1>2, <1>3, <1>4, DsrTakesOut
<1>6. \A x : x \in Renamed' <=> x \in Renamed
  BY <1>1, <1>5, RenamedAre, RenamedNext
<1>7. User(s, k) \notin Renamed
  <2>1. \A m \in Nodes \ {n} : node[m].pc = "relist" => node[m].un # k
    BY <1>1, <1>2, NumbersApart DEF Transit
  <2>2. QED
    BY <1>1, <2>1, RenamedAre, UserIs
<1>. HIDE DEF k
<1>8. D!Leave(User(s, k)) /\ User(s, k) \in Members
  BY <1>5, <1>6, <1>7 DEF D!Leave, Members
<1>9. QED
  BY <1>8 DEF D!Next, Members

LEMMA UnlistStutters ==
    ASSUME IInv, IInv', Careful, NEW n \in Nodes, Unlist(n)
    PROVE  Members' = Members
<1>. DEFINE nd == [node[n] EXCEPT !.pc = "relist"]
            s == node[n].u.name
            k == node[n].un
<1>1. /\ node[n] \in Instance /\ NodeOK(n) /\ node[n].pc = "unlist" /\ At(n, "unlist")
      /\ Dsr(n, s, nd)
  BY DEF IInv, TypeOK, At, Unlist
<1>2. /\ node[n].u \in Records /\ k \in Numbers /\ k # 0 /\ k <= nu
      /\ node[n].u = userlst[k] /\ ~node[n].u.inact /\ s \in Names
  BY <1>1, NumbersType DEF NodeOK, LocalOK, CopyOK, AtRecord, Fresh, Records, Careful
<1>3. nd \in Instance /\ nd.pc = "relist" /\ nd.un = k /\ nd.u = node[n].u
  BY <1>1 DEF Instance, Steps
<1>4. IsUser(k) /\ userlst[k].name = s
  BY <1>2 DEF IsUser
<1>. HIDE DEF nd
<1>5. /\ \A x : x \in Listed' <=> x \in Listed /\ x # User(s, k)
      /\ User(s, k) \in Listed
      /\ node'[n].pc = "relist" /\ node'[n].un = k /\ node'[n].u = node[n].u
      /\ \A m \in Nodes \ {n} : node'[m] = node[m]
  BY <1>1, <1>2, <1>3, <1>4, DsrTakesOut
<1>6. \A x : x \in Renamed' <=> x \in Renamed \/ x = User(s, k)
  BY <1>1, <1>5, RenamedAre, RenamedNext
<1>7. QED
  BY <1>5, <1>6 DEF Members

\* A step that neither changes the index nor is about a user between dsr and isr.
LEMMA MembersStay ==
    ASSUME IInv, IInv', NEW n \in Nodes, users' = users,
           \A i \in Slots : i < users => names'[i] = names[i],
           node[n].pc # "relist", node'[n].pc # "relist",
           \A m \in Nodes \ {n} : node'[m] = node[m]
    PROVE  Members' = Members
<1>1. Listed' = Listed
  BY DEF Listed
<1>2. \A x : x \in Renamed' <=> x \in Renamed
  BY RenamedAre, RenamedNext
<1>3. QED
  BY <1>1, <1>2 DEF Members

LEMMA OthersUnmoved ==
    ASSUME TypeOK, NEW n \in Nodes, NEW nd, Do(n, nd)
    PROVE  node'[n] = nd /\ \A m \in Nodes \ {n} : node'[m] = node[m]
BY DEF TypeOK, Do

LEMMA SessionStutters ==
    ASSUME IInv, IInv', NEW n \in Nodes,
           \/ Load(n) \/ Look(n) \/ AskUser(n) \/ AskNumber(n) \/ ReadUser(n) \/ LogOff(n)
           \/ AskNew(n) \/ Welcome(n) \/ HangUp(n) \/ Kill(n) \/ Delete(n) \/ Forget(n)
           \/ Edit(n) \/ AskName(n) \/ Rewrite(n) \/ Restore(n) \/ Quit(n)
    PROVE  Members' = Members
<1>1. TypeOK /\ node[n] \in Instance /\ Idle(n).pc = "idle"
  BY IdleType DEF IInv, TypeOK, Instance
<1>2. Resume(n).pc = "edit"
  BY <1>1 DEF Resume, Instance
<1>3. ASSUME NEW nd, Do(n, nd), nd.pc # "relist", node[n].pc # "relist",
             UNCHANGED <<names, users>>
      PROVE  Members' = Members
  BY <1>1, <1>3, OthersUnmoved, MembersStay
<1>4. CASE LogOff(n) \/ HangUp(n) \/ Forget(n) \/ Quit(n)
  BY <1>1, <1>3, <1>4 DEF LogOff, HangUp, Forget, Quit, At
<1>5. ASSUME NEW s, NEW why, ReadStatus(n, s, why), At(n, "idle") \/ At(n, "edit")
      PROVE  Members' = Members
  <2>. DEFINE nd == [node[n] EXCEPT !.pc = IF n \in changed THEN "load" ELSE "look",
                                    !.cnt = users, !.s = s, !.why = why]
  <2>1. nd.pc # "relist"
    BY <1>1 DEF Instance
  <2>2. Do(n, nd) /\ UNCHANGED <<names, users>> /\ node[n].pc # "relist"
    BY <1>5 DEF ReadStatus, At
  <2>3. QED
    BY <1>3, <2>1, <2>2
<1>6. CASE AskUser(n) \/ AskNew(n) \/ AskName(n)
  BY <1>5, <1>6 DEF AskUser, AskNew, AskName
<1>7. CASE Load(n)
  <2>. DEFINE nd == [node[n] EXCEPT !.pc = "look",
                                    !.list = ReadNames(node[n].list, node[n].cnt)]
  <2>1. nd.pc # "relist"
    BY <1>1 DEF Instance
  <2>2. Do(n, nd) /\ UNCHANGED <<names, users>> /\ node[n].pc # "relist"
    BY <1>7 DEF Load, At
  <2>3. QED
    BY <1>3, <2>1, <2>2
<1>8. CASE Look(n)
  <2>1. node[n].why \in {"logon", "newuser", "uedit"}
    BY <1>1 DEF Instance
  <2>2. ASSUME NEW k PROVE Found(n, k).pc # "relist"
    BY <1>1, <1>2, <2>1 DEF Found, Instance
  <2>3. NotFound(n).pc # "relist"
    BY <1>1, <2>1 DEF NotFound, Instance
  <2>4. UNCHANGED <<names, users>> /\ node[n].pc # "relist"
    BY <1>8 DEF Look, At
  <2>5. Do(n, NotFound(n)) \/ \E k \in Candidates(node[n]) : Do(n, Found(n, k))
    BY <1>8 DEF Look
  <2>6. QED
    BY <1>3, <2>2, <2>3, <2>4, <2>5
<1>9. CASE AskNumber(n)
  <2>1. PICK k \in Numbers : Do(n, [node[n] EXCEPT !.pc = "found", !.un = k])
    BY <1>9 DEF AskNumber
  <2>2. [node[n] EXCEPT !.pc = "found", !.un = k].pc = "found"
    BY <1>1 DEF Instance
  <2>3. UNCHANGED <<names, users>> /\ node[n].pc # "relist"
    BY <1>9 DEF AskNumber, At
  <2>4. QED
    BY <1>3, <2>1, <2>2, <2>3
<1>10. CASE ReadUser(n) \/ Welcome(n) \/ Restore(n) \/ Delete(n)
  <2>1. [node[n] EXCEPT !.pc = "on", !.s = NoName, !.u = userlst[node[n].un]].pc = "on"
    BY <1>1 DEF Instance
  <2>2. [node[n] EXCEPT !.pc = "on"].pc = "on"
    BY <1>1 DEF Instance
  <2>3. [node[n] EXCEPT !.pc = "restore", !.u.inact = FALSE].pc = "restore"
    BY <1>1 DEF Instance
  <2>4. [node[n] EXCEPT !.pc = "forget"].pc = "forget"
    BY <1>1 DEF Instance
  <2>5. CASE ReadUser(n)
    BY <1>3, <2>1, <2>5 DEF ReadUser, At
  <2>6. CASE Welcome(n)
    BY <1>3, <2>2, <2>6 DEF Welcome, At
  <2>7. CASE Restore(n)
    BY <1>3, <2>3, <2>7 DEF Restore, At
  <2>8. CASE Delete(n)
    BY <1>3, <2>4, <2>8 DEF Delete, At
  <2>9. QED
    BY <1>10, <2>5, <2>6, <2>7, <2>8
<1>11. CASE Kill(n)
  <2>. DEFINE nd == [node[n] EXCEPT !.pc = "delist", !.u = userlst[node[n].un]]
  <2>1. nd.pc # "relist"
    BY <1>1 DEF Instance
  <2>2. UNCHANGED <<names, users>> /\ node[n].pc # "relist"
    BY <1>11 DEF Kill, At
  <2>3. Do(n, Idle(n)) \/ Do(n, nd)
    BY <1>11 DEF Kill, DelUser
  <2>4. QED
    BY <1>1, <1>3, <2>1, <2>2, <2>3
<1>12. CASE Edit(n)
  <2>1. PICK k \in Numbers :
           Do(n, [node[n] EXCEPT !.pc = "edit", !.un = k, !.u = userlst[k]])
    BY <1>12 DEF Edit
  <2>2. [node[n] EXCEPT !.pc = "edit", !.un = k, !.u = userlst[k]].pc = "edit"
    BY <1>1 DEF Instance
  <2>3. UNCHANGED <<names, users>> /\ node[n].pc # "relist"
    BY <1>12 DEF Edit, At
  <2>4. QED
    BY <1>3, <2>1, <2>2, <2>3
<1>13. CASE Rewrite(n)
  BY <1>2, <1>3, <1>13 DEF Rewrite, At
<1>14. QED
  BY <1>4, <1>6, <1>7, <1>8, <1>9, <1>10, <1>11, <1>12, <1>13

LEMMA FilesStutter ==
    ASSUME IInv, IInv', NEW n \in Nodes,
           FindNewUsernum(n) \/ ScanUsers(n) \/ ResetFiles(n)
    PROVE  Members' = Members
<1>1. /\ TypeOK /\ Filled /\ node[n] \in Instance /\ NodeOK(n) /\ ListOK(n)
      /\ Idle(n) \in Instance /\ Idle(n).pc = "idle"
  BY IdleType DEF IInv, TypeOK, NodeOK, Instance
<1>2. ASSUME NEW nd, nd.pc # "relist", NEW l, DOMAIN nd = DOMAIN node[n], Goes(n, nd, l),
             node[n].pc # "relist", users' = users,
             \A i \in Slots : i < users => names'[i] = names[i]
      PROVE  Members' = Members
  <2>1. /\ node'[n] = [nd EXCEPT !.list = l]
        /\ \A m \in Nodes \ {n} : node'[m] = node[m]
    BY <1>1, <1>2 DEF Goes, TypeOK
  <2>2. [nd EXCEPT !.list = l].pc = nd.pc
    BY <1>1, <1>2 DEF Instance
  <2>3. QED
    BY <1>2, <2>1, <2>2, MembersStay
<1>3. CASE FindNewUsernum(n)
  <2>. DEFINE nd == [node[n] EXCEPT !.pc = "enter", !.un = NewNumber,
                                    !.u = [name |-> node[n].s, inact |-> FALSE]]
  <2>1. nd.pc # "relist" /\ DOMAIN nd = DOMAIN node[n]
    BY <1>1 DEF Instance
  <2>2. DOMAIN Idle(n) = DOMAIN node[n]
    BY <1>1 DEF Instance
  <2>3. UNCHANGED <<names, users>> /\ node[n].pc # "relist"
    BY <1>3 DEF FindNewUsernum, At
  <2>4. Goes(n, nd, Locked(n)) \/ Goes(n, Idle(n), Locked(n))
    BY <1>3 DEF FindNewUsernum
  <2>5. QED
    BY <1>1, <1>2, <2>1, <2>2, <2>3, <2>4
<1>4. CASE ScanUsers(n)
  <2>. DEFINE nd == [node[n] EXCEPT !.pc = "reset", !.cnt = Cardinality(Living)]
  <2>1. nd.pc # "relist" /\ DOMAIN nd = DOMAIN node[n]
    BY <1>1 DEF Instance
  <2>2. UNCHANGED <<names, users>> /\ node[n].pc # "relist" /\ \E l : Goes(n, nd, l)
    BY <1>4 DEF ScanUsers, At
  <2>3. QED
    BY <1>2, <2>1, <2>2
<1>5. CASE ResetFiles(n)
  <2>1. /\ node[n].pc = "reset" /\ ~At(n, "load") /\ users' = node[n].cnt
        /\ names' = [i \in Slots |-> IF i < users THEN Locked(n)[i] ELSE NoEntry]
        /\ Goes(n, Idle(n), Locked(n))
    BY <1>5 DEF ResetFiles, At
  <2>2. users' = users
    BY <1>1, <2>1 DEF ListOK, At
  <2>3. \A i \in Slots : i < users => names'[i] = names[i]
    BY <1>1, <2>1, LockedList
  <2>4. DOMAIN Idle(n) = DOMAIN node[n]
    BY <1>1 DEF Instance
  <2>5. QED
    BY <1>1, <1>2, <2>1, <2>2, <2>3, <2>4
<1>6. QED
  BY <1>3, <1>4, <1>5

LEMMA InitMembers == Init => D!Init
<1>. SUFFICES ASSUME Init PROVE D!Init
  OBVIOUS
<1>1. /\ users = 1 /\ names = OneName /\ Sysop \in Numbers /\ SysopName \in Names
      /\ \A n \in Nodes : node[n].pc = "idle"
  BY NumbersType, UsersAssumption DEF Init
<1>2. 0 \in Slots /\ \A i \in Slots : i < 1 <=> i = 0
  BY UsersAssumption DEF Slots
<1>3. Listed = {[name |-> SysopName, number |-> Sysop]}
  BY <1>1, <1>2 DEF Listed, OneName
<1>4. Renamed = {}
  BY <1>1 DEF Renamed, At
<1>5. QED
  BY <1>1, <1>3, <1>4 DEF D!Init, D!Member

LEMMA StepMembers ==
    ASSUME IInv, IInv', Careful, [Next]_vars
    PROVE  D!Next \/ Members' = Members
<1>1. ASSUME UNCHANGED <<names, users, node>> PROVE Members' = Members
  BY <1>1 DEF Members, Listed, Renamed, At
<1>2. CASE UNCHANGED vars
  BY <1>1, <1>2 DEF vars
<1>3. ASSUME NEW n \in Nodes, SaveUser(n) \/ Change(n) PROVE Members' = Members
  BY <1>1, <1>3 DEF SaveUser, Change
<1>4. CASE Next
  BY <1>3, <1>4, EnterJoins, RestoreJoins, RelistRenames, DelistLeaves, UnlistStutters,
     SessionStutters, FilesStutter DEF Next
<1>5. QED
  BY <1>2, <1>4

\* The instances together are one directory: a name is one user's, a number is one
\* user's, and both are his until he is deleted or renamed.
THEOREM UsersAreDirectory == Spec /\ []Careful => IsDirectory
<1>1. Init => IInv /\ D!Init
  BY InitInv, InitMembers
<1>2. IInv /\ Careful /\ Careful' /\ [Next]_vars => IInv' /\ [D!Next]_(Listed \union Renamed)
  BY StepInv, StepMembers DEF Members
<1>3. QED
  BY <1>1, <1>2, PTL DEF Spec, IsDirectory, D!Spec

---------------------------------------------------------------------------
(* What finduser returns for a typed name *)

\* The steps of finduser, and of getuser after it.
Looking == {"load", "look", "found"}

\* What was in the index since the name was typed: what bsearch may find, and what
\* it has found.
WasListed(n) ==
    Asked(n) =>
        /\ node[n].pc \in Looking
        /\ At(n, "look") /\ n \notin short => Candidates(node[n]) \subseteq was[n]
        /\ At(n, "found") /\ n \notin short => node[n].un \in was[n]

\* Who has a name in the index owns it.
LEMMA OwnerIs ==
    ASSUME IInv, NEW i \in Slots, i < users
    PROVE  names[i].number \in OwnersOf(names[i].name)
<1>1. names[i] \in [name : Names, number : Numbers]
  BY NamesType DEF IInv
<1>2. /\ names[i] = [name |-> names[i].name, number |-> names[i].number]
      /\ names[i].number \in Numbers
  BY <1>1
<1>3. names[i] \in Listed
  BY DEF Listed
<1>4. QED
  BY <1>2, <1>3 DEF OwnersOf

\* Only AskUser, Load and Look are about a name that a caller typed.
LEMMA AskedSteps ==
    ASSUME IInv, NEW n \in Nodes, WasListed(n), Next
    PROVE  \/ node'[n] = node[n] \/ ~Asked(n)'
           \/ AskUser(n) \/ Load(n) \/ Look(n)
<1>1. node[n] \in Instance /\ node \in [Nodes -> Instance] /\ NodeOK(n)
  BY DEF IInv, TypeOK
<1>4. ASSUME Do(n, Idle(n)) \/ \E l : Goes(n, Idle(n), l) PROVE ~Asked(n)'
  <2>1. DOMAIN Idle(n) = DOMAIN node[n] /\ Idle(n).s = NoName
    BY IdleType, <1>1 DEF Instance, Idle
  <2>2. ASSUME NEW l PROVE [Idle(n) EXCEPT !.list = l].s = NoName
    BY <1>1, <2>1 DEF Instance
  <2>3. QED
    BY <1>1, <1>4, <2>1, <2>2 DEF Do, Goes, Asked
<1>5. CASE AskNumber(n)
  BY <1>1, <1>5 DEF AskNumber, Do, Instance, NodeOK, LocalOK, At, Asked
<1>6. CASE Edit(n)
  BY <1>1, <1>6 DEF Edit, Do, Instance, NodeOK, LocalOK, At, Asked
<1>7. CASE ScanUsers(n)
  BY <1>1, <1>7 DEF ScanUsers, Goes, Instance, NodeOK, LocalOK, At, Asked
<1>8. CASE ReadUser(n)
  BY <1>1, <1>8 DEF ReadUser, Do, Instance, Asked
<1>9. ASSUME NEW s, NEW why, why # "logon", ReadStatus(n, s, why) PROVE ~Asked(n)'
  BY <1>1, <1>9 DEF ReadStatus, Do, Instance, Asked
<1>10. CASE LogOff(n) \/ HangUp(n) \/ Forget(n) \/ Quit(n) \/ ResetFiles(n)
  BY <1>4, <1>10 DEF LogOff, HangUp, Forget, Quit, ResetFiles
<1>11. CASE SaveUser(n) \/ Change(n)
  BY <1>11 DEF SaveUser, Change
<1>12. CASE FindNewUsernum(n)
  <2>1. node[n].why = "newuser"
    BY <1>1, <1>12 DEF FindNewUsernum, NodeOK, LocalOK, At
  <2>2. ASSUME NEW k, NEW u, NEW l,
               Goes(n, [node[n] EXCEPT !.pc = "enter", !.un = k, !.u = u], l)
        PROVE  ~Asked(n)'
    BY <1>1, <2>1, <2>2 DEF Goes, Instance, Asked
  <2>3. QED
    BY <1>4, <1>12, <2>2 DEF FindNewUsernum
<1>13. CASE Enter(n)
  BY <1>1, <1>13 DEF Enter, Isr, Goes, Instance, Asked
<1>14. CASE Welcome(n)
  BY <1>1, <1>14 DEF Welcome, Do, Instance, WasListed, Looking, At, Asked
<1>15. CASE Kill(n)
  <2>1. node[n].pc \in {"joined", "edit"} /\ ~Asked(n)
    BY <1>15 DEF Kill, WasListed, Looking, At
  <2>2. ASSUME NEW u, Do(n, [node[n] EXCEPT !.pc = "delist", !.u = u]) PROVE ~Asked(n)'
    BY <1>1, <2>1, <2>2 DEF Do, Instance, Asked
  <2>3. QED
    BY <1>4, <1>15, <2>2 DEF Kill, DelUser
<1>16. CASE Delist(n)
  <2>1. node[n].pc = "delist" /\ ~Asked(n)
    BY <1>16 DEF Delist, WasListed, Looking, At
  <2>2. ASSUME NEW l, Goes(n, [node[n] EXCEPT !.pc = "delete", !.u.inact = TRUE], l)
        PROVE  ~Asked(n)'
    BY <1>1, <2>1, <2>2 DEF Goes, Instance, Asked
  <2>3. QED
    BY <1>16, <2>2 DEF Delist, Dsr
<1>17. CASE Delete(n)
  BY <1>1, <1>17 DEF Delete, Do, Instance, WasListed, Looking, At, Asked
<1>18. CASE Unlist(n)
  <2>1. node[n].pc = "unlist" /\ ~Asked(n)
    BY <1>18 DEF Unlist, WasListed, Looking, At
  <2>2. ASSUME NEW l, Goes(n, [node[n] EXCEPT !.pc = "relist"], l)
        PROVE  ~Asked(n)'
    BY <1>1, <2>1, <2>2 DEF Goes, Instance, Asked
  <2>3. QED
    BY <1>18, <2>2 DEF Unlist, Dsr
<1>19. CASE Relist(n)
  <2>1. node[n].why = "uedit"
    BY <1>1, <1>19 DEF Relist, NodeOK, LocalOK, At
  <2>2. ASSUME NEW s, NEW l,
               Goes(n, [node[n] EXCEPT !.pc = "rewrite", !.u.name = s], l)
        PROVE  ~Asked(n)'
    BY <1>1, <2>1, <2>2 DEF Goes, Instance, Asked
  <2>3. QED
    BY <1>19, <2>2 DEF Relist, Isr
<1>22. CASE RestoreName(n)
  <2>1. ASSUME NEW l, Goes(n, [node[n] EXCEPT !.pc = "rewrite"], l) PROVE ~Asked(n)'
    BY <1>1, <1>22, <2>1 DEF RestoreName, Goes, Instance, WasListed, Looking, At, Asked
  <2>2. QED
    BY <1>22, <2>1 DEF RestoreName, Isr
<1>20. CASE Rewrite(n)
  BY <1>1, <1>20 DEF Rewrite, Resume, Do, Instance, Asked
<1>21. CASE Restore(n)
  BY <1>1, <1>21 DEF Restore, Do, Instance, WasListed, Looking, At, Asked
<1>23. ASSUME NEW m \in Nodes, m # n, NEW nd, Do(m, nd) \/ \E l : Goes(m, nd, l)
       PROVE  node'[n] = node[n]
  BY <1>1, <1>23 DEF Do, Goes
<1>24. ASSUME NEW m \in Nodes, m # n,
              \/ Load(m) \/ Look(m)
              \/ AskUser(m) \/ AskNumber(m) \/ ReadUser(m) \/ SaveUser(m) \/ LogOff(m)
              \/ AskNew(m) \/ FindNewUsernum(m) \/ Enter(m) \/ Welcome(m) \/ HangUp(m)
              \/ Kill(m) \/ Delist(m) \/ Delete(m) \/ Forget(m)
       PROVE  node'[n] = node[n]
  BY <1>23, <1>24 DEF Load, Look, AskUser, AskNumber, ReadUser, SaveUser, LogOff, AskNew,
     ReadStatus, FindNewUsernum, Enter, Welcome, HangUp, Kill, DelUser, Delist, Delete,
     Forget, Isr, Dsr
<1>25. ASSUME NEW m \in Nodes, m # n,
              \/ Edit(m) \/ Change(m) \/ AskName(m) \/ Unlist(m) \/ Relist(m) \/ Rewrite(m)
              \/ Restore(m) \/ RestoreName(m) \/ Quit(m)
              \/ ScanUsers(m) \/ ResetFiles(m)
       PROVE  node'[n] = node[n]
  BY <1>23, <1>25 DEF Edit, Change, AskName, ReadStatus, Unlist, Relist, Rewrite, Restore,
     RestoreName, Quit, ScanUsers, ResetFiles, Isr, Dsr
<1>26. CASE AskNew(n) \/ AskName(n)
  BY <1>9, <1>26 DEF AskNew, AskName
<1>27. QED
  BY <1>5, <1>6, <1>7, <1>8, <1>10, <1>11, <1>12, <1>13, <1>14, <1>15, <1>16, <1>17,
     <1>18, <1>19, <1>20, <1>21, <1>22, <1>24, <1>25, <1>26 DEF Next

\* What bsearch may find has just been in the index, if smallist is as NAMES.LST was
\* up to a place within its end.
LEMMA FindsOwners ==
    ASSUME IInv, NEW nd \in Instance, nd.cnt <= users,
           \A i \in Slots : i < nd.cnt => nd.list[i] = names[i],
           NEW k \in Candidates(nd)
    PROVE  k \in OwnersOf(nd.s)
<1>1. PICK i \in Slots : i < nd.cnt /\ nd.list[i].name = nd.s /\ k = nd.list[i].number
  BY DEF Candidates
<1>2. i < users
  <2>1. users \in Nat /\ i \in Nat /\ nd.cnt \in Nat
    BY NamesType, <1>1 DEF IInv, Instance
  <2>2. QED
    BY <1>1, <2>1
<1>3. QED
  BY <1>1, <1>2, OwnerIs

LEMMA WasListedStep ==
    ASSUME IInv, IInv', NEW n \in Nodes, WasListed(n), LookupNext
    PROVE  WasListed(n)'
<1>. SUFFICES ASSUME Asked(n)' PROVE WasListed(n)'
  BY DEF WasListed
<1>1. /\ was'[n] = was[n] \union OwnersOf(node[n].s)'
      /\ n \notin short' => n \notin short /\ ~(IsShort(n) /\ ~At(n, "load")')
  BY DEF LookupNext, Remember
<1>2. node[n] \in Instance /\ node'[n] \in Instance /\ node \in [Nodes -> Instance] /\ NodeOK(n)
  BY DEF IInv, TypeOK
<1>3. CASE node'[n] = node[n]
  BY <1>1, <1>3 DEF WasListed, Asked, At, Candidates
<1>4. ASSUME UNCHANGED <<names, users>>, node'[n].cnt <= users, node'[n].pc = "look",
             \A i \in Slots : i < node'[n].cnt => node'[n].list[i] = names[i]
      PROVE  WasListed(n)'
  <2>1. ASSUME NEW k \in Candidates(node'[n]) PROVE k \in was'[n]
    <3>1. k \in OwnersOf(node'[n].s)
      BY <1>2, <1>4, <2>1, FindsOwners
    <3>2. OwnersOf(node[n].s)' = OwnersOf(node'[n].s)
      BY <1>4 DEF OwnersOf, Listed
    <3>3. QED
      BY <1>1, <3>1, <3>2
  <2>2. Candidates(node[n])' = Candidates(node'[n])
    BY DEF Candidates
  <2>3. QED
    BY <1>4, <2>1, <2>2 DEF WasListed, Looking, At
<1>5. CASE AskUser(n)
  <2>1. PICK s \in Names : ReadStatus(n, s, "logon")
    BY <1>5 DEF AskUser
  <2>2. /\ node'[n].pc = (IF n \in changed THEN "load" ELSE "look")
        /\ node'[n].cnt = users /\ node'[n].list = node[n].list
        /\ UNCHANGED <<names, users>>
    BY <1>2, <2>1 DEF ReadStatus, Do, Instance
  <2>3. CASE n \in changed
    BY <2>2, <2>3 DEF WasListed, Looking, At
  <2>4. CASE n \notin changed
    <3>1. \A i \in Slots : i < users => node[n].list[i] = names[i]
      BY <1>2, <1>5, <2>4 DEF AskUser, NodeOK, ListOK, Same, At
    <3>2. users <= users
      BY NamesType DEF IInv
    <3>3. QED
      BY <1>4, <2>2, <2>4, <3>1, <3>2
  <2>5. QED
    BY <2>3, <2>4
<1>6. CASE Load(n)
  <2>1. /\ node'[n].pc = "look" /\ node'[n].cnt = node[n].cnt /\ node[n].pc = "load"
        /\ node'[n].list = ReadNames(node[n].list, node[n].cnt)
        /\ UNCHANGED <<names, users>>
    BY <1>2, <1>6 DEF Load, Do, Instance, At
  <2>2. CASE users < node[n].cnt
    <3>1. n \in short'
      BY <1>1, <2>1, <2>2 DEF IsShort, At
    <3>2. QED
      BY <2>1, <3>1 DEF WasListed, Looking, At
  <2>3. CASE ~(users < node[n].cnt)
    <3>1. users \in Nat /\ node[n].cnt \in Nat /\ \A i \in Slots : i \in Nat
      BY <1>2, NamesType DEF IInv, Instance
    <3>2. \A i \in Slots : i < node[n].cnt => names[i] # NoEntry
      BY <2>3, <3>1, NamesType, EntryFields DEF IInv
    <3>3. \A i \in Slots : i < node[n].cnt => node'[n].list[i] = names[i]
      BY <2>1, <3>2 DEF ReadNames
    <3>4. QED
      BY <1>4, <2>1, <2>3, <3>1, <3>3
  <2>4. QED
    BY <2>2, <2>3
<1>7. CASE Look(n)
  <2>1. node[n].why \in {"logon", "newuser", "uedit"} /\ node[n].pc = "look"
    BY <1>2, <1>7 DEF Instance, Look, At
  <2>2. ASSUME Do(n, NotFound(n)) PROVE FALSE
    BY <1>2, <2>1, <2>2 DEF NotFound, Idle, Do, Instance, Asked
  <2>3. PICK k \in Candidates(node[n]) : Do(n, Found(n, k))
    BY <1>7, <2>2 DEF Look
  <2>4. node[n].why = "logon"
    BY <1>2, <2>1, <2>3 DEF Found, Idle, Resume, Do, Instance, Asked
  <2>5. node'[n] = [node[n] EXCEPT !.pc = "found", !.cnt = 0, !.un = k]
    BY <1>2, <2>3, <2>4 DEF Found, Do
  <2>6. node'[n].pc = "found" /\ node'[n].un = k /\ node'[n].s = node[n].s
    BY <1>2, <2>5 DEF Instance
  <2>7. n \notin short' => k \in was'[n]
    BY <1>1, <2>1, <2>3, <2>4, <2>6 DEF WasListed, Asked, At
  <2>8. QED
    BY <2>6, <2>7 DEF WasListed, Looking, At
<1>8. QED
  BY <1>3, <1>5, <1>6, <1>7, AskedSteps DEF LookupNext

\* What finduser returns for a typed name was in the index under this name at some
\* moment since it was typed, as long as the instances are Careful.
THEOREM LogonsWereListed == LookupSpec /\ []Careful => []LogonWasListed
<1>. DEFINE AllWere == \A n \in Nodes : WasListed(n)
<1>1. LookupInit => IInv /\ AllWere
  BY InitInv DEF LookupInit, Init, WasListed, Asked
<1>2. [LookupNext]_lvars => [Next]_vars
  BY DEF LookupNext, lvars, vars
<1>3. IInv /\ Careful /\ Careful' /\ [LookupNext]_lvars => IInv'
  BY <1>2, StepInv
<1>4. IInv /\ IInv' /\ AllWere /\ [LookupNext]_lvars => AllWere'
  <2>. SUFFICES ASSUME IInv, IInv', AllWere, [LookupNext]_lvars, NEW n \in Nodes
                PROVE  WasListed(n)'
    OBVIOUS
  <2>1. CASE LookupNext
    BY <2>1, WasListedStep
  <2>2. CASE UNCHANGED lvars
    <3>1. node' = node /\ was' = was /\ short' = short /\ WasListed(n)
      BY <2>2 DEF lvars, vars
    <3>2. QED
      BY <3>1 DEF WasListed, Asked, At, Candidates
  <2>3. QED
    BY <2>1, <2>2
<1>5. AllWere => LogonWasListed
  BY DEF LogonWasListed, WasListed
<1>. HIDE DEF AllWere
<1>6. QED
  BY <1>1, <1>3, <1>4, <1>5, PTL DEF LookupSpec
=============================================================================
