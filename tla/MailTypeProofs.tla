--------------------------- MODULE MailTypeProofs ---------------------------
(***************************************************************************)
(* What TLAPS proves of Mail, for any number of instances, users, letters  *)
(* and places: here that it is type correct, and what its operators on the *)
(* file (End, Rank, Packed) return.                                        *)
(***************************************************************************)
EXTENDS Mail, TLAPS, FiniteSetTheorems, WellFoundedInduction

---------------------------------------------------------------------------
(* Slots and lists *)

FileType == email \in [Slots -> Letters \union {NoLetter}]

LEMMA SlotsFacts ==
    /\ LastSlot \in Nat /\ MaxTime \in Nat /\ 0 \in Slots /\ Gone \notin Slots
    /\ \A i : i \in Slots <=> i \in Int /\ 0 <= i /\ i <= LastSlot
    /\ Cardinality(Users) \in Nat
BY MailAssumption, FS_CardinalityType DEF Slots, Gone

LEMMA ListFacts ==
    ASSUME NEW l \in Lists
    PROVE  /\ Len(l) \in Nat /\ DOMAIN l = 1 .. Len(l) /\ l \in [1 .. Len(l) -> Users]
           /\ (l = <<>>) <=> (Len(l) = 0)
           /\ \A i, j \in 1 .. Len(l) : l[i] = l[j] => i = j
<1>1. PICK k \in Nat : l \in [1 .. k -> Users]
  BY SlotsFacts DEF Lists
<1>2. l \in Seq(Users) /\ Len(l) = k
  BY <1>1
<1>3. \A i, j \in 1 .. Len(l) : l[i] = l[j] => i = j
  BY <1>1, <1>2 DEF Lists
<1>4. QED
  BY <1>1, <1>2, <1>3

LEMMA SingleList ==
    ASSUME NEW u \in Users
    PROVE  <<u>> \in Lists /\ Len(<<u>>) = 1
<1>1. 1 \in 0 .. Cardinality(Users)
  <2>1. Cardinality(Users) # 0
    BY MailAssumption, FS_EmptySet
  <2>2. QED
    BY <2>1, SlotsFacts
<1>2. <<u>> \in [1 .. 1 -> Users]
  OBVIOUS
<1>3. QED
  BY <1>1, <1>2 DEF Lists

\* The first record behind the last letter is behind all letters.
LEMMA EndFacts ==
    ASSUME FileType
    PROVE  End \in 0 .. LastSlot + 1 /\ \A i \in Used : i < End
<1>1. Used \subseteq Slots /\ IsFiniteSet(Slots)
  BY SlotsFacts, FS_Interval DEF Used, Slots
<1>2. CASE Used = {}
  BY <1>2, SlotsFacts DEF End
<1>3. CASE Used # {}
  <2>. DEFINE B == {k \in Nat : \A i \in Used : i < k}
  <2>1. LastSlot + 1 \in B
    BY <1>1, SlotsFacts
  <2>2. PICK x \in B : \A y \in B : ~ (<<y, x>> \in OpToRel(<, Nat))
    BY <2>1, NatLessThanWellFounded, WFMin
  <2>3. x # 0
    BY <1>1, <1>3, SlotsFacts
  <2>4. x - 1 \notin B
    <3>1. SUFFICES ASSUME x - 1 \in B PROVE FALSE
      OBVIOUS
    <3>2. <<x - 1, x>> \in OpToRel(<, Nat)
      BY <3>1, <2>3 DEF OpToRel
    <3>3. QED
      BY <2>2, <3>1, <3>2
  <2>5. PICK i \in Used : ~(i < x - 1)
    BY <2>3, <2>4
  <2>6. i \in Int /\ \A j \in Used : j \in Int /\ j < x
    BY <1>1, SlotsFacts
  <2>7. \A j \in Used : j <= i
    BY <2>5, <2>6
  <2>8. QED
    BY <1>1, <1>3, <2>7, SlotsFacts DEF End
<1>4. QED
  BY <1>2, <1>3

---------------------------------------------------------------------------
(* Closing the gaps *)

LEMMA UsedFacts ==
    ASSUME FileType
    PROVE  /\ Used \subseteq Slots /\ IsFiniteSet(Used)
           /\ \A i \in Used : i \in Int /\ email[i] \in Letters
           /\ Cardinality(Used) \in 0 .. LastSlot + 1
<1>1. Used \subseteq Slots /\ IsFiniteSet(Slots) /\ Cardinality(Slots) = LastSlot + 1
  BY SlotsFacts, FS_Interval DEF Used, Slots
<1>2. IsFiniteSet(Used) /\ Cardinality(Used) \in Nat /\ Cardinality(Used) <= LastSlot + 1
  BY <1>1, FS_Subset, FS_CardinalityType
<1>3. QED
  BY <1>1, <1>2, SlotsFacts DEF Used, FileType

LEMMA RankType ==
    ASSUME FileType, NEW i \in Used
    PROVE  Rank(i) \in Nat /\ Rank(i) < Cardinality(Used) /\ Rank(i) \in Slots /\ Rank(i) <= i
<1>. DEFINE B == {j \in Used : j < i}
<1>1. B \in SUBSET Used /\ i \notin B /\ i \in Int /\ i \in Slots
  BY UsedFacts
<1>2. IsFiniteSet(B) /\ Cardinality(B) \in Nat /\ Cardinality(B) <= Cardinality(Used)
  BY <1>1, UsedFacts, FS_Subset, FS_CardinalityType
<1>3. Cardinality(B) # Cardinality(Used)
  BY <1>1, UsedFacts, FS_Subset
<1>4. Cardinality(B) <= i
  <2>. i \in Nat
    BY <1>1, SlotsFacts
  <2>1. B \in SUBSET (0 .. i - 1)
    <3>1. \A j \in B : j \in Slots /\ j < i
      BY <1>1, UsedFacts
    <3>2. \A j \in B : j \in 0 .. i - 1
      BY <3>1, SlotsFacts
    <3>3. QED
      BY <3>2
  <2>2. IsFiniteSet(0 .. i - 1) /\ Cardinality(0 .. i - 1) = i
    <3>1. 0 \in Int /\ i - 1 \in Int
      OBVIOUS
    <3>2. IsFiniteSet(0 .. i - 1)
          /\ Cardinality(0 .. i - 1) = IF 0 > i - 1 THEN 0 ELSE i - 1 - 0 + 1
      BY <3>1, FS_Interval
    <3>3. QED
      BY <3>2
  <2>3. QED
    BY <2>1, <2>2, FS_Subset
<1>5. QED
  BY <1>1, <1>2, <1>3, <1>4, UsedFacts, SlotsFacts DEF Rank

LEMMA RankGrows ==
    ASSUME FileType, NEW i \in Used, NEW j \in Used, i < j
    PROVE  Rank(i) < Rank(j)
<1>. DEFINE B(x) == {k \in Used : k < x}
<1>1. B(i) \in SUBSET B(j) /\ i \in B(j) /\ i \notin B(i)
  BY UsedFacts
<1>2. IsFiniteSet(B(j)) /\ Cardinality(B(i)) \in Nat /\ Cardinality(B(j)) \in Nat
  <2>1. B(j) \in SUBSET Used /\ B(i) \in SUBSET Used
    OBVIOUS
  <2>2. QED
    BY <2>1, UsedFacts, FS_Subset, FS_CardinalityType
<1>3. Cardinality(B(i)) <= Cardinality(B(j)) /\ Cardinality(B(i)) # Cardinality(B(j))
  BY <1>1, <1>2, FS_Subset
<1>4. QED
  BY <1>2, <1>3 DEF Rank

\* Every letter is moved to its rank, and there is nothing else in the file.
LEMMA PackedFacts ==
    ASSUME FileType
    PROVE  /\ Packed \in [Slots -> Letters \union {NoLetter}]
           /\ \A i \in Used : Packed[Rank(i)] = email[i]
           /\ \A k \in Slots : Packed[k] # NoLetter =>
                  \E i \in Used : Rank(i) = k /\ Packed[k] = email[i]
           /\ \A i, j \in Used : Rank(i) < Rank(j) => i < j
           /\ \A i, j \in Used : Rank(i) = Rank(j) => i = j
<1>1. \A i, j \in Used : Rank(i) = Rank(j) => i = j
  <2>1. SUFFICES ASSUME NEW i \in Used, NEW j \in Used, Rank(i) = Rank(j), i # j PROVE FALSE
    OBVIOUS
  <2>2. i \in Int /\ j \in Int /\ Rank(i) \in Nat
    BY UsedFacts, RankType
  <2>3. CASE i < j
    BY <2>1, <2>2, <2>3, RankGrows
  <2>4. CASE j < i
    BY <2>1, <2>2, <2>4, RankGrows
  <2>5. QED
    BY <2>1, <2>2, <2>3, <2>4
<1>2. \A i, j \in Used : Rank(i) < Rank(j) => i < j
  <2>1. SUFFICES ASSUME NEW i \in Used, NEW j \in Used, Rank(i) < Rank(j), ~(i < j) PROVE FALSE
    OBVIOUS
  <2>2. i \in Int /\ j \in Int /\ Rank(i) \in Nat /\ Rank(j) \in Nat
    BY UsedFacts, RankType
  <2>3. CASE j < i
    BY <2>1, <2>2, <2>3, RankGrows
  <2>4. CASE i = j
    BY <2>1, <2>2, <2>4
  <2>5. QED
    BY <2>1, <2>2, <2>3, <2>4
<1>3. \A i \in Used : Packed[Rank(i)] = email[i]
  BY <1>1, RankType DEF Packed
<1>4. \A k \in Slots : Packed[k] # NoLetter => \E i \in Used : Rank(i) = k /\ Packed[k] = email[i]
  BY DEF Packed
<1>5. Packed \in [Slots -> Letters \union {NoLetter}]
  <2>1. ASSUME NEW k \in Slots PROVE Packed[k] \in Letters \union {NoLetter}
    BY <1>4, UsedFacts
  <2>2. QED
    BY <2>1 DEF Packed
<1>6. QED
  BY <1>1, <1>2, <1>3, <1>4, <1>5

---------------------------------------------------------------------------
(* Type correctness *)

LEMMA InstanceFacts ==
    ASSUME NEW nd \in Instance
    PROVE  /\ nd.rec \in Slots /\ nd.m \in Letters \union {NoLetter}
           /\ \A r \in Listed(nd) : /\ r \in Slots /\ nd.mloc[r] \in Entries
                                    /\ nd.mloc[r].index \in Slots
BY DEF Instance, Listed, Entries, NoEntry

LEMMA NotedType ==
    ASSUME NEW nd \in Instance, NEW n
    PROVE  /\ Noted(n, nd) \in Instance /\ Noted(n, nd).pc = nd.pc
           /\ Noted(n, nd).user = nd.user /\ Noted(n, nd).hand = nd.hand
           /\ Noted(n, nd).mloc = nd.mloc /\ Noted(n, nd).m = nd.m
           /\ Noted(n, nd).rec = nd.rec /\ Noted(n, nd).use = nd.use
           /\ Noted(n, nd).emchg = (nd.emchg \/ (n \in changed /\ nd.mloc # NoList))
BY DEF Noted, Instance

LEMMA LoseType ==
    ASSUME NEW nd \in Instance, NEW r \in Slots
    PROVE  /\ Lose(nd, r) \in Instance /\ Lose(nd, r).pc = nd.pc
           /\ Lose(nd, r).user = nd.user /\ Lose(nd, r).hand = nd.hand
           /\ Lose(nd, r).emchg = nd.emchg
           /\ Lose(nd, r).mloc = [nd.mloc EXCEPT ![r].index = Gone]
<1>1. [nd.mloc EXCEPT ![r].index = Gone] \in [Slots -> Entries \union {NoEntry}]
  <2>1. nd.mloc[r] \in Entries \union {NoEntry}
    BY DEF Instance
  <2>2. [nd.mloc[r] EXCEPT !.index = Gone] \in Entries \union {NoEntry}
    BY <2>1 DEF Entries, NoEntry
  <2>3. QED
    BY <2>2 DEF Instance
<1>2. QED
  BY <1>1 DEF Lose, Instance

LEMMA PromptType ==
    ASSUME NEW nd \in Instance
    PROVE  /\ Prompt(nd) \in Instance /\ Prompt(nd).pc = "mail"
           /\ Prompt(nd).user = nd.user /\ Prompt(nd).hand = nd.hand
           /\ Prompt(nd).mloc = nd.mloc /\ Prompt(nd).m = NoLetter
           /\ Prompt(nd).emchg = nd.emchg
BY SlotsFacts DEF Prompt, Instance, Steps, Uses

LEMMA RefoundType ==
    ASSUME NEW nd \in Instance
    PROVE  Refound(nd) \in [Slots -> Entries \union {NoEntry}]
<1>1. ASSUME NEW r \in Slots, NEW i \in Slots, FoundAt(nd, r, i)
      PROVE  nd.mloc[r] \in Entries
  BY <1>1, InstanceFacts DEF FoundAt
<1>2. ASSUME NEW r \in Slots PROVE Refound(nd)[r] \in Entries \union {NoEntry}
  <2>1. CASE \E i \in Slots : FoundAt(nd, r, i)
    <3>1. (CHOOSE i \in Slots : FoundAt(nd, r, i)) \in Slots
      BY <2>1
    <3>2. QED
      BY <1>1, <2>1, <3>1 DEF Refound, Entries
  <2>2. CASE ~ \E i \in Slots : FoundAt(nd, r, i)
    BY <2>2 DEF Refound, Instance, Entries, NoEntry
  <2>3. QED
    BY <2>1, <2>2
<1>3. QED
  BY <1>2 DEF Refound

LEMMA ReadType ==
    ASSUME FileType, NEW nd \in Instance, NEW r \in Listed(nd)
    PROVE  Read(nd, r) \in Letters \union {NoLetter}
BY InstanceFacts DEF Read, FileType

LEMMA ListOfType ==
    ASSUME FileType, NEW u
    PROVE  ListOf(u) \in [Slots -> Entries \union {NoEntry}]
BY DEF ListOf, FileType, Entry, Entries, Letters

\* What an instance holds while it sends, and that somebody uses it.
SessionOK(nd) == /\ nd.pc = "send" => /\ nd.hand \in Hands
                                      /\ nd.hand.multi \/ Len(nd.hand.to) <= 1
                 /\ nd.pc \notin {"off", "pack"} => nd.user \in Users
Sessions == \A n \in Nodes : SessionOK(node[n])
TypeInv == TypeOK /\ Sessions

LEMMA DoType ==
    ASSUME TypeInv, NEW n \in Nodes, NEW nd \in Instance, SessionOK(nd), Do(n, nd)
    PROVE  node' \in [Nodes -> Instance] /\ Sessions'
BY DEF TypeInv, TypeOK, Sessions, Do

LEMMA OffLineType == OffLine \in Instance /\ SessionOK(OffLine)
<1>1. NoList \in [Slots -> Entries \union {NoEntry}]
  BY DEF NoList
<1>2. QED
  BY <1>1, SlotsFacts DEF OffLine, Instance, Steps, Uses, SessionOK

LEMMA DelMailType ==
    ASSUME TypeOK, NEW S, DelMail(S)
    PROVE  /\ email' \in [Slots -> Letters \union {NoLetter}]
           /\ text' \in [Places -> Messages \union {NoText}]
           /\ size' = size
BY DEF TypeOK, DelMail

LEMMA GrownType ==
    ASSUME TypeOK, NEW end \in 0 .. LastSlot + 1
    PROVE  Grown(end) \in 0 .. LastSlot + 1 /\ Grown(end) >= end /\ Grown(end) >= size
BY SlotsFacts DEF TypeOK, Grown

LEMMA AppendType ==
    ASSUME TypeOK, NEW l \in Letters, NEW list \in Lists, AppendLetters(l, list)
    PROVE  /\ email' \in [Slots -> Letters \union {NoLetter}]
           /\ size' \in 0 .. LastSlot + 1
<1>1. FileType
  BY DEF TypeOK, FileType
<1>2. End \in 0 .. LastSlot + 1 /\ Len(list) \in Nat /\ list \in [1 .. Len(list) -> Users]
  BY <1>1, EndFacts, ListFacts
<1>3. size' \in 0 .. LastSlot + 1
  <2>1. End + Len(list) \in 0 .. LastSlot + 1
    BY <1>2, SlotsFacts DEF AppendLetters
  <2>2. QED
    BY <2>1, GrownType DEF AppendLetters, TypeOK
<1>4. ASSUME NEW k \in 1 .. Len(list) PROVE [l EXCEPT !.touser = list[k]] \in Letters
  BY <1>2 DEF Letters
<1>5. QED
  BY <1>2, <1>3, <1>4 DEF AppendLetters, TypeOK

\* Steps of a session.
LEMMA SessionType ==
    ASSUME TypeInv, NEW n \in Nodes,
           GetStatus(n) \/ LogOn(n) \/ LogOff(n) \/ Pack(n) \/ Crash(n)
    PROVE  TypeInv'
<1>. USE DEF TypeInv
<1>1. node[n] \in Instance /\ SessionOK(node[n]) /\ FileType
  BY DEF TypeOK, Sessions, FileType
<1>2. CASE GetStatus(n)
  <2>1. SessionOK(Noted(n, node[n]))
    BY <1>1, NotedType DEF SessionOK
  <2>2. QED
    BY <1>1, <1>2, <2>1, NotedType, DoType DEF GetStatus, TypeOK
<1>3. CASE LogOn(n)
  <2>1. PICK u \in Users : Do(n, [OffLine EXCEPT !.pc = "main", !.user = u])
    BY <1>3 DEF LogOn
  <2>. DEFINE nd == [OffLine EXCEPT !.pc = "main", !.user = u]
  <2>2. nd \in Instance /\ SessionOK(nd)
    BY OffLineType DEF Instance, Steps, SessionOK
  <2>3. QED
    BY <1>3, <2>1, <2>2, DoType DEF LogOn, TypeOK
<1>4. CASE LogOff(n)
  <2>. DEFINE nd == [OffLine EXCEPT !.pc = "pack", !.mailcheck = TRUE]
  <2>1. nd \in Instance /\ SessionOK(nd)
    BY OffLineType DEF Instance, Steps, SessionOK
  <2>2. PICK ne \in {nd, OffLine} : Do(n, ne)
    BY <1>4 DEF LogOff
  <2>3. QED
    BY <1>4, <2>1, <2>2, OffLineType, DoType DEF LogOff, TypeOK
<1>5. CASE Pack(n)
  <2>1. /\ Packed \in [Slots -> Letters \union {NoLetter}]
        /\ Cardinality(Used) \in 0 .. LastSlot + 1
    BY <1>1, PackedFacts, UsedFacts
  <2>2. QED
    BY <1>5, <2>1, OffLineType, DoType DEF Pack, TypeOK
<1>6. CASE Crash(n)
  BY <1>6, OffLineType, DoType DEF Crash, TypeOK
<1>7. QED
  BY <1>2, <1>3, <1>4, <1>5, <1>6

LEMMA SendType ==
    ASSUME TypeInv, NEW n \in Nodes, Write(n) \/ Send(n)
    PROVE  TypeInv'
<1>. USE DEF TypeInv
<1>1. node[n] \in Instance /\ SessionOK(node[n])
  BY DEF TypeOK, Sessions
<1>2. CASE Write(n)
  <2>1. PICK m \in Messages \ written, p \in Places, w \in Mailings :
            /\ text' = [text EXCEPT ![p] = m] /\ written' = written \union {m}
            /\ Do(n, [node[n] EXCEPT !.pc = "send",
                          !.hand = [fromuser |-> node[n].user, msg |-> p, to |-> w.to,
                                    multi |-> w.multi, back |-> node[n].pc]])
    BY <1>2 DEF Write
  <2>. DEFINE h == [fromuser |-> node[n].user, msg |-> p, to |-> w.to,
                    multi |-> w.multi, back |-> node[n].pc]
              nd == [node[n] EXCEPT !.pc = "send", !.hand = h]
  <2>2. node[n].pc \in {"main", "shown"} /\ node[n].user \in Users
    BY <1>1, <1>2 DEF Write, SessionOK
  <2>3. w.to \in Lists /\ w.multi \in BOOLEAN /\ (w.multi \/ Len(w.to) = 1)
    BY MailAssumption
  <2>4. h \in Hands
    BY <2>2, <2>3 DEF Hands
  <2>5. nd \in Instance /\ SessionOK(nd)
    <3>1. h.multi \/ Len(h.to) <= 1
      <4>1. h.multi = w.multi /\ h.to = w.to
        OBVIOUS
      <4>. HIDE DEF h
      <4>2. CASE w.multi
        BY <4>1, <4>2
      <4>3. CASE Len(w.to) = 1
        BY <4>1, <4>3
      <4>4. QED
        BY <2>3, <4>2, <4>3
    <3>. HIDE DEF h
    <3>2. nd \in Instance
      BY <1>1, <2>4 DEF Instance, Steps
    <3>3. nd.pc = "send" /\ nd.hand = h /\ nd.user = node[n].user
      BY <1>1 DEF Instance
    <3>4. QED
      BY <2>2, <2>4, <3>1, <3>2, <3>3 DEF SessionOK
  <2>6. QED
    BY <1>2, <2>1, <2>5, DoType DEF Write, TypeOK
<1>3. CASE Send(n)
  <2>. DEFINE h == node[n].hand
              nd == [node[n] EXCEPT !.pc = h.back, !.hand = NoHand]
              l == [fromuser |-> h.fromuser, touser |-> h.fromuser,
                    daten |-> daten', msg |-> h.msg, multi |-> h.multi]
  <2>1. h \in Hands /\ node[n].user \in Users
    BY <1>1, <1>3 DEF Send, SessionOK
  <2>2. nd \in Instance /\ SessionOK(nd)
    BY <1>1, <2>1 DEF Instance, Steps, Hands, SessionOK
  <2>3. daten' \in 1 .. MaxTime
    BY <1>3, SlotsFacts DEF Send, TypeOK
  <2>4. l \in Letters /\ h.to \in Lists
    BY <2>1, <2>3 DEF Letters, Hands
  <2>5. AppendLetters(l, h.to) /\ Do(n, nd)
    BY <1>3 DEF Send
  <2>6. email' \in [Slots -> Letters \union {NoLetter}] /\ size' \in 0 .. LastSlot + 1
    BY <2>4, <2>5, AppendType
  <2>7. QED
    BY <1>3, <2>2, <2>3, <2>5, <2>6, DoType DEF Send, TypeOK
<1>4. QED
  BY <1>2, <1>3

\* Steps of a reader that leave the letters as they are.
LEMMA LookType ==
    ASSUME TypeInv, NEW n \in Nodes,
           \/ ReadMail(n) \/ Quit(n) \/ Lost(n) \/ AskForward(n) \/ NoForward(n)
           \/ ForwardMoved(n) \/ Look(n)
           \/ \E r \in Slots : Show(n, r) \/ Miss(n, r)
    PROVE  TypeInv'
<1>. USE DEF TypeInv
<1>1. node[n] \in Instance /\ SessionOK(node[n]) /\ FileType
  BY DEF TypeOK, Sessions, FileType
<1>2. CASE ReadMail(n)
  <2>. DEFINE nd == [node[n] EXCEPT !.pc = "mail", !.mloc = ListOf(node[n].user),
                                    !.emchg = FALSE]
  <2>1. nd \in Instance /\ SessionOK(nd)
    BY <1>1, <1>2, ListOfType DEF ReadMail, Instance, Steps, SessionOK
  <2>2. QED
    BY <1>2, <2>1, DoType DEF ReadMail, TypeOK
<1>3. CASE Quit(n)
  <2>. DEFINE nd == [OffLine EXCEPT !.pc = "main", !.user = node[n].user,
                                    !.mailcheck = node[n].mailcheck]
  <2>1. nd \in Instance /\ SessionOK(nd)
    BY <1>1, <1>3, OffLineType DEF Quit, Instance, Steps, SessionOK
  <2>2. QED
    BY <1>3, <2>1, DoType DEF Quit, TypeOK
<1>4. CASE Lost(n)
  <2>. DEFINE nd == Noted(n, node[n])
              ne == [nd EXCEPT !.pc = "resynch"]
              nf == Prompt(Lose(nd, nd.rec))
  <2>1. nd \in Instance /\ nd.user \in Users
    BY <1>1, <1>4, NotedType DEF Lost, SessionOK
  <2>2. ne \in Instance /\ SessionOK(ne)
    BY <2>1 DEF Instance, Steps, SessionOK
  <2>3. nf \in Instance /\ SessionOK(nf)
    <3>1. Lose(nd, nd.rec) \in Instance /\ Lose(nd, nd.rec).user = nd.user
      BY <2>1, InstanceFacts, LoseType
    <3>2. QED
      BY <2>1, <3>1, PromptType DEF SessionOK
  <2>4. PICK x \in {ne, nf} : Do(n, x)
    BY <1>4 DEF Lost
  <2>5. QED
    BY <1>4, <2>2, <2>3, <2>4, DoType DEF Lost, TypeOK
<1>5. CASE AskForward(n)
  <2>. DEFINE nd == [node[n] EXCEPT !.pc = "forward"]
  <2>1. nd \in Instance /\ SessionOK(nd)
    BY <1>1, <1>5 DEF AskForward, Instance, Steps, SessionOK
  <2>2. QED
    BY <1>5, <2>1, DoType DEF AskForward, TypeOK
<1>6. CASE NoForward(n)
  <2>. DEFINE nd == [node[n] EXCEPT !.pc = "shown"]
  <2>1. nd \in Instance /\ SessionOK(nd)
    BY <1>1, <1>6 DEF NoForward, Instance, Steps, SessionOK
  <2>2. QED
    BY <1>6, <2>1, DoType DEF NoForward, TypeOK
<1>7. CASE ForwardMoved(n)
  <2>1. Prompt(node[n]) \in Instance /\ SessionOK(Prompt(node[n]))
    BY <1>1, <1>7, PromptType DEF ForwardMoved, SessionOK
  <2>2. QED
    BY <1>7, <2>1, DoType DEF ForwardMoved, TypeOK
<1>8. CASE Look(n)
  <2>1. PICK i \in Used : Do(n, [node[n] EXCEPT !.pc = "kill", !.rec = i, !.m = email[i]])
    BY <1>8 DEF Look
  <2>. DEFINE nd == [node[n] EXCEPT !.pc = "kill", !.rec = i, !.m = email[i]]
  <2>2. i \in Slots /\ email[i] \in Letters
    BY <1>1, UsedFacts
  <2>3. nd \in Instance /\ SessionOK(nd)
    BY <1>1, <1>8, <2>2 DEF Look, Instance, Steps, SessionOK
  <2>4. QED
    BY <1>8, <2>1, <2>3, DoType DEF Look, TypeOK
<1>9. ASSUME NEW r \in Slots, Show(n, r) PROVE TypeInv'
  <2>. DEFINE nd == [node[n] EXCEPT !.pc = "shown", !.rec = r, !.m = Read(node[n], r)]
  <2>1. Read(node[n], r) \in Letters \union {NoLetter}
    BY <1>1, <1>9, ReadType DEF Show
  <2>2. nd \in Instance /\ SessionOK(nd)
    BY <1>1, <1>9, <2>1 DEF Show, Instance, Steps, SessionOK
  <2>3. QED
    BY <1>9, <2>2, DoType DEF Show, TypeOK
<1>10. ASSUME NEW r \in Slots, Miss(n, r) PROVE TypeInv'
  <2>1. PICK use \in Uses : Do(n, [node[n] EXCEPT !.pc = "lost", !.rec = r, !.use = use,
                                                  !.m = NoLetter])
    BY <1>10 DEF Miss
  <2>. DEFINE nd == [node[n] EXCEPT !.pc = "lost", !.rec = r, !.use = use, !.m = NoLetter]
  <2>2. nd \in Instance /\ SessionOK(nd)
    BY <1>1, <1>10 DEF Miss, Instance, Steps, SessionOK
  <2>3. QED
    BY <1>10, <2>1, <2>2, DoType DEF Miss, TypeOK
<1>11. QED
  BY <1>2, <1>3, <1>4, <1>5, <1>6, <1>7, <1>8, <1>9, <1>10

\* Steps that remove, mark or forward.
LEMMA ChangeType ==
    ASSUME TypeInv, NEW n \in Nodes,
           \/ ResynchEmail(n) \/ Mark(n) \/ Delete(n) \/ DeleteBehindEnd(n) \/ Purge(n)
           \/ Forward(n) \/ Kill(n)
    PROVE  TypeInv'
<1>. USE DEF TypeInv
<1>1. node[n] \in Instance /\ SessionOK(node[n]) /\ FileType
  BY DEF TypeOK, Sessions, FileType
<1>2. CASE ResynchEmail(n)
  <2>. DEFINE nd == [node[n] EXCEPT !.mloc = Refound(node[n])]
              r == nd.rec
  <2>1. nd \in Instance /\ nd.user \in Users /\ r \in Slots
    BY <1>1, <1>2, RefoundType DEF ResynchEmail, Instance, SessionOK
  <2>. HIDE DEF nd
  <2>2. CASE r \notin Listed(nd) /\ Do(n, Prompt(nd)) /\ UNCHANGED <<email, size, text>>
    <3>1. SessionOK(Prompt(nd)) /\ Prompt(nd) \in Instance
      BY <2>1, PromptType DEF SessionOK
    <3>2. QED
      BY <1>2, <2>2, <3>1, DoType DEF ResynchEmail, TypeOK
  <2>3. CASE /\ r \in Listed(nd)
             /\ Do(n, [nd EXCEPT !.pc = "shown", !.use = "show", !.m = email[nd.mloc[r].index]])
             /\ UNCHANGED <<email, size, text>>
    <3>. DEFINE ne == [nd EXCEPT !.pc = "shown", !.use = "show", !.m = email[nd.mloc[r].index]]
    <3>1. email[nd.mloc[r].index] \in Letters \union {NoLetter}
      <4>1. nd.mloc[r].index \in Slots
        BY <2>1, <2>3, InstanceFacts
      <4>2. QED
        BY <1>1, <4>1 DEF FileType
    <3>2. ne \in Instance /\ SessionOK(ne)
      BY <2>1, <3>1 DEF Instance, Steps, Uses, SessionOK
    <3>3. QED
      BY <1>2, <2>3, <3>2, DoType DEF ResynchEmail, TypeOK
  <2>4. CASE /\ r \in Listed(nd) /\ DelMail({nd.mloc[r].index})
             /\ Do(n, [Prompt(Lose(nd, r)) EXCEPT !.mailcheck = TRUE])
    <3>. DEFINE ne == [Prompt(Lose(nd, r)) EXCEPT !.mailcheck = TRUE]
    <3>1. Prompt(Lose(nd, r)) \in Instance /\ Prompt(Lose(nd, r)).user \in Users
          /\ Prompt(Lose(nd, r)).pc = "mail"
      <4>1. Lose(nd, r) \in Instance /\ Lose(nd, r).user = nd.user
        BY <2>1, LoseType
      <4>2. QED
        BY <2>1, <4>1, PromptType
    <3>2. ne \in Instance /\ SessionOK(ne)
      BY <3>1 DEF Instance, SessionOK
    <3>3. QED
      BY <1>2, <2>4, <3>2, DoType, DelMailType DEF ResynchEmail, TypeOK
  <2>5. QED
    BY <1>2, <2>2, <2>3, <2>4 DEF ResynchEmail, nd
<1>3. CASE Mark(n)
  <2>. DEFINE i == node[n].mloc[node[n].rec].index
  <2>1. node[n].rec \in Listed(node[n])
    BY <1>3 DEF Mark, Stands
  <2>2. i \in Slots /\ Read(node[n], node[n].rec) \in Letters \union {NoLetter}
    BY <1>1, <2>1, InstanceFacts, ReadType
  <2>3. Grown(i + 1) \in 0 .. LastSlot + 1
    BY <2>2, SlotsFacts, GrownType
  <2>4. email' \in [Slots -> Letters \union {NoLetter}]
    BY <1>3, <2>2 DEF Mark, TypeOK
  <2>5. astray' \in BOOLEAN
    BY <1>3 DEF Mark, TypeOK, InFile
  <2>6. QED
    BY <1>3, <2>3, <2>4, <2>5 DEF Mark, TypeOK, Sessions
<1>4. CASE Delete(n) \/ DeleteBehindEnd(n)
  <2>. DEFINE r == node[n].rec
              nd == Prompt(Lose(node[n], r))
              ne == [nd EXCEPT !.mailcheck = TRUE]
  <2>1. r \in Listed(node[n]) /\ node[n].user \in Users
    BY <1>1, <1>4 DEF Delete, DeleteBehindEnd, Stands, SessionOK
  <2>2. r \in Slots /\ node[n].mloc[r].index + 1 \in 0 .. LastSlot + 1
    BY <1>1, <2>1, InstanceFacts, SlotsFacts
  <2>3. nd \in Instance /\ nd.user \in Users /\ nd.pc = "mail"
    <3>1. Lose(node[n], r) \in Instance /\ Lose(node[n], r).user = node[n].user
      BY <1>1, <2>2, LoseType
    <3>2. QED
      BY <2>1, <3>1, PromptType
  <2>4. ne \in Instance /\ SessionOK(ne) /\ SessionOK(nd)
    BY <2>3 DEF Instance, SessionOK
  <2>5. CASE Delete(n)
    BY <2>4, <2>5, DoType, DelMailType DEF Delete, TypeOK
  <2>6. CASE DeleteBehindEnd(n)
    <3>1. PICK x \in {nd, ne} : Do(n, x)
      BY <2>6 DEF DeleteBehindEnd
    <3>2. text' \in [Places -> Messages \union {NoText}] /\ size' \in 0 .. LastSlot + 1
      BY <2>2, <2>6 DEF DeleteBehindEnd, TypeOK
    <3>3. QED
      BY <2>3, <2>4, <2>6, <3>1, <3>2, DoType DEF DeleteBehindEnd, TypeOK
  <2>7. QED
    BY <1>4, <2>5, <2>6
<1>5. CASE Purge(n)
  <2>1. PICK hits \in SUBSET Listed(node[n]) :
            /\ DelMail({node[n].mloc[s].index : s \in hits})
            /\ Do(n, [Prompt(node[n]) EXCEPT !.mailcheck = @ \/ hits # {},
                      !.mloc = [s \in Slots |-> IF s \in hits THEN [@[s] EXCEPT !.index = Gone]
                                                ELSE @[s]]])
    BY <1>5 DEF Purge
  <2>. DEFINE nd == Prompt(node[n])
              list == [s \in Slots |-> IF s \in hits THEN [nd.mloc[s] EXCEPT !.index = Gone]
                                       ELSE nd.mloc[s]]
              ne == [nd EXCEPT !.mailcheck = @ \/ hits # {}, !.mloc = list]
  <2>2. nd \in Instance /\ nd.pc = "mail" /\ nd.user \in Users
    BY <1>1, <1>5, PromptType DEF Purge, SessionOK
  <2>3. list \in [Slots -> Entries \union {NoEntry}]
    <3>1. ASSUME NEW s \in Slots PROVE [nd.mloc[s] EXCEPT !.index = Gone] \in Entries \union {NoEntry}
      <4>1. nd.mloc[s] \in Entries \union {NoEntry}
        BY <2>2 DEF Instance
      <4>2. QED
        BY <4>1 DEF Entries, NoEntry
    <3>2. QED
      BY <2>2, <3>1 DEF Instance
  <2>4. ne \in Instance /\ SessionOK(ne)
    <3>. HIDE DEF nd, list
    <3>. QED
      BY <2>2, <2>3 DEF Instance, SessionOK
  <2>5. Do(n, ne)
    BY <2>1
  <2>6. QED
    BY <1>5, <2>1, <2>4, <2>5, DoType, DelMailType DEF Purge, TypeOK
<1>6. CASE Forward(n)
  <2>. DEFINE i == node[n].mloc[node[n].rec].index
              l == Read(node[n], node[n].rec)
  <2>1. node[n].rec \in Listed(node[n]) /\ l # NoLetter
    BY <1>6 DEF Forward, Stands, SameEmail
  <2>2. i \in Slots /\ l \in Letters /\ node[n].user \in Users
    BY <1>1, <1>6, <2>1, InstanceFacts, ReadType DEF Forward, SessionOK
  <2>3. PICK u \in Users :
            Do(n, [Prompt(node[n]) EXCEPT !.pc = "send", !.mailcheck = TRUE,
                       !.hand = [fromuser |-> l.fromuser, msg |-> l.msg, to |-> <<u>>,
                                 multi |-> FALSE, back |-> "mail"]])
    BY <1>6 DEF Forward
  <2>. DEFINE h == [fromuser |-> l.fromuser, msg |-> l.msg, to |-> <<u>>,
                    multi |-> FALSE, back |-> "mail"]
              nd == [Prompt(node[n]) EXCEPT !.pc = "send", !.mailcheck = TRUE, !.hand = h]
  <2>4. h \in Hands /\ Len(h.to) <= 1
    BY <2>2, SingleList DEF Hands, Letters
  <2>5. nd \in Instance /\ SessionOK(nd)
    <3>. HIDE DEF h
    <3>. DEFINE pr == Prompt(node[n])
    <3>0. pr \in Instance
      BY <1>1, PromptType
    <3>. HIDE DEF pr
    <3>7. [pr EXCEPT !.pc = "send", !.mailcheck = TRUE, !.hand = h] \in Instance
      BY <2>4, <3>0 DEF Instance, Steps
    <3>1. nd \in Instance
      BY <3>7 DEF pr
    <3>2. nd.pc = "send" /\ nd.hand = h /\ nd.user = node[n].user
      BY <1>1, PromptType DEF Instance
    <3>3. QED
      BY <2>2, <2>4, <3>1, <3>2 DEF SessionOK
  <2>6. Grown(i + 1) \in 0 .. LastSlot + 1
    BY <2>2, SlotsFacts, GrownType
  <2>7. email' \in [Slots -> Letters \union {NoLetter}] /\ astray' \in BOOLEAN
    BY <1>6 DEF Forward, TypeOK, InFile
  <2>8. QED
    BY <1>6, <2>3, <2>5, <2>6, <2>7, DoType DEF Forward, TypeOK
<1>7. CASE Kill(n)
  <2>. DEFINE nd == [node[n] EXCEPT !.pc = "main", !.rec = 0, !.m = NoLetter]
              ne == [nd EXCEPT !.mailcheck = TRUE]
  <2>1. nd \in Instance /\ SessionOK(nd) /\ ne \in Instance /\ SessionOK(ne)
    BY <1>1, <1>7, SlotsFacts DEF Kill, Instance, Steps, SessionOK
  <2>2. PICK x \in {nd, ne} : Do(n, x)
    BY <1>7 DEF Kill
  <2>3. DelMail({node[n].rec}) \/ UNCHANGED <<email, size, text>>
    BY <1>7 DEF Kill
  <2>4. email' \in [Slots -> Letters \union {NoLetter}]
        /\ text' \in [Places -> Messages \union {NoText}] /\ size' = size
    BY <2>3, DelMailType DEF TypeOK
  <2>5. QED
    BY <1>7, <2>1, <2>2, <2>4, DoType DEF Kill, TypeOK
<1>8. QED
  BY <1>2, <1>3, <1>4, <1>5, <1>6, <1>7

LEMMA TypeInit == Init => TypeInv
<1>1. Init => TypeOK
  <2>1. 0 \in 0 .. LastSlot + 1 /\ 0 \in 0 .. MaxTime
    BY SlotsFacts
  <2>2. OffLine \in Instance
    BY OffLineType
  <2>3. QED
    BY <2>1, <2>2 DEF Init, TypeOK
<1>2. Init => Sessions
  BY OffLineType DEF Init, Sessions
<1>3. QED
  BY <1>1, <1>2 DEF TypeInv

LEMMA TypeNext == TypeInv /\ [Next]_vars => TypeInv'
<1>1. ASSUME TypeInv, NEW n \in Nodes, NodeStep(n) PROVE TypeInv'
  BY <1>1, SessionType, SendType, LookType, ChangeType DEF NodeStep, Reader
<1>2. ASSUME TypeInv, UNCHANGED vars PROVE TypeInv'
  BY <1>2 DEF vars, TypeInv, TypeOK, Sessions
<1>3. QED
  BY <1>1, <1>2 DEF Next

\* Instances keep their data, and EMAIL.DAT its records, within their types, for
\* any number of instances and users and any size of the file.
THEOREM MailTypeCorrect == Spec => []TypeOK
<1>1. TypeInv => TypeOK
  BY DEF TypeInv
<1>2. QED
  BY <1>1, TypeInit, TypeNext, PTL DEF Spec
=============================================================================
