----------------------------- MODULE MailProofs -----------------------------
(***************************************************************************)
(* The inductive invariant of Mail: as long as no place behind the end of  *)
(* EMAIL.DAT was written to, every letter has its text, no letter is there *)
(* twice, and no reader loses sight of a letter that is in the file.       *)
(* From it follows what the steps do to the letters: only letters that     *)
(* were meant are removed, and all of it implements PostOffice.            *)
(***************************************************************************)
EXTENDS MailTypeProofs

---------------------------------------------------------------------------
(* The inductive invariant.  Its parts are stated of a file f, its size z, *)
(* the texts t, the time d of the last letter, and an instance n with its  *)
(* data nd and those that were not told of a packing (ch), so that they    *)
(* can be used of the state before a step and of the one after it.         *)

File == [Slots -> Letters \union {NoLetter}]

In(f) == {i \in Slots : f[i] # NoLetter}

\* Letters are within the file and not newer than the clock, they have their
\* texts, and they share them only if they are of one multimail.
FileOK(f, z, t, d) ==
    /\ \A i \in In(f) : f[i].daten <= d /\ i < z /\ t[f[i].msg] # NoText
    /\ \A i, j \in In(f) : f[i].msg = f[j].msg /\ i # j => f[i].multi
    /\ \A i, j \in In(f) : f[i].daten = f[j].daten => f[i].multi = f[j].multi
    /\ \A i, j \in In(f) : Same(f[i], f[j]) => i = j

\* The list is older than the clock, only letters that are gone are marked as
\* gone, and the others are in the file in the order of the list.
ListOK(f, d, nd) ==
    /\ \A r \in Slots : nd.mloc[r].daten <= d
    /\ \A r \in Slots : \A i \in In(f) : SameEmail(nd, r, f[i]) => nd.mloc[r].index # Gone
    /\ \A s, r \in Listed(nd) : \A j, i \in In(f) :
           SameEmail(nd, s, f[j]) /\ SameEmail(nd, r, f[i]) /\ j < i => s < r

\* Unless the instance knows or is about to be told that letters were moved,
\* they are where its list says, and one it misses is not in the file.
PlaceOK(f, n, nd, ch) ==
    \/ nd.emchg \/ n \in ch
    \/ /\ \A r \in Slots : \A i \in In(f) : SameEmail(nd, r, f[i]) => nd.mloc[r].index = i
       /\ nd.pc = "lost" => \A i \in In(f) : ~SameEmail(nd, nd.rec, f[i])

\* What is on display is the letter the list has, and it has shared its text
\* if the letters of its time in the file do.
OnDisplay(nd) == nd.pc \in {"shown", "forward"} \/ (nd.pc = "send" /\ nd.hand.back = "shown")
DisplayOK(f, nd) ==
    /\ OnDisplay(nd) => /\ SameEmail(nd, nd.rec, nd.m)
                        /\ \A i \in In(f) : f[i].daten = nd.m.daten => f[i].multi = nd.m.multi
                        /\ nd.pc = "forward" => ~nd.m.multi
    /\ nd.m = NoLetter \/ OnDisplay(nd) \/ nd.pc = "kill"
    /\ nd.pc = "kill" => nd.m # NoLetter

\* A letter that is about to be sent has a text that no other letter has.
HandOK(f, t, nd) ==
    nd.pc = "send" => t[nd.hand.msg] # NoText /\ \A i \in In(f) : f[i].msg # nd.hand.msg

NodeOK(f, d, t, n, nd, ch) ==
    /\ ListOK(f, d, nd) /\ PlaceOK(f, n, nd, ch) /\ DisplayOK(f, nd) /\ HandOK(f, t, nd)
    /\ nd.pc = "off" => nd.mloc = NoList

HandsApart(nodes) ==
    \A a, b \in Nodes : nodes[a].pc = "send" /\ nodes[b].pc = "send" /\ a # b =>
                            nodes[a].hand.msg # nodes[b].hand.msg

Safe == /\ FileOK(email, size, text, daten)
        /\ \A n \in Nodes : NodeOK(email, daten, text, n, node[n], changed)
        /\ HandsApart(node)

IInv == TypeInv /\ (astray \/ Safe)

---------------------------------------------------------------------------
(* What a step leaves as it was *)

\* The letters of g that are not newer than d were in f, in the same order.
Evolves(f, d, g) ==
    \A k, l \in In(g) : g[k].daten <= d /\ g[l].daten <= d =>
        \E i, j \in In(f) : g[k] = f[i] /\ g[l] = f[j] /\ (k < l => i < j)

\* They were even at the same places.
Stays(f, d, g) == \A k \in In(g) : g[k].daten <= d => k \in In(f) /\ g[k] = f[k]

\* The list of ne is that of nd, but for letters of H that are marked as gone.
Fewer(nd, ne, H) ==
    /\ \A s \in Slots : /\ ne.mloc[s].daten = nd.mloc[s].daten
                        /\ ne.mloc[s].index = IF s \in H THEN Gone ELSE nd.mloc[s].index
    /\ \A s \in Slots : \A l : SameEmail(ne, s, l) => SameEmail(nd, s, l)

LEMMA InFacts ==
    ASSUME NEW f \in File
    PROVE  \A i \in In(f) : i \in Slots /\ i \in Int /\ f[i] \in Letters /\ f[i].daten \in Int
BY SlotsFacts DEF In, File, Letters

LEMMA EntryFacts ==
    ASSUME NEW nd \in Instance, NEW r \in Slots
    PROVE  /\ nd.mloc[r] \in Entries \union {NoEntry} /\ nd.mloc[r].daten \in Int
           /\ nd.mloc[r].index \in Slots \union {Gone}
           /\ r \in Listed(nd) <=> nd.mloc[r].index # Gone
<1>1. nd.mloc[r] \in Entries \union {NoEntry}
  BY DEF Instance
<1>2. QED
  BY <1>1 DEF Entries, NoEntry, Listed

LEMMA StaysEvolves ==
    ASSUME NEW f, NEW d, NEW g, Stays(f, d, g)
    PROVE  Evolves(f, d, g)
BY DEF Stays, Evolves

LEMMA NothingFewer ==
    ASSUME NEW nd, NEW ne, ne.mloc = nd.mloc, ne.user = nd.user
    PROVE  Fewer(nd, ne, {})
BY DEF Fewer, SameEmail

LEMMA ListKept ==
    ASSUME NEW f \in File, NEW g \in File, NEW d \in Int, NEW d2 \in Int, d <= d2,
           NEW nd \in Instance, NEW ne, NEW H, Fewer(nd, ne, H),
           \A s \in H \intersect Slots : \A i \in In(g) : ~SameEmail(nd, s, g[i]),
           ListOK(f, d, nd), Evolves(f, d, g)
    PROVE  ListOK(g, d2, ne)
<1>1. ASSUME NEW r \in Slots, NEW i \in In(g), SameEmail(ne, r, g[i])
      PROVE  SameEmail(nd, r, g[i]) /\ g[i].daten <= d /\ r \notin H
  BY <1>1 DEF Fewer, SameEmail, ListOK
<1>2. \A r \in Slots : ne.mloc[r].daten <= d2
  BY EntryFacts DEF Fewer, ListOK
<1>3. ASSUME NEW r \in Slots, NEW i \in In(g), SameEmail(ne, r, g[i])
      PROVE  ne.mloc[r].index # Gone
  <2>1. PICK j \in In(f) : g[i] = f[j]
    BY <1>1, <1>3 DEF Evolves
  <2>2. nd.mloc[r].index # Gone
    BY <1>1, <1>3, <2>1 DEF ListOK
  <2>3. QED
    BY <1>1, <1>3, <2>2 DEF Fewer
<1>4. ASSUME NEW s \in Listed(ne), NEW r \in Listed(ne), NEW j \in In(g), NEW i \in In(g),
             SameEmail(ne, s, g[j]), SameEmail(ne, r, g[i]), j < i
      PROVE  s < r
  <2>1. s \in Slots /\ r \in Slots
    BY DEF Listed
  <2>2. s \in Listed(nd) /\ r \in Listed(nd)
    BY <1>1, <1>4, <2>1 DEF Listed, Fewer
  <2>3. PICK k \in In(f), l \in In(f) : g[j] = f[k] /\ g[i] = f[l] /\ k < l
    BY <1>1, <1>4, <2>1 DEF Evolves
  <2>4. QED
    BY <1>1, <1>4, <2>1, <2>2, <2>3 DEF ListOK
<1>5. QED
  BY <1>2, <1>3, <1>4 DEF ListOK

LEMMA PlaceKept ==
    ASSUME NEW f \in File, NEW g \in File, NEW d \in Int,
           NEW nd \in Instance, NEW ne, NEW H, Fewer(nd, ne, H),
           \A s \in H \intersect Slots : \A i \in In(g) : ~SameEmail(nd, s, g[i]),
           NEW k, NEW ch, NEW ch2, ListOK(f, d, nd), PlaceOK(f, k, nd, ch), Stays(f, d, g),
           nd.emchg \/ k \in ch => ne.emchg \/ k \in ch2,
           ne.pc = "lost" => nd.pc = "lost" /\ ne.rec = nd.rec
    PROVE  PlaceOK(g, k, ne, ch2)
<1>1. ASSUME NEW r \in Slots, NEW i \in In(g), SameEmail(ne, r, g[i])
      PROVE  SameEmail(nd, r, f[i]) /\ i \in In(f) /\ r \notin H
  BY <1>1 DEF Fewer, SameEmail, ListOK, Stays
<1>2. CASE nd.emchg \/ k \in ch
  BY <1>2 DEF PlaceOK
<1>3. CASE ~(nd.emchg \/ k \in ch)
  <2>1. \A r \in Slots : \A i \in In(g) : SameEmail(ne, r, g[i]) => ne.mloc[r].index = i
    BY <1>1, <1>3 DEF PlaceOK, Fewer
  <2>2. nd.rec \in Slots
    BY InstanceFacts
  <2>3. ne.pc = "lost" => \A i \in In(g) : ~SameEmail(ne, ne.rec, g[i])
    BY <1>1, <1>3, <2>2 DEF PlaceOK
  <2>4. QED
    BY <2>1, <2>3 DEF PlaceOK
<1>4. QED
  BY <1>2, <1>3

LEMMA DisplayKept ==
    ASSUME NEW f \in File, NEW g \in File, NEW d \in Int, NEW nd \in Instance,
           ListOK(f, d, nd), DisplayOK(f, nd), Evolves(f, d, g)
    PROVE  DisplayOK(g, nd)
<1>1. nd.rec \in Slots
  BY InstanceFacts
<1>2. ASSUME OnDisplay(nd), NEW i \in In(g), g[i].daten = nd.m.daten
      PROVE  g[i].multi = nd.m.multi
  <2>1. g[i].daten <= d
    BY <1>1, <1>2 DEF DisplayOK, SameEmail, ListOK
  <2>2. PICK j \in In(f) : g[i] = f[j]
    BY <2>1 DEF Evolves
  <2>3. QED
    BY <1>2, <2>2 DEF DisplayOK
<1>3. QED
  BY <1>2 DEF DisplayOK

\* An instance without a list has nothing to lose.
LEMMA EmptyList ==
    ASSUME NEW f, NEW d \in Nat, NEW t, NEW n, NEW nd, NEW ch, nd.mloc = NoList,
           nd.rec \in Slots
    PROVE  /\ ListOK(f, d, nd) /\ PlaceOK(f, n, nd, ch)
           /\ nd.pc \notin {"send", "shown", "forward", "kill"} /\ nd.m = NoLetter =>
                  NodeOK(f, d, t, n, nd, ch)
<1>1. \A r \in Slots : \A l : ~SameEmail(nd, r, l)
  BY DEF NoList, SameEmail
<1>2. \A r \in Slots : nd.mloc[r] = NoEntry
  BY DEF NoList
<1>3. Listed(nd) = {} /\ \A r \in Slots : nd.mloc[r].daten <= d
  BY <1>2 DEF Listed, NoEntry
<1>4. ListOK(f, d, nd)
  BY <1>1, <1>3 DEF ListOK
<1>5. \A l : ~SameEmail(nd, nd.rec, l)
  BY DEF NoList, SameEmail
<1>6. QED
  BY <1>1, <1>4, <1>5 DEF PlaceOK, NodeOK, DisplayOK, OnDisplay, HandOK

LEMMA NodeKept ==
    ASSUME NEW f \in File, NEW g \in File, NEW d \in Nat, NEW d2 \in Nat, d <= d2,
           NEW t, NEW t2, NEW k, NEW nd \in Instance, NEW ch, NEW ch2,
           NodeOK(f, d, t, k, nd, ch), Evolves(f, d, g),
           Stays(f, d, g) \/ k \in ch2 \/ nd.pc = "off",
           k \in ch => k \in ch2 \/ nd.pc = "off",
           nd.pc = "send" => /\ t2[nd.hand.msg] # NoText
                             /\ \A i \in In(g) : g[i].msg # nd.hand.msg
    PROVE  NodeOK(g, d2, t2, k, nd, ch2)
<1>1. Fewer(nd, nd, {})
  BY NothingFewer
<1>2. ListOK(f, d, nd) /\ PlaceOK(f, k, nd, ch) /\ DisplayOK(f, nd)
  BY DEF NodeOK
<1>3. ListOK(g, d2, nd)
  BY <1>1, <1>2, ListKept
<1>4. DisplayOK(g, nd)
  BY <1>2, DisplayKept
<1>5. PlaceOK(g, k, nd, ch2)
  <2>1. CASE Stays(f, d, g) /\ nd.pc # "off"
    BY <1>1, <1>2, <2>1, PlaceKept
  <2>2. CASE k \in ch2
    BY <2>2 DEF PlaceOK
  <2>3. CASE nd.pc = "off"
    BY <2>3, EmptyList, InstanceFacts DEF NodeOK
  <2>4. QED
    BY <2>1, <2>2, <2>3
<1>6. QED
  BY <1>3, <1>4, <1>5 DEF NodeOK, HandOK

\* The invariant holds after a step of n if it holds of the file and of n, if the
\* letters that others are about to send keep their texts to themselves, and if
\* letters stay where they are or the others are told.
LEMMA StepSafe ==
    ASSUME TypeInv, TypeInv', Safe, NEW n \in Nodes, NEW ne \in Instance, Do(n, ne),
           daten <= daten', FileOK(email', size', text', daten'),
           Evolves(email, daten, email'),
           \/ Stays(email, daten, email')
           \/ \A k \in Nodes \ {n} : k \in changed' \/ node[k].pc = "off",
           \A k \in Nodes \ {n} : k \in changed => k \in changed' \/ node[k].pc = "off",
           \A k \in Nodes \ {n} : node[k].pc = "send" =>
               /\ text'[node[k].hand.msg] # NoText
               /\ \A i \in In(email') : email'[i].msg # node[k].hand.msg
               /\ ne.pc = "send" => node[k].hand.msg # ne.hand.msg,
           NodeOK(email', daten', text', n, ne, changed')
    PROVE  Safe'
<1>1. email \in File /\ email' \in File /\ daten \in Nat /\ daten' \in Nat
      /\ node \in [Nodes -> Instance]
  BY SlotsFacts DEF TypeInv, TypeOK, File
<1>2. node'[n] = ne /\ \A k \in Nodes \ {n} : node'[k] = node[k]
  BY <1>1 DEF Do
<1>3. ASSUME NEW k \in Nodes \ {n}
      PROVE  NodeOK(email', daten', text', k, node[k], changed')
  <2>1. NodeOK(email, daten, text, k, node[k], changed) /\ node[k] \in Instance
    BY <1>1 DEF Safe
  <2>2. /\ Stays(email, daten, email') \/ k \in changed' \/ node[k].pc = "off"
        /\ k \in changed => k \in changed' \/ node[k].pc = "off"
    OBVIOUS
  <2>3. QED
    BY <1>1, <2>1, <2>2, NodeKept
<1>4. \A k \in Nodes : NodeOK(email', daten', text', k, node'[k], changed')
  BY <1>2, <1>3
<1>5. HandsApart(node')
  <2>1. ASSUME NEW a \in Nodes, NEW b \in Nodes, node'[a].pc = "send", node'[b].pc = "send",
               a # b
        PROVE  node'[a].hand.msg # node'[b].hand.msg
    BY <1>2, <2>1 DEF Safe, HandsApart
  <2>2. QED
    BY <2>1 DEF HandsApart
<1>6. QED
  BY <1>4, <1>5 DEF Safe

\* The file with some of its letters removed.
LEMMA RemovedFile ==
    ASSUME NEW f \in File, NEW g \in File, NEW z, NEW t, NEW t2, NEW d, FileOK(f, z, t, d),
           \A k \in In(g) : k \in In(f) /\ g[k] = f[k] /\ t2[g[k].msg] # NoText
    PROVE  FileOK(g, z, t2, d) /\ Stays(f, d, g) /\ Evolves(f, d, g)
<1>1. FileOK(g, z, t2, d)
  BY DEF FileOK
<1>2. Stays(f, d, g)
  BY DEF Stays
<1>3. QED
  BY <1>1, <1>2, StaysEvolves

\* delmail takes no text that a letter in the file or one to be sent needs.
LEMMA DelMailSafe ==
    ASSUME TypeOK, FileOK(email, size, text, daten), NEW S \in SUBSET Used, DelMail(S)
    PROVE  /\ FileOK(email', size', text', daten) /\ email' \in File
           /\ Stays(email, daten, email') /\ Evolves(email, daten, email')
           /\ \A i \in In(email') : i \in Used \ S /\ email'[i] = email[i]
                                    /\ text'[email[i].msg] = text[email[i].msg]
           /\ \A p \in Places : (\A i \in Used : email[i].msg # p) => text'[p] = text[p]
<1>1. email \in File /\ email' \in File /\ Used = In(email)
  BY DelMailType DEF TypeOK, File, Used, In
<1>2. \A k \in In(email') : k \in Used \ S /\ email'[k] = email[k] /\ k \in Slots
  BY <1>1 DEF DelMail, In
<1>3. \A k \in Used : email[k] \in Letters /\ email[k].msg \in Places
  BY <1>1, InFacts DEF Letters
<1>4. ASSUME NEW k \in Used \ S PROVE email[k].msg \notin Freed(S)
  <2>1. SUFFICES ASSUME NEW j \in S, email[k].msg = email[j].msg,
                        email[j].multi => \A i \in Used \ S : email[i].msg # email[j].msg
                 PROVE  FALSE
    BY DEF Freed
  <2>2. email[j].multi
    BY <1>1, <2>1 DEF FileOK
  <2>3. QED
    BY <2>1, <2>2
<1>5. \A k \in In(email') : text'[email[k].msg] = text[email[k].msg]
  BY <1>2, <1>3, <1>4 DEF DelMail
<1>6. FileOK(email', size, text', daten) /\ Stays(email, daten, email')
      /\ Evolves(email, daten, email')
  <2>1. \A k \in In(email') : k \in In(email) /\ email'[k] = email[k]
                              /\ text'[email'[k].msg] # NoText
    BY <1>1, <1>2, <1>5 DEF FileOK
  <2>2. QED
    BY <1>1, <2>1, RemovedFile
<1>7. \A p \in Places : (\A i \in Used : email[i].msg # p) => text'[p] = text[p]
  BY DEF DelMail, Freed
<1>8. size' = size
  BY DEF DelMail
<1>9. QED
  BY <1>1, <1>2, <1>5, <1>6, <1>7, <1>8

---------------------------------------------------------------------------
(* Steps that change no letter *)

LEMMA FileFacts ==
    ASSUME TypeInv
    PROVE  /\ email \in File /\ daten \in Nat /\ node \in [Nodes -> Instance]
           /\ Used = In(email)
           /\ \A n \in Nodes : node[n] \in Instance /\ SessionOK(node[n])
BY SlotsFacts DEF TypeInv, TypeOK, File, Used, In, Sessions

LEMMA QuietStep ==
    ASSUME TypeInv, TypeInv', Safe, NEW n \in Nodes, NEW ne \in Instance, Do(n, ne),
           email' = email, size' = size, text' = text, daten' = daten,
           \A k \in Nodes \ {n} : k \in changed => k \in changed',
           NodeOK(email, daten, text, n, ne, changed'),
           ne.pc = "send" => node[n].pc = "send" /\ ne.hand = node[n].hand
    PROVE  Safe'
<1>1. Stays(email, daten, email') /\ Evolves(email, daten, email')
  <2>1. Stays(email, daten, email')
    BY DEF Stays
  <2>2. QED
    BY <2>1, StaysEvolves
<1>2. daten \in Nat /\ daten <= daten'
  BY FileFacts
<1>3. FileOK(email', size', text', daten')
  BY DEF Safe
<1>4. ASSUME NEW k \in Nodes \ {n}, node[k].pc = "send"
      PROVE  /\ text'[node[k].hand.msg] # NoText
             /\ \A i \in In(email') : email'[i].msg # node[k].hand.msg
             /\ ne.pc = "send" => node[k].hand.msg # ne.hand.msg
  <2>1. HandOK(email, text, node[k])
    BY DEF Safe, NodeOK
  <2>2. QED
    BY <1>4, <2>1 DEF HandOK, Safe, HandsApart
<1>5. NodeOK(email', daten', text', n, ne, changed')
  OBVIOUS
<1>6. QED
  BY <1>1, <1>2, <1>3, <1>4, <1>5, StepSafe

\* The list of n stays, and n forgets nothing of what it was told.
LEMMA SameList ==
    ASSUME NEW f \in File, NEW d \in Nat, NEW t, NEW n, NEW nd \in Instance, NEW ne,
           NEW ch, NEW ch2, NodeOK(f, d, t, n, nd, ch),
           ne.mloc = nd.mloc, ne.user = nd.user,
           nd.emchg \/ n \in ch => ne.emchg \/ n \in ch2,
           ne.pc = "lost" => nd.pc = "lost" /\ ne.rec = nd.rec
    PROVE  ListOK(f, d, ne) /\ PlaceOK(f, n, ne, ch2)
<1>1. Fewer(nd, ne, {})
  BY NothingFewer
<1>2. Stays(f, d, f) /\ Evolves(f, d, f) /\ d <= d /\ d \in Int
  <2>1. Stays(f, d, f)
    BY DEF Stays
  <2>2. QED
    BY <2>1, StaysEvolves
<1>3. ListOK(f, d, nd) /\ PlaceOK(f, n, nd, ch)
  BY DEF NodeOK
<1>4. ListOK(f, d, ne)
  BY <1>1, <1>2, <1>3, ListKept
<1>5. PlaceOK(f, n, ne, ch2)
  BY <1>1, <1>2, <1>3, PlaceKept
<1>6. QED
  BY <1>4, <1>5

LEMMA OffLineFacts ==
    ASSUME NEW f, NEW d \in Nat, NEW t, NEW n, NEW ch
    PROVE  NodeOK(f, d, t, n, OffLine, ch)
<1>1. OffLine.mloc = NoList /\ OffLine.rec \in Slots /\ OffLine.pc = "off"
      /\ OffLine.m = NoLetter
  BY SlotsFacts DEF OffLine
<1>2. QED
  BY <1>1, EmptyList

LEMMA SessionSafe ==
    ASSUME TypeInv, TypeInv', Safe, NEW n \in Nodes,
           GetStatus(n) \/ LogOn(n) \/ LogOff(n) \/ Crash(n)
    PROVE  Safe'
<1>1. /\ email \in File /\ daten \in Nat /\ node[n] \in Instance
      /\ NodeOK(email, daten, text, n, node[n], changed)
  BY FileFacts DEF Safe
<1>2. CASE GetStatus(n)
  <2>. DEFINE nd == node[n]
              ne == Noted(n, nd)
  <2>1. /\ ne \in Instance /\ ne.pc = nd.pc /\ ne.user = nd.user /\ ne.hand = nd.hand
        /\ ne.mloc = nd.mloc /\ ne.m = nd.m /\ ne.rec = nd.rec
        /\ ne.emchg = (nd.emchg \/ (n \in changed /\ nd.mloc # NoList))
    BY <1>1, NotedType
  <2>. HIDE DEF ne
  <2>2. nd.pc # "off" /\ Do(n, ne) /\ changed' = changed \ {n}
        /\ email' = email /\ size' = size /\ text' = text /\ daten' = daten
    BY <1>2 DEF GetStatus, ne
  <2>3. ListOK(email, daten, ne) /\ PlaceOK(email, n, ne, changed')
    <3>1. CASE nd.mloc = NoList
      BY <1>1, <2>1, <3>1, EmptyList, InstanceFacts
    <3>2. CASE nd.mloc # NoList
      BY <1>1, <2>1, <3>2, SameList
    <3>3. QED
      BY <3>1, <3>2
  <2>4. DisplayOK(email, ne) /\ HandOK(email, text, ne)
    BY <1>1, <2>1 DEF NodeOK, DisplayOK, OnDisplay, HandOK, SameEmail
  <2>5. NodeOK(email, daten, text, n, ne, changed')
    BY <2>1, <2>2, <2>3, <2>4 DEF NodeOK
  <2>6. QED
    BY <2>1, <2>2, <2>5, QuietStep
<1>3. CASE LogOn(n)
  <2>1. PICK u \in Users : Do(n, [OffLine EXCEPT !.pc = "main", !.user = u])
    BY <1>3 DEF LogOn
  <2>. DEFINE ne == [OffLine EXCEPT !.pc = "main", !.user = u]
  <2>2. ne \in Instance /\ ne.pc = "main" /\ ne.mloc = NoList /\ ne.rec \in Slots
        /\ ne.m = NoLetter
    BY OffLineType, SlotsFacts DEF Instance, Steps, OffLine
  <2>. HIDE DEF ne
  <2>3. NodeOK(email, daten, text, n, ne, changed')
    BY <1>1, <2>2, EmptyList
  <2>4. /\ Do(n, ne) /\ changed' = changed /\ email' = email /\ size' = size
        /\ text' = text /\ daten' = daten
    BY <1>3, <2>1 DEF LogOn, ne
  <2>5. QED
    BY <2>2, <2>3, <2>4, QuietStep
<1>4. CASE LogOff(n)
  <2>. DEFINE nd == [OffLine EXCEPT !.pc = "pack", !.mailcheck = TRUE]
  <2>1. PICK ne \in {nd, OffLine} : Do(n, ne)
    BY <1>4 DEF LogOff
  <2>2. ne \in Instance /\ ne.pc \in {"off", "pack"} /\ ne.mloc = NoList /\ ne.rec \in Slots
        /\ ne.m = NoLetter
    <3>1. OffLine.pc = "off" /\ OffLine.mloc = NoList /\ OffLine.rec \in Slots
          /\ OffLine.m = NoLetter
      BY SlotsFacts DEF OffLine
    <3>2. nd \in Instance /\ nd.pc = "pack" /\ nd.mloc = NoList /\ nd.rec \in Slots
          /\ nd.m = NoLetter
      BY OffLineType, SlotsFacts DEF Instance, Steps, OffLine
    <3>. HIDE DEF nd
    <3>3. QED
      BY <3>1, <3>2, OffLineType
  <2>3. NodeOK(email, daten, text, n, ne, changed')
    BY <1>1, <2>2, EmptyList
  <2>4. /\ changed' = changed \ {n} /\ email' = email /\ size' = size
        /\ text' = text /\ daten' = daten
    BY <1>4 DEF LogOff
  <2>5. QED
    BY <2>1, <2>2, <2>3, <2>4, QuietStep
<1>5. CASE Crash(n)
  <2>1. /\ Do(n, OffLine) /\ changed' = changed \ {n} /\ email' = email /\ size' = size
        /\ text' = text /\ daten' = daten
    BY <1>5 DEF Crash
  <2>2. NodeOK(email, daten, text, n, OffLine, changed') /\ OffLine \in Instance
        /\ OffLine.pc = "off"
    BY <1>1, OffLineFacts, OffLineType DEF OffLine
  <2>3. QED
    BY <2>1, <2>2, QuietStep
<1>6. QED
  BY <1>2, <1>3, <1>4, <1>5

\* A list that is made now.
LEMMA ListOfFacts ==
    ASSUME TypeInv, Safe, NEW nd \in Instance, nd.mloc = ListOf(nd.user)
    PROVE  /\ ListOK(email, daten, nd)
           /\ \A r \in Slots : \A i \in In(email) : SameEmail(nd, r, email[i]) =>
                  nd.mloc[r].index = i /\ r = i
<1>1. FileOK(email, size, text, daten) /\ email \in File /\ daten \in Nat
  BY FileFacts DEF Safe
<1>2. ASSUME NEW r \in Slots, nd.mloc[r] # NoEntry
      PROVE  /\ r \in In(email) /\ email[r].touser = nd.user
             /\ nd.mloc[r].daten = email[r].daten /\ nd.mloc[r].index = r
  BY <1>2 DEF ListOf, Entry, In
<1>3. ASSUME NEW r \in Slots, NEW i \in In(email), SameEmail(nd, r, email[i])
      PROVE  nd.mloc[r].index = i /\ r = i
  <2>1. r \in In(email) /\ Same(email[r], email[i]) /\ nd.mloc[r].index = r
    BY <1>2, <1>3 DEF SameEmail, Same
  <2>2. QED
    BY <1>1, <2>1 DEF FileOK
<1>4. \A r \in Slots : nd.mloc[r].daten <= daten
  <2>1. ASSUME NEW r \in Slots PROVE nd.mloc[r].daten <= daten
    <3>1. CASE nd.mloc[r] = NoEntry
      BY <1>1, <3>1 DEF NoEntry
    <3>2. CASE nd.mloc[r] # NoEntry
      BY <1>1, <1>2, <3>2 DEF FileOK
    <3>3. QED
      BY <3>1, <3>2
  <2>2. QED
    BY <2>1
<1>5. \A r \in Slots : \A i \in In(email) : SameEmail(nd, r, email[i]) => nd.mloc[r].index # Gone
  BY <1>3, SlotsFacts DEF In
<1>6. \A s, r \in Listed(nd) : \A j, i \in In(email) :
          SameEmail(nd, s, email[j]) /\ SameEmail(nd, r, email[i]) /\ j < i => s < r
  BY <1>3 DEF Listed
<1>7. QED
  BY <1>3, <1>4, <1>5, <1>6 DEF ListOK

\* A list after resynch_email.
LEMMA RefoundFacts ==
    ASSUME TypeInv, Safe, NEW nd \in Instance, ListOK(email, daten, nd),
           NEW ne, ne.mloc = Refound(nd), ne.user = nd.user
    PROVE  /\ ListOK(email, daten, ne)
           /\ \A r \in Slots : \A i \in In(email) : SameEmail(ne, r, email[i]) =>
                  ne.mloc[r].index = i
           /\ \A r \in Listed(ne) : /\ ne.mloc[r].index \in Used
                                    /\ SameEmail(ne, r, email[ne.mloc[r].index])
<1>1. FileOK(email, size, text, daten) /\ email \in File /\ daten \in Nat /\ Used = In(email)
  BY FileFacts DEF Safe
<1>2. ASSUME NEW r \in Slots, NEW i \in Slots, FoundAt(nd, r, i)
      PROVE  i \in In(email) /\ SameEmail(nd, r, email[i])
  BY <1>2 DEF FoundAt, SameEmail, In
<1>3. ASSUME NEW r \in Slots, NEW i \in In(email), SameEmail(nd, r, email[i])
      PROVE  i \in Slots /\ FoundAt(nd, r, i) /\ \A j \in Slots : FoundAt(nd, r, j) => j = i
  <2>1. i \in Slots /\ r \in Listed(nd)
    BY <1>1, <1>3, EntryFacts, InFacts DEF ListOK
  <2>2. ASSUME NEW j \in 0 .. i - 1, NEW s \in Listed(nd), SameEmail(nd, s, email[j])
        PROVE  s < r
    <3>1. j \in Slots /\ j < i
      BY <2>1, SlotsFacts
    <3>2. j \in In(email)
      BY <2>2, <3>1 DEF SameEmail, In
    <3>3. QED
      BY <1>3, <2>1, <2>2, <3>1, <3>2 DEF ListOK
  <2>3. ASSUME NEW j \in Slots, FoundAt(nd, r, j) PROVE j = i
    <3>1. j \in In(email) /\ Same(email[j], email[i])
      BY <1>2, <1>3, <2>3 DEF SameEmail, Same
    <3>2. QED
      BY <1>1, <3>1 DEF FileOK
  <2>4. FoundAt(nd, r, i)
    BY <1>3, <2>1, <2>2 DEF FoundAt
  <2>5. QED
    BY <2>1, <2>3, <2>4
<1>4. ASSUME NEW r \in Slots
      PROVE  /\ ne.mloc[r] \in Entries \union {NoEntry} /\ ne.mloc[r].daten = nd.mloc[r].daten
             /\ ne.mloc[r] = NoEntry => nd.mloc[r] = NoEntry
             /\ nd.mloc[r] = NoEntry => ne.mloc[r] = NoEntry
             /\ ne.mloc[r].fromuser = nd.mloc[r].fromuser
             /\ \A i \in Slots : FoundAt(nd, r, i) /\ (\A j \in Slots : FoundAt(nd, r, j) => j = i)
                    => ne.mloc[r].index = i
             /\ ne.mloc[r].index # Gone => \E i \in Slots : FoundAt(nd, r, i)
  <2>1. nd.mloc[r] \in Entries \union {NoEntry}
    BY EntryFacts
  <2>2. CASE ~ \E i \in Slots : FoundAt(nd, r, i)
    <3>1. ne.mloc[r] = [nd.mloc[r] EXCEPT !.index = Gone]
      BY <2>2 DEF Refound
    <3>2. QED
      BY <2>1, <2>2, <3>1, SlotsFacts DEF Entries, NoEntry
  <2>3. CASE \E i \in Slots : FoundAt(nd, r, i)
    <3>1. PICK i \in Slots : FoundAt(nd, r, i)
      BY <2>3
    <3>2. nd.mloc[r] \in Entries
      BY <3>1, InstanceFacts DEF FoundAt
    <3>3. i \in In(email) /\ SameEmail(nd, r, email[i])
      BY <1>2, <3>1
    <3>4. \A j \in Slots : FoundAt(nd, r, j) => j = i
      BY <1>3, <3>3
    <3>5. ne.mloc[r] = [nd.mloc[r] EXCEPT !.index = i]
      BY <3>1, <3>4 DEF Refound
    <3>6. nd.mloc[r] # NoEntry /\ NoEntry \notin Entries
      BY <3>3 DEF SameEmail, Entries, NoEntry
    <3>7. QED
      BY <3>1, <3>2, <3>4, <3>5, <3>6 DEF Entries, NoEntry
  <2>4. QED
    BY <2>2, <2>3
<1>5. \A r \in Slots : \A l : SameEmail(ne, r, l) <=> SameEmail(nd, r, l)
  BY <1>4 DEF SameEmail
<1>6. ASSUME NEW r \in Slots, NEW i \in In(email), SameEmail(ne, r, email[i])
      PROVE  ne.mloc[r].index = i /\ i \in Slots
  BY <1>3, <1>4, <1>5, <1>6
<1>7. ASSUME NEW r \in Listed(ne)
      PROVE  /\ ne.mloc[r].index \in Used /\ SameEmail(ne, r, email[ne.mloc[r].index])
             /\ r \in Listed(nd) /\ r \in Slots
  <2>1. r \in Slots /\ ne.mloc[r].index # Gone
    BY DEF Listed
  <2>2. PICK i \in Slots : FoundAt(nd, r, i)
    BY <1>4, <2>1
  <2>3. i \in In(email) /\ SameEmail(nd, r, email[i]) /\ r \in Listed(nd)
    BY <1>2, <2>1, <2>2 DEF FoundAt
  <2>4. ne.mloc[r].index = i
    BY <1>5, <1>6, <2>1, <2>3
  <2>5. QED
    BY <1>1, <1>5, <2>1, <2>3, <2>4
<1>8. ListOK(email, daten, ne)
  <2>1. \A r \in Slots : nd.mloc[r].daten <= daten /\ ne.mloc[r].daten <= daten
    BY <1>4 DEF ListOK
  <2>2. \A r \in Slots : \A i \in In(email) : SameEmail(ne, r, email[i]) => ne.mloc[r].index # Gone
    BY <1>6, SlotsFacts
  <2>3. \A s, r \in Listed(ne) : \A j, i \in In(email) :
            SameEmail(ne, s, email[j]) /\ SameEmail(ne, r, email[i]) /\ j < i => s < r
    BY <1>5, <1>7 DEF ListOK
  <2>4. QED
    BY <2>1, <2>2, <2>3 DEF ListOK
<1>9. QED
  BY <1>6, <1>7, <1>8

LEMMA LookSafe ==
    ASSUME TypeInv, TypeInv', Safe, NEW n \in Nodes,
           \/ ReadMail(n) \/ Quit(n) \/ AskForward(n) \/ NoForward(n) \/ ForwardMoved(n)
           \/ Look(n) \/ (Mark(n) /\ ~astray')
    PROVE  Safe'
<1>. DEFINE nd == node[n]
<1>1. /\ email \in File /\ daten \in Nat /\ nd \in Instance /\ SessionOK(nd)
      /\ NodeOK(email, daten, text, n, nd, changed) /\ FileOK(email, size, text, daten)
  BY FileFacts DEF Safe
<1>2. CASE ReadMail(n)
  <2>. DEFINE ne == [nd EXCEPT !.pc = "mail", !.mloc = ListOf(nd.user), !.emchg = FALSE]
  <2>1. ne \in Instance /\ ne.pc = "mail" /\ ne.mloc = ListOf(nd.user) /\ ne.user = nd.user
        /\ ne.m = nd.m
    <3>1. ListOf(nd.user) \in [Slots -> Entries \union {NoEntry}]
      BY <1>1, ListOfType DEF File, FileType
    <3>2. QED
      BY <1>1, <3>1 DEF Instance, Steps
  <2>2. /\ Do(n, ne) /\ changed' = changed /\ email' = email /\ size' = size
        /\ text' = text /\ daten' = daten /\ nd.pc = "main"
    BY <1>2 DEF ReadMail
  <2>. HIDE DEF ne
  <2>3. nd.m = NoLetter
    BY <1>1, <2>2 DEF NodeOK, DisplayOK, OnDisplay
  <2>4. ListOK(email, daten, ne) /\ PlaceOK(email, n, ne, changed')
    BY <2>1, ListOfFacts DEF PlaceOK
  <2>5. NodeOK(email, daten, text, n, ne, changed')
    BY <2>1, <2>3, <2>4 DEF NodeOK, DisplayOK, OnDisplay, HandOK
  <2>6. QED
    BY <2>1, <2>2, <2>5, QuietStep
<1>3. CASE Quit(n)
  <2>. DEFINE ne == [OffLine EXCEPT !.pc = "main", !.user = nd.user,
                                    !.mailcheck = nd.mailcheck]
  <2>1. ne \in Instance /\ ne.pc = "main" /\ ne.mloc = NoList /\ ne.rec \in Slots
        /\ ne.m = NoLetter
    BY <1>1, OffLineType, SlotsFacts DEF Instance, Steps, OffLine
  <2>2. /\ Do(n, ne) /\ changed' = changed /\ email' = email /\ size' = size
        /\ text' = text /\ daten' = daten
    BY <1>3 DEF Quit
  <2>. HIDE DEF ne
  <2>3. NodeOK(email, daten, text, n, ne, changed')
    BY <1>1, <2>1, EmptyList
  <2>4. QED
    BY <2>1, <2>2, <2>3, QuietStep
<1>4. CASE AskForward(n) \/ NoForward(n)
  <2>1. PICK ne \in {[nd EXCEPT !.pc = "forward"], [nd EXCEPT !.pc = "shown"]} :
            Do(n, ne) /\ (ne.pc = "forward" => ~nd.m.multi)
    <3>1. [nd EXCEPT !.pc = "shown"].pc = "shown"
      BY <1>1 DEF Instance
    <3>2. QED
      BY <1>4, <3>1 DEF AskForward, NoForward
  <2>2. /\ ne \in Instance /\ ne.pc \in {"forward", "shown"} /\ ne.mloc = nd.mloc
        /\ ne.user = nd.user /\ ne.m = nd.m /\ ne.rec = nd.rec /\ ne.emchg = nd.emchg
    BY <1>1, <2>1 DEF Instance, Steps
  <2>3. /\ changed' = changed /\ email' = email /\ size' = size /\ text' = text
        /\ daten' = daten /\ nd.pc \in {"shown", "forward"}
    BY <1>4 DEF AskForward, NoForward
  <2>4. ListOK(email, daten, ne) /\ PlaceOK(email, n, ne, changed')
    BY <1>1, <2>2, <2>3, SameList
  <2>5. DisplayOK(email, ne) /\ HandOK(email, text, ne)
    BY <1>1, <2>1, <2>2, <2>3 DEF NodeOK, DisplayOK, OnDisplay, HandOK, SameEmail
  <2>6. NodeOK(email, daten, text, n, ne, changed')
    BY <2>2, <2>4, <2>5 DEF NodeOK
  <2>7. QED
    BY <2>1, <2>2, <2>3, <2>6, QuietStep
<1>5. CASE ForwardMoved(n)
  <2>. DEFINE ne == Prompt(nd)
  <2>1. /\ ne \in Instance /\ ne.pc = "mail" /\ ne.mloc = nd.mloc /\ ne.user = nd.user
        /\ ne.m = NoLetter /\ ne.emchg = nd.emchg
    BY <1>1, PromptType
  <2>2. /\ Do(n, ne) /\ changed' = changed /\ email' = email /\ size' = size
        /\ text' = text /\ daten' = daten
    BY <1>5 DEF ForwardMoved
  <2>. HIDE DEF ne
  <2>3. ListOK(email, daten, ne) /\ PlaceOK(email, n, ne, changed')
    BY <1>1, <2>1, <2>2, SameList
  <2>4. NodeOK(email, daten, text, n, ne, changed')
    BY <2>1, <2>3 DEF NodeOK, DisplayOK, OnDisplay, HandOK
  <2>5. QED
    BY <2>1, <2>2, <2>4, QuietStep
<1>6. CASE Look(n)
  <2>1. PICK i \in Used : Do(n, [nd EXCEPT !.pc = "kill", !.rec = i, !.m = email[i]])
    BY <1>6 DEF Look
  <2>. DEFINE ne == [nd EXCEPT !.pc = "kill", !.rec = i, !.m = email[i]]
  <2>2. i \in Slots /\ email[i] \in Letters
    BY <1>1, UsedFacts DEF File, FileType
  <2>3. /\ ne \in Instance /\ ne.pc = "kill" /\ ne.mloc = nd.mloc /\ ne.user = nd.user
        /\ ne.emchg = nd.emchg /\ ne.m # NoLetter
    BY <1>1, <2>2, NoLetterAssumption DEF Instance, Steps
  <2>4. /\ Do(n, ne) /\ changed' = changed /\ email' = email /\ size' = size
        /\ text' = text /\ daten' = daten
    BY <1>6, <2>1 DEF Look
  <2>. HIDE DEF ne
  <2>5. ListOK(email, daten, ne) /\ PlaceOK(email, n, ne, changed')
    BY <1>1, <2>3, <2>4, SameList
  <2>6. NodeOK(email, daten, text, n, ne, changed')
    BY <2>3, <2>5 DEF NodeOK, DisplayOK, OnDisplay, HandOK
  <2>7. QED
    BY <2>3, <2>4, <2>6, QuietStep
<1>7. CASE Mark(n) /\ ~astray'
  <2>. DEFINE i == nd.mloc[nd.rec].index
  <2>1. nd.rec \in Listed(nd) /\ InFile(nd, nd.rec)
    BY <1>7 DEF Mark, Stands
  <2>2. i \in Slots /\ i < size
    BY <1>1, <2>1, InstanceFacts DEF InFile
  <2>3. email' = email
    <3>1. Read(nd, nd.rec) = email[i]
      BY <2>1 DEF Read
    <3>2. email' = [email EXCEPT ![i] = email[i]]
      BY <1>7, <3>1 DEF Mark
    <3>3. QED
      BY <1>1, <3>2 DEF File
  <2>4. size' = size
    <3>0. size' = Grown(i + 1)
      BY <1>7 DEF Mark
    <3>1. size' = Grown(i + 1) /\ size \in Int /\ i \in Int
      BY <2>2, <3>0, SlotsFacts DEF TypeInv, TypeOK
    <3>2. QED
      BY <2>2, <3>1 DEF Grown
  <2>5. /\ Do(n, nd) /\ changed' = changed /\ text' = text /\ daten' = daten
    BY <1>7, FileFacts DEF Mark, Do
  <2>6. QED
    BY <1>1, <2>3, <2>4, <2>5, QuietStep
<1>8. QED
  BY <1>2, <1>3, <1>4, <1>5, <1>6, <1>7

\* Entries of H are marked as gone.
LEMMA GoneFewer ==
    ASSUME NEW nd \in Instance, NEW ne, NEW H, ne.user = nd.user,
           \A s \in Slots : ne.mloc[s] = IF s \in H THEN [nd.mloc[s] EXCEPT !.index = Gone]
                                         ELSE nd.mloc[s]
    PROVE  Fewer(nd, ne, H)
<1>1. ASSUME NEW s \in Slots
      PROVE  /\ ne.mloc[s].daten = nd.mloc[s].daten
             /\ ne.mloc[s].index = IF s \in H THEN Gone ELSE nd.mloc[s].index
             /\ ne.mloc[s].fromuser = nd.mloc[s].fromuser
             /\ nd.mloc[s] = NoEntry => ne.mloc[s] = NoEntry
  <2>1. nd.mloc[s] \in Entries \union {NoEntry}
    BY EntryFacts
  <2>2. CASE s \in H
    <3>1. ne.mloc[s] = [nd.mloc[s] EXCEPT !.index = Gone]
      BY <2>2
    <3>2. QED
      BY <2>1, <2>2, <3>1 DEF Entries, NoEntry
  <2>3. CASE s \notin H
    BY <2>3
  <2>4. QED
    BY <2>2, <2>3
<1>2. \A s \in Slots : \A l : SameEmail(ne, s, l) => SameEmail(nd, s, l)
  BY <1>1 DEF SameEmail
<1>3. QED
  BY <1>1, <1>2 DEF Fewer

LEMMA LoseFewer ==
    ASSUME NEW nd \in Instance, NEW ne, NEW r \in Slots, ne.user = nd.user,
           ne.mloc = [nd.mloc EXCEPT ![r].index = Gone]
    PROVE  Fewer(nd, ne, {r})
<1>1. nd.mloc \in [Slots -> Entries \union {NoEntry}]
  BY DEF Instance
<1>2. \A s \in Slots : ne.mloc[s] = IF s \in {r} THEN [nd.mloc[s] EXCEPT !.index = Gone]
                                    ELSE nd.mloc[s]
  BY <1>1
<1>3. QED
  BY <1>2, GoneFewer

\* A letter that was missed at its place is in the file only if letters were moved.
LEMMA SearchSafe ==
    ASSUME TypeInv, TypeInv', Safe, NEW n \in Nodes,
           Lost(n) \/ \E r \in Slots : Show(n, r) \/ Miss(n, r)
    PROVE  Safe'
<1>. DEFINE nd == node[n]
<1>1. /\ email \in File /\ daten \in Nat /\ nd \in Instance /\ SessionOK(nd)
      /\ NodeOK(email, daten, text, n, nd, changed) /\ FileOK(email, size, text, daten)
      /\ ListOK(email, daten, nd) /\ PlaceOK(email, n, nd, changed)
  BY FileFacts DEF Safe, NodeOK
<1>2. Stays(email, daten, email) /\ Evolves(email, daten, email) /\ daten \in Int
      /\ daten <= daten
  <2>1. Stays(email, daten, email)
    BY DEF Stays
  <2>2. QED
    BY <1>1, <2>1, StaysEvolves
<1>3. ASSUME NEW r \in Slots, Show(n, r) PROVE Safe'
  <2>. DEFINE l == Read(nd, r)
              ne == [nd EXCEPT !.pc = "shown", !.rec = r, !.m = l]
  <2>1. /\ Do(n, ne) /\ changed' = changed /\ email' = email /\ size' = size
        /\ text' = text /\ daten' = daten /\ nd.pc \in {"mail", "shown"}
        /\ r \in Listed(nd) /\ SameEmail(nd, r, l)
    BY <1>3 DEF Show
  <2>2. l \in Letters
    BY <1>1, <2>1, ReadType DEF File, FileType, SameEmail
  <2>3. \A i \in In(email) : email[i].daten = l.daten => email[i].multi = l.multi
    <3>1. CASE InFile(nd, r)
      <4>1. nd.mloc[r].index \in In(email) /\ l = email[nd.mloc[r].index]
        BY <1>1, <2>1, <3>1, InstanceFacts DEF Read, In, SameEmail
      <4>2. QED
        BY <1>1, <4>1 DEF FileOK
    <3>2. CASE ~InFile(nd, r)
      <4>1. l = nd.m /\ nd.m # NoLetter
        BY <2>1, <3>2 DEF Read, SameEmail
      <4>2. QED
        BY <1>1, <2>1, <4>1 DEF NodeOK, DisplayOK, OnDisplay
    <3>3. QED
      BY <3>1, <3>2
  <2>4. /\ ne \in Instance /\ ne.pc = "shown" /\ ne.mloc = nd.mloc /\ ne.user = nd.user
        /\ ne.m = l /\ ne.rec = r /\ ne.emchg = nd.emchg
    <3>. HIDE DEF l
    <3>1. QED
      BY <1>1, <2>2 DEF Instance, Steps
  <2>. HIDE DEF ne
  <2>5. ListOK(email, daten, ne) /\ PlaceOK(email, n, ne, changed')
    BY <1>1, <2>1, <2>4, SameList
  <2>6. SameEmail(ne, ne.rec, ne.m)
    BY <2>1, <2>4 DEF SameEmail
  <2>7. NodeOK(email, daten, text, n, ne, changed')
    BY <2>3, <2>4, <2>5, <2>6 DEF NodeOK, DisplayOK, OnDisplay, HandOK
  <2>8. QED
    BY <2>1, <2>4, <2>7, QuietStep
<1>4. ASSUME NEW r \in Slots, Miss(n, r) PROVE Safe'
  <2>1. PICK use \in Uses : Do(n, [nd EXCEPT !.pc = "lost", !.rec = r, !.use = use,
                                             !.m = NoLetter])
    BY <1>4 DEF Miss
  <2>. DEFINE ne == [nd EXCEPT !.pc = "lost", !.rec = r, !.use = use, !.m = NoLetter]
  <2>2. /\ Do(n, ne) /\ changed' = changed /\ email' = email /\ size' = size
        /\ text' = text /\ daten' = daten /\ r \in Listed(nd) /\ ~SameEmail(nd, r, Read(nd, r))
    BY <1>4, <2>1 DEF Miss
  <2>3. /\ ne \in Instance /\ ne.pc = "lost" /\ ne.mloc = nd.mloc /\ ne.user = nd.user
        /\ ne.m = NoLetter /\ ne.rec = r /\ ne.emchg = nd.emchg
    BY <1>1 DEF Instance, Steps
  <2>. HIDE DEF ne
  <2>4. ListOK(email, daten, ne)
    BY <1>1, <1>2, <2>3, NothingFewer, ListKept
  <2>5. PlaceOK(email, n, ne, changed')
    <3>1. CASE nd.emchg \/ n \in changed
      BY <2>2, <2>3, <3>1 DEF PlaceOK
    <3>2. CASE ~(nd.emchg \/ n \in changed)
      <4>1. \A s \in Slots : \A i \in In(email) : SameEmail(nd, s, email[i]) => nd.mloc[s].index = i
        BY <1>1, <3>2 DEF PlaceOK
      <4>2. ASSUME NEW i \in In(email), SameEmail(nd, r, email[i]) PROVE FALSE
        <5>1. nd.mloc[r].index = i /\ i < size
          BY <1>1, <4>1, <4>2 DEF FileOK
        <5>2. Read(nd, r) = email[i]
          BY <5>1 DEF Read, InFile
        <5>3. QED
          BY <2>2, <4>2, <5>2
      <4>3. \A s \in Slots : \A l : SameEmail(ne, s, l) <=> SameEmail(nd, s, l)
        BY <2>3 DEF SameEmail
      <4>4. QED
        BY <2>3, <4>1, <4>2, <4>3 DEF PlaceOK
    <3>3. QED
      BY <3>1, <3>2
  <2>6. NodeOK(email, daten, text, n, ne, changed')
    BY <2>3, <2>4, <2>5 DEF NodeOK, DisplayOK, OnDisplay, HandOK
  <2>7. QED
    BY <2>2, <2>3, <2>6, QuietStep
<1>5. CASE Lost(n)
  <2>. DEFINE no == Noted(n, nd)
              r == nd.rec
              lose == Lose(no, r)
  <2>1. /\ no \in Instance /\ no.pc = "lost" /\ no.user = nd.user /\ no.mloc = nd.mloc
        /\ no.m = nd.m /\ no.rec = r /\ nd.pc = "lost"
        /\ no.emchg = (nd.emchg \/ (n \in changed /\ nd.mloc # NoList))
    BY <1>1, <1>5, NotedType DEF Lost
  <2>2. /\ changed' = changed \ {n} /\ email' = email /\ size' = size
        /\ text' = text /\ daten' = daten
        /\ Do(n, IF no.emchg THEN [no EXCEPT !.pc = "resynch"] ELSE Prompt(lose))
    BY <1>5, <2>1 DEF Lost
  <2>. HIDE DEF no
  <2>3. r \in Slots /\ nd.m = NoLetter
    BY <1>1, <2>1, InstanceFacts DEF NodeOK, DisplayOK, OnDisplay
  <2>4. CASE no.emchg
    <3>. DEFINE ne == [no EXCEPT !.pc = "resynch"]
    <3>1. /\ ne \in Instance /\ ne.pc = "resynch" /\ ne.mloc = nd.mloc /\ ne.user = nd.user
          /\ ne.m = NoLetter /\ ne.emchg
      BY <2>1, <2>3, <2>4 DEF Instance, Steps
    <3>. HIDE DEF ne
    <3>2. ListOK(email, daten, ne)
      BY <1>1, <1>2, <3>1, NothingFewer, ListKept
    <3>3. NodeOK(email, daten, text, n, ne, changed')
      BY <3>1, <3>2 DEF NodeOK, DisplayOK, OnDisplay, HandOK, PlaceOK
    <3>4. Do(n, ne)
      BY <2>2, <2>4 DEF ne
    <3>5. QED
      BY <2>2, <3>1, <3>3, <3>4, QuietStep
  <2>5. CASE ~no.emchg
    <3>. DEFINE ne == Prompt(lose)
    <3>1. lose \in Instance /\ lose.user = nd.user /\ lose.emchg = no.emchg
          /\ lose.mloc = [nd.mloc EXCEPT ![r].index = Gone]
      <4>1. lose \in Instance /\ lose.user = no.user /\ lose.emchg = no.emchg
            /\ lose.mloc = [no.mloc EXCEPT ![r].index = Gone]
        BY <2>1, <2>3, LoseType
      <4>. HIDE DEF lose
      <4>2. QED
        BY <2>1, <4>1
    <3>. HIDE DEF lose
    <3>2. /\ ne \in Instance /\ ne.pc = "mail" /\ ne.user = nd.user /\ ne.m = NoLetter
          /\ ne.mloc = [nd.mloc EXCEPT ![r].index = Gone]
      BY <3>1, PromptType
    <3>. HIDE DEF ne
    <3>3. Fewer(nd, ne, {r})
      BY <1>1, <2>3, <3>2, LoseFewer
    <3>4. \A s \in {r} \intersect Slots : \A i \in In(email) : ~SameEmail(nd, s, email[i])
      <4>1. CASE nd.mloc = NoList
        BY <4>1 DEF SameEmail, NoList
      <4>2. CASE nd.mloc # NoList
        <5>1. ~(nd.emchg \/ n \in changed)
          BY <2>1, <2>5, <4>2
        <5>2. QED
          BY <1>1, <2>1, <5>1 DEF PlaceOK
      <4>3. QED
        BY <4>1, <4>2
    <3>5. ListOK(email, daten, ne)
      BY <1>1, <1>2, <3>3, <3>4, ListKept
    <3>6. PlaceOK(email, n, ne, changed')
      <4>1. CASE nd.mloc = NoList
        <5>1. \A s \in Slots : \A l : ~SameEmail(ne, s, l)
          BY <3>3, <4>1 DEF Fewer, SameEmail, NoList
        <5>2. QED
          BY <3>2, <5>1 DEF PlaceOK
      <4>2. CASE nd.mloc # NoList
        <5>1. ~(nd.emchg \/ n \in changed)
          BY <2>1, <2>5, <4>2
        <5>2. nd.emchg \/ n \in changed => ne.emchg \/ n \in changed'
          BY <5>1
        <5>3. ne.pc # "lost"
          BY <3>2
        <5>4. QED
          BY <1>1, <1>2, <3>3, <3>4, <5>2, <5>3, PlaceKept
      <4>3. QED
        BY <4>1, <4>2
    <3>7. NodeOK(email, daten, text, n, ne, changed')
      BY <3>2, <3>5, <3>6 DEF NodeOK, DisplayOK, OnDisplay, HandOK
    <3>8. Do(n, ne)
      BY <2>2, <2>5 DEF ne
    <3>9. QED
      BY <2>2, <3>2, <3>7, <3>8, QuietStep
  <2>6. QED
    BY <2>4, <2>5
<1>6. QED
  BY <1>3, <1>4, <1>5

---------------------------------------------------------------------------
(* Steps that remove letters *)

\* The letters at S go, and n marks as gone what it does not find there any more.
LEMMA RemoveSafe ==
    ASSUME TypeInv, TypeInv', Safe, NEW n \in Nodes, NEW ne \in Instance, Do(n, ne),
           NEW S \in SUBSET Used, DelMail(S), daten' = daten, changed' = changed,
           NEW H, Fewer(node[n], ne, H), ne.emchg = node[n].emchg,
           \A s \in H \intersect Slots : \A i \in In(email') : ~SameEmail(node[n], s, email'[i]),
           ne.pc \in {"mail", "main"}, ne.m = NoLetter
    PROVE  Safe'
<1>1. /\ email \in File /\ daten \in Nat /\ daten \in Int /\ daten <= daten
      /\ node[n] \in Instance
      /\ NodeOK(email, daten, text, n, node[n], changed) /\ FileOK(email, size, text, daten)
      /\ ListOK(email, daten, node[n]) /\ PlaceOK(email, n, node[n], changed)
      /\ Used = In(email) /\ TypeOK
  BY FileFacts DEF Safe, NodeOK, TypeInv
<1>2. /\ FileOK(email', size', text', daten) /\ email' \in File
      /\ Stays(email, daten, email') /\ Evolves(email, daten, email')
      /\ \A i \in In(email') : i \in Used \ S /\ email'[i] = email[i]
      /\ \A p \in Places : (\A i \in Used : email[i].msg # p) => text'[p] = text[p]
  BY <1>1, DelMailSafe
<1>3. ListOK(email', daten', ne)
  BY <1>1, <1>2, ListKept
<1>4. PlaceOK(email', n, ne, changed')
  <2>1. node[n].emchg \/ n \in changed => ne.emchg \/ n \in changed'
    OBVIOUS
  <2>2. ne.pc # "lost"
    OBVIOUS
  <2>3. QED
    BY <1>1, <1>2, <2>1, <2>2, PlaceKept
<1>5. NodeOK(email', daten', text', n, ne, changed')
  BY <1>3, <1>4 DEF NodeOK, DisplayOK, OnDisplay, HandOK
<1>6. ASSUME NEW k \in Nodes \ {n}, node[k].pc = "send"
      PROVE  /\ text'[node[k].hand.msg] # NoText
             /\ \A i \in In(email') : email'[i].msg # node[k].hand.msg
             /\ ne.pc = "send" => node[k].hand.msg # ne.hand.msg
  <2>1. HandOK(email, text, node[k]) /\ SessionOK(node[k])
    BY FileFacts DEF Safe, NodeOK
  <2>2. node[k].hand.msg \in Places
    BY <1>6, <2>1 DEF SessionOK, Hands
  <2>3. text'[node[k].hand.msg] # NoText
    BY <1>1, <1>2, <1>6, <2>1, <2>2 DEF HandOK
  <2>4. QED
    BY <1>1, <1>2, <1>6, <2>1, <2>3 DEF HandOK
<1>7. QED
  BY <1>1, <1>2, <1>5, <1>6, StepSafe

\* D removes the letter that the list has; after that it is not in the file.
LEMMA LetterRemoved ==
    ASSUME TypeInv, Safe, NEW nd \in Instance, NEW r, NEW i \in Used,
           SameEmail(nd, r, email[i]), NEW f \in File,
           \A k \in In(f) : k \in Used \ {i} /\ f[k] = email[k]
    PROVE  \A k \in In(f) : ~SameEmail(nd, r, f[k])
<1>1. FileOK(email, size, text, daten) /\ Used = In(email)
  BY FileFacts DEF Safe
<1>2. SUFFICES ASSUME NEW k \in In(f), SameEmail(nd, r, f[k]) PROVE FALSE
  OBVIOUS
<1>3. k \in In(email) /\ Same(email[k], email[i])
  BY <1>1, <1>2 DEF SameEmail, Same
<1>4. QED
  BY <1>1, <1>3 DEF FileOK

LEMMA DeleteSafe ==
    ASSUME TypeInv, TypeInv', Safe, NEW n \in Nodes, Delete(n) \/ Kill(n) \/ ResynchEmail(n)
    PROVE  Safe'
<1>. DEFINE nd == node[n]
<1>1. /\ email \in File /\ daten \in Nat /\ nd \in Instance /\ SessionOK(nd)
      /\ NodeOK(email, daten, text, n, nd, changed) /\ FileOK(email, size, text, daten)
      /\ ListOK(email, daten, nd) /\ PlaceOK(email, n, nd, changed) /\ TypeOK
      /\ Used = In(email)
  BY FileFacts DEF Safe, NodeOK, TypeInv
<1>2. CASE Delete(n)
  <2>. DEFINE r == nd.rec
              i == nd.mloc[r].index
              lose == Lose(nd, r)
              ne == [Prompt(lose) EXCEPT !.mailcheck = TRUE]
  <2>1. /\ r \in Listed(nd) /\ SameEmail(nd, r, Read(nd, r)) /\ InFile(nd, r)
        /\ DelMail({i}) /\ Do(n, ne) /\ changed' = changed /\ daten' = daten
    BY <1>2 DEF Delete, Stands
  <2>2. r \in Slots /\ i \in Slots
    BY <1>1, <2>1, InstanceFacts
  <2>3. i \in Used /\ SameEmail(nd, r, email[i])
    BY <2>1, <2>2 DEF Read, SameEmail, Used
  <2>4. lose \in Instance /\ lose.user = nd.user /\ lose.emchg = nd.emchg
        /\ lose.mloc = [nd.mloc EXCEPT ![r].index = Gone]
    BY <1>1, <2>2, LoseType
  <2>. HIDE DEF lose
  <2>5. Prompt(lose) \in Instance /\ Prompt(lose).pc = "mail" /\ Prompt(lose).user = nd.user
        /\ Prompt(lose).emchg = nd.emchg /\ Prompt(lose).m = NoLetter
        /\ Prompt(lose).mloc = [nd.mloc EXCEPT ![r].index = Gone]
    BY <2>4, PromptType
  <2>6. ne \in Instance /\ ne.pc = "mail" /\ ne.user = nd.user /\ ne.emchg = nd.emchg
        /\ ne.m = NoLetter /\ ne.mloc = [nd.mloc EXCEPT ![r].index = Gone]
    BY <2>5 DEF Instance
  <2>. HIDE DEF ne
  <2>7. Fewer(nd, ne, {r})
    BY <1>1, <2>2, <2>6, LoseFewer
  <2>8. email' \in File /\ \A k \in In(email') : k \in Used \ {i} /\ email'[k] = email[k]
    <3>1. {i} \in SUBSET Used
      BY <2>3
    <3>2. QED
      BY <1>1, <2>1, <3>1, DelMailSafe
  <2>9. \A k \in In(email') : ~SameEmail(nd, r, email'[k])
    <3>. HIDE DEF r, i
    <3>1. QED
      BY <1>1, <2>3, <2>8, LetterRemoved
  <2>. HIDE DEF r, i
  <2>10. {i} \in SUBSET Used /\ \A s \in {r} \intersect Slots : \A k \in In(email') :
                                     ~SameEmail(nd, s, email'[k])
    BY <2>3, <2>9
  <2>11. QED
    BY <2>1, <2>6, <2>7, <2>10, RemoveSafe
<1>3. CASE Kill(n)
  <2>. DEFINE main == [nd EXCEPT !.pc = "main", !.rec = 0, !.m = NoLetter]
              ne == [main EXCEPT !.mailcheck = TRUE]
  <2>1. /\ main \in Instance /\ main.pc = "main" /\ main.user = nd.user /\ main.emchg = nd.emchg
        /\ main.m = NoLetter /\ main.mloc = nd.mloc
    BY <1>1, SlotsFacts DEF Instance, Steps
  <2>2. /\ ne \in Instance /\ ne.pc = "main" /\ ne.user = nd.user /\ ne.emchg = nd.emchg
        /\ ne.m = NoLetter /\ ne.mloc = nd.mloc
    BY <2>1 DEF Instance
  <2>3. changed' = changed /\ daten' = daten /\ nd.pc = "kill"
    BY <1>3 DEF Kill
  <2>4. CASE nd.rec < size /\ email[nd.rec] = nd.m /\ DelMail({nd.rec}) /\ Do(n, ne)
    <3>1. nd.m # NoLetter
      BY <1>1, <2>3 DEF NodeOK, DisplayOK
    <3>2. {nd.rec} \in SUBSET Used
      BY <1>1, <2>4, <3>1, InstanceFacts DEF Used
    <3>3. Fewer(nd, ne, {})
      BY <2>2, NothingFewer
    <3>. HIDE DEF ne
    <3>4. QED
      BY <2>2, <2>3, <2>4, <3>2, <3>3, RemoveSafe
  <2>5. CASE Do(n, main) /\ UNCHANGED <<email, size, text>>
    <3>. HIDE DEF main
    <3>1. ListOK(email, daten, main) /\ PlaceOK(email, n, main, changed')
      BY <1>1, <2>1, <2>3, SameList
    <3>2. NodeOK(email, daten, text, n, main, changed')
      BY <2>1, <3>1 DEF NodeOK, DisplayOK, OnDisplay, HandOK
    <3>3. QED
      BY <2>1, <2>3, <2>5, <3>2, QuietStep
  <2>6. QED
    BY <1>3, <2>4, <2>5 DEF Kill
<1>4. CASE ResynchEmail(n)
  <2>. DEFINE re == [nd EXCEPT !.mloc = Refound(nd)]
              r == nd.rec
              i == re.mloc[r].index
  <2>1. /\ re \in Instance /\ re.mloc = Refound(nd) /\ re.user = nd.user /\ re.rec = r
        /\ re.emchg = nd.emchg /\ re.pc = "resynch" /\ re.m = nd.m /\ re.use = nd.use
    BY <1>1, <1>4, RefoundType DEF ResynchEmail, Instance
  <2>2. nd.m = NoLetter /\ changed' = changed /\ daten' = daten /\ r \in Slots
    BY <1>1, <1>4, InstanceFacts DEF ResynchEmail, NodeOK, DisplayOK, OnDisplay
  <2>3. /\ ListOK(email, daten, re)
        /\ \A s \in Slots : \A k \in In(email) : SameEmail(re, s, email[k]) =>
               re.mloc[s].index = k
        /\ \A s \in Listed(re) : re.mloc[s].index \in Used
                                 /\ SameEmail(re, s, email[re.mloc[s].index])
    BY <1>1, <2>1, RefoundFacts
  <2>4. \/ /\ Do(n, Prompt(re)) /\ UNCHANGED <<email, size, text>>
        \/ /\ r \in Listed(re) /\ UNCHANGED <<email, size, text>>
           /\ Do(n, [re EXCEPT !.pc = "shown", !.use = "show", !.m = email[i]])
        \/ /\ r \in Listed(re) /\ DelMail({i})
           /\ Do(n, [Prompt(Lose(re, r)) EXCEPT !.mailcheck = TRUE])
    BY <1>4, <2>1 DEF ResynchEmail
  <2>. HIDE DEF re
  <2>5. CASE Do(n, Prompt(re)) /\ UNCHANGED <<email, size, text>>
    <3>. DEFINE ne == Prompt(re)
    <3>1. /\ ne \in Instance /\ ne.pc = "mail" /\ ne.user = re.user /\ ne.m = NoLetter
          /\ ne.mloc = re.mloc
      BY <2>1, PromptType
    <3>. HIDE DEF ne
    <3>2. \A s \in Slots : \A l : SameEmail(ne, s, l) <=> SameEmail(re, s, l)
      BY <3>1 DEF SameEmail
    <3>3. ListOK(email, daten, ne) /\ PlaceOK(email, n, ne, changed')
      BY <2>3, <3>1, <3>2 DEF ListOK, PlaceOK, Listed
    <3>4. NodeOK(email, daten, text, n, ne, changed')
      BY <3>1, <3>3 DEF NodeOK, DisplayOK, OnDisplay, HandOK
    <3>5. Do(n, ne)
      BY <2>5 DEF ne
    <3>6. QED
      BY <2>2, <2>5, <3>1, <3>4, <3>5, QuietStep
  <2>6. CASE /\ r \in Listed(re) /\ UNCHANGED <<email, size, text>>
             /\ Do(n, [re EXCEPT !.pc = "shown", !.use = "show", !.m = email[i]])
    <3>. DEFINE ne == [re EXCEPT !.pc = "shown", !.use = "show", !.m = email[i]]
    <3>1. i \in Used /\ SameEmail(re, r, email[i]) /\ email[i] \in Letters
      BY <1>1, <2>3, <2>6, InFacts
    <3>. HIDE DEF i
    <3>2. /\ ne \in Instance /\ ne.pc = "shown" /\ ne.user = re.user /\ ne.m = email[i]
          /\ ne.mloc = re.mloc /\ ne.rec = r
      BY <2>1, <3>1 DEF Instance, Steps, Uses
    <3>3. Do(n, ne)
      BY <2>6
    <3>. HIDE DEF ne
    <3>4. \A s \in Slots : \A l : SameEmail(ne, s, l) <=> SameEmail(re, s, l)
      BY <3>2 DEF SameEmail
    <3>5. ListOK(email, daten, ne) /\ PlaceOK(email, n, ne, changed')
      BY <2>3, <3>2, <3>4 DEF ListOK, PlaceOK, Listed
    <3>6. DisplayOK(email, ne)
      BY <1>1, <2>2, <3>1, <3>2, <3>4 DEF DisplayOK, OnDisplay, FileOK
    <3>7. NodeOK(email, daten, text, n, ne, changed')
      BY <3>2, <3>5, <3>6 DEF NodeOK, HandOK
    <3>8. QED
      BY <2>2, <2>6, <3>2, <3>3, <3>7, QuietStep
  <2>7. CASE /\ r \in Listed(re) /\ DelMail({i})
             /\ Do(n, [Prompt(Lose(re, r)) EXCEPT !.mailcheck = TRUE])
    <3>. DEFINE lose == Lose(re, r)
                ne == [Prompt(lose) EXCEPT !.mailcheck = TRUE]
    <3>1. i \in Used /\ SameEmail(re, r, email[i])
      BY <2>3, <2>7
    <3>2. lose \in Instance /\ lose.user = re.user
          /\ lose.mloc = [re.mloc EXCEPT ![r].index = Gone]
      BY <2>1, <2>2, LoseType
    <3>. HIDE DEF lose
    <3>3. Prompt(lose) \in Instance /\ Prompt(lose).pc = "mail" /\ Prompt(lose).user = re.user
          /\ Prompt(lose).m = NoLetter
          /\ Prompt(lose).mloc = [re.mloc EXCEPT ![r].index = Gone]
      BY <3>2, PromptType
    <3>4. ne \in Instance /\ ne.pc = "mail" /\ ne.user = re.user
          /\ ne.m = NoLetter /\ ne.mloc = [re.mloc EXCEPT ![r].index = Gone]
      BY <3>3 DEF Instance
    <3>5. Do(n, ne)
      BY <2>7 DEF lose
    <3>. HIDE DEF ne
    <3>6. Fewer(re, ne, {r})
      BY <2>1, <2>2, <3>4, LoseFewer
    <3>7. {i} \in SUBSET Used
      BY <3>1
    <3>8. /\ email' \in File /\ \A k \in In(email') : k \in Used \ {i} /\ email'[k] = email[k]
          /\ FileOK(email', size', text', daten)
          /\ Stays(email, daten, email') /\ Evolves(email, daten, email')
          /\ \A p \in Places : (\A j \in Used : email[j].msg # p) => text'[p] = text[p]
      BY <1>1, <2>7, <3>7, DelMailSafe
    <3>9. \A s \in {r} \intersect Slots : \A k \in In(email') : ~SameEmail(re, s, email'[k])
      <4>. HIDE DEF r, i
      <4>1. QED
        BY <2>1, <3>1, <3>8, LetterRemoved
    <3>10. ListOK(email', daten', ne)
      BY <1>1, <2>1, <2>2, <2>3, <3>6, <3>8, <3>9, ListKept
    <3>11. PlaceOK(email', n, ne, changed')
      <4>1. PlaceOK(email, n, re, {}) /\ re.emchg = nd.emchg /\ re.pc = "resynch"
        BY <2>1, <2>3 DEF PlaceOK
      <4>2. ASSUME NEW s \in Slots, NEW k \in In(email'), SameEmail(ne, s, email'[k])
            PROVE  ne.mloc[s].index = k
        <5>1. SameEmail(re, s, email[k]) /\ k \in In(email) /\ s # r
          BY <1>1, <3>6, <3>8, <3>9, <4>2 DEF Fewer
        <5>2. QED
          BY <2>3, <3>6, <5>1 DEF Fewer
      <4>3. QED
        BY <3>4, <4>2 DEF PlaceOK
    <3>12. NodeOK(email', daten', text', n, ne, changed')
      BY <3>4, <3>10, <3>11 DEF NodeOK, DisplayOK, OnDisplay, HandOK
    <3>13. ASSUME NEW k \in Nodes \ {n}, node[k].pc = "send"
           PROVE  /\ text'[node[k].hand.msg] # NoText
                  /\ \A j \in In(email') : email'[j].msg # node[k].hand.msg
                  /\ ne.pc = "send" => node[k].hand.msg # ne.hand.msg
      <4>1. HandOK(email, text, node[k]) /\ SessionOK(node[k])
        BY FileFacts DEF Safe, NodeOK
      <4>2. node[k].hand.msg \in Places
        BY <3>13, <4>1 DEF SessionOK, Hands
      <4>3. text'[node[k].hand.msg] # NoText
        BY <1>1, <3>8, <3>13, <4>1, <4>2 DEF HandOK
      <4>4. QED
        BY <1>1, <3>4, <3>8, <3>13, <4>1, <4>3 DEF HandOK
    <3>14. QED
      BY <1>1, <2>2, <3>4, <3>5, <3>8, <3>12, <3>13, StepSafe
  <2>8. QED
    BY <2>4, <2>5, <2>6, <2>7
<1>5. QED
  BY <1>2, <1>3, <1>4

LEMMA PurgeSafe ==
    ASSUME TypeInv, TypeInv', Safe, NEW n \in Nodes, Purge(n)
    PROVE  Safe'
<1>. DEFINE nd == node[n]
            hits == {s \in Listed(nd) : /\ InFile(nd, s) /\ SameEmail(nd, s, Read(nd, s))
                                        /\ Read(nd, s).fromuser = nd.m.fromuser}
            S == {nd.mloc[s].index : s \in hits}
            list == [s \in Slots |-> IF s \in hits THEN [nd.mloc[s] EXCEPT !.index = Gone]
                                     ELSE nd.mloc[s]]
            pr == Prompt(nd)
            ne == [pr EXCEPT !.mailcheck = @ \/ hits # {}, !.mloc = list]
<1>1. /\ email \in File /\ nd \in Instance /\ TypeOK /\ Used = In(email)
      /\ FileOK(email, size, text, daten)
  BY FileFacts DEF Safe, TypeInv
<1>2. /\ pr \in Instance /\ pr.pc = "mail" /\ pr.user = nd.user /\ pr.mloc = nd.mloc
      /\ pr.m = NoLetter /\ pr.emchg = nd.emchg
  BY <1>1, PromptType
<1>3. DelMail(S) /\ Do(n, ne) /\ daten' = daten /\ changed' = changed
  BY <1>2 DEF Purge
<1>4. ASSUME NEW s \in hits
      PROVE  s \in Slots /\ nd.mloc[s].index \in Used /\ SameEmail(nd, s, email[nd.mloc[s].index])
  <2>1. s \in Slots /\ nd.mloc[s].index \in Slots /\ InFile(nd, s) /\ SameEmail(nd, s, Read(nd, s))
    BY <1>1, <1>4, InstanceFacts
  <2>2. QED
    BY <2>1 DEF Read, SameEmail, Used
<1>5. list \in [Slots -> Entries \union {NoEntry}]
  <2>1. ASSUME NEW s \in Slots
        PROVE  /\ nd.mloc[s] \in Entries \union {NoEntry}
               /\ [nd.mloc[s] EXCEPT !.index = Gone] \in Entries \union {NoEntry}
    <3>1. nd.mloc[s] \in Entries \union {NoEntry}
      BY <1>1, EntryFacts
    <3>2. QED
      BY <3>1 DEF Entries, NoEntry
  <2>2. QED
    BY <2>1
<1>6. S \in SUBSET Used
  BY <1>4
<1>. HIDE DEF hits, list, pr, S
<1>7. /\ ne \in Instance /\ ne.pc = "mail" /\ ne.user = nd.user /\ ne.mloc = list
      /\ ne.m = NoLetter /\ ne.emchg = nd.emchg
  BY <1>2, <1>5 DEF Instance
<1>8. Fewer(nd, ne, hits)
  <2>1. \A s \in Slots : ne.mloc[s] = IF s \in hits THEN [nd.mloc[s] EXCEPT !.index = Gone]
                                      ELSE nd.mloc[s]
    BY <1>7 DEF list
  <2>. HIDE DEF ne
  <2>2. QED
    BY <1>1, <1>7, <2>1, GoneFewer
<1>9. email' \in File /\ \A k \in In(email') : k \in Used \ S /\ email'[k] = email[k]
  BY <1>1, <1>3, <1>6, DelMailSafe
<1>10. ASSUME NEW s \in hits, NEW k \in In(email') PROVE ~SameEmail(nd, s, email'[k])
  <2>. DEFINE i == nd.mloc[s].index
  <2>1. i \in Used /\ SameEmail(nd, s, email[i]) /\ i \in S
    BY <1>4 DEF S
  <2>. HIDE DEF i
  <2>2. \A l \in In(email') : l \in Used \ {i} /\ email'[l] = email[l]
    BY <1>9, <2>1
  <2>3. QED
    BY <1>1, <1>9, <2>1, <2>2, LetterRemoved
<1>. HIDE DEF ne
<1>11. QED
  BY <1>3, <1>6, <1>7, <1>8, <1>10, RemoveSafe

\* The letter leaves the file, and its text is that of one that is to be sent.
LEMMA ForwardSafe ==
    ASSUME TypeInv, TypeInv', Safe, NEW n \in Nodes, Forward(n), ~astray'
    PROVE  Safe'
<1>. DEFINE nd == node[n]
            r == nd.rec
            i == nd.mloc[r].index
            l == Read(nd, r)
            pr == Prompt(nd)
<1>1. /\ email \in File /\ email' \in File /\ daten \in Nat /\ nd \in Instance /\ SessionOK(nd)
      /\ NodeOK(email, daten, text, n, nd, changed) /\ FileOK(email, size, text, daten)
      /\ ListOK(email, daten, nd) /\ PlaceOK(email, n, nd, changed) /\ Used = In(email)
  BY FileFacts DEF Safe, NodeOK, TypeInv, TypeOK, File
<1>2. /\ nd.pc = "forward" /\ r \in Listed(nd) /\ SameEmail(nd, r, l) /\ InFile(nd, r)
      /\ email' = [email EXCEPT ![i] = NoLetter] /\ size' = Grown(i + 1)
      /\ text' = text /\ daten' = daten /\ changed' = changed
  BY DEF Forward, Stands
<1>3. PICK u \in Users :
          Do(n, [pr EXCEPT !.pc = "send", !.mailcheck = TRUE,
                     !.hand = [fromuser |-> l.fromuser, msg |-> l.msg, to |-> <<u>>,
                               multi |-> FALSE, back |-> "mail"]])
  BY DEF Forward
<1>4. i \in Slots /\ i < size /\ l = email[i] /\ i \in In(email) /\ l \in Letters
  <2>1. i \in Slots /\ i < size /\ l = email[i]
    BY <1>1, <1>2, InstanceFacts DEF InFile, Read
  <2>2. i \in In(email)
    BY <1>2, <2>1 DEF SameEmail, In
  <2>3. QED
    BY <1>1, <2>1, <2>2, InFacts
<1>5. size' = size
  <2>1. size \in Int /\ i \in Int
    BY <1>4, SlotsFacts DEF TypeInv, TypeOK
  <2>2. i < size /\ size' = Grown(i + 1)
    BY <1>2, <1>4
  <2>. HIDE DEF i
  <2>3. ~(i + 1 > size)
    BY <2>1, <2>2
  <2>4. QED
    BY <2>2, <2>3 DEF Grown
<1>6. l.multi = FALSE
  <2>1. ~nd.m.multi /\ SameEmail(nd, r, nd.m)
        /\ \A k \in In(email) : email[k].daten = nd.m.daten => email[k].multi = nd.m.multi
    BY <1>1, <1>2 DEF NodeOK, DisplayOK, OnDisplay
  <2>2. l.daten = nd.m.daten
    BY <1>2, <2>1 DEF SameEmail
  <2>3. ~l.multi
    BY <1>4, <2>1, <2>2
  <2>4. QED
    BY <1>4, <2>3 DEF Letters
<1>7. \A k \in In(email') : k \in In(email) /\ k # i /\ email'[k] = email[k] /\ email[k].msg # l.msg
  <2>1. \A k \in In(email') : k \in In(email) /\ k # i /\ email'[k] = email[k]
    <3>1. email' = [email EXCEPT ![i] = NoLetter] /\ i \in Slots
      BY <1>2, <1>4
    <3>. HIDE DEF i
    <3>2. \A k \in Slots : email'[k] = IF k = i THEN NoLetter ELSE email[k]
      BY <1>1, <3>1 DEF File
    <3>3. QED
      BY <3>2 DEF In
  <2>2. \A k \in In(email) : k # i => email[k].msg # l.msg
    <3>1. \A k, j \in In(email) : email[k].msg = email[j].msg /\ k # j => email[k].multi
      BY <1>1 DEF FileOK
    <3>2. i \in In(email) /\ l = email[i] /\ ~l.multi
      BY <1>4, <1>6
    <3>. HIDE DEF i, l
    <3>3. QED
      BY <3>1, <3>2
  <2>3. QED
    BY <2>1, <2>2
<1>8. FileOK(email', size, text, daten) /\ Stays(email, daten, email')
      /\ Evolves(email, daten, email')
  <2>1. \A k \in In(email') : text[email'[k].msg] # NoText
    BY <1>1, <1>7 DEF FileOK
  <2>2. QED
    BY <1>1, <1>7, <2>1, RemovedFile
<1>9. text[l.msg] # NoText
  BY <1>1, <1>4 DEF FileOK
<1>. DEFINE h == [fromuser |-> l.fromuser, msg |-> l.msg, to |-> <<u>>,
                  multi |-> FALSE, back |-> "mail"]
            ne == [pr EXCEPT !.pc = "send", !.mailcheck = TRUE, !.hand = h]
<1>10. h \in Hands /\ h.msg = l.msg /\ h.back = "mail" /\ Do(n, ne)
  BY <1>3, <1>4, SingleList DEF Hands, Letters
<1>11. /\ pr \in Instance /\ pr.user = nd.user /\ pr.mloc = nd.mloc /\ pr.m = NoLetter
       /\ pr.emchg = nd.emchg
  BY <1>1, PromptType
<1>. HIDE DEF h, l, i, r, pr
<1>12. /\ ne \in Instance /\ ne.pc = "send" /\ ne.hand = h /\ ne.user = nd.user
       /\ ne.mloc = nd.mloc /\ ne.m = NoLetter /\ ne.emchg = nd.emchg
  BY <1>10, <1>11 DEF Instance, Steps
<1>. HIDE DEF ne
<1>13. NodeOK(email', daten', text', n, ne, changed')
  <2>1. Fewer(nd, ne, {}) /\ daten <= daten /\ daten \in Int
    BY <1>1, <1>12, NothingFewer
  <2>2. ListOK(email', daten, ne)
    BY <1>1, <1>8, <2>1, ListKept
  <2>3. PlaceOK(email', n, ne, changed)
    <3>1. nd.emchg \/ n \in changed => ne.emchg \/ n \in changed
      BY <1>12
    <3>2. ne.pc # "lost"
      BY <1>12
    <3>. HIDE DEF nd
    <3>3. QED
      BY <1>1, <1>8, <2>1, <3>1, <3>2, PlaceKept
  <2>4. DisplayOK(email', ne) /\ HandOK(email', text, ne)
    BY <1>7, <1>9, <1>10, <1>12 DEF DisplayOK, OnDisplay, HandOK
  <2>5. QED
    BY <1>2, <1>12, <2>2, <2>3, <2>4 DEF NodeOK
<1>14. ASSUME NEW k \in Nodes \ {n}, node[k].pc = "send"
       PROVE  /\ text'[node[k].hand.msg] # NoText
              /\ \A j \in In(email') : email'[j].msg # node[k].hand.msg
              /\ ne.pc = "send" => node[k].hand.msg # ne.hand.msg
  <2>1. HandOK(email, text, node[k]) /\ text' = text
    BY <1>2 DEF Safe, NodeOK
  <2>2. \A j \in In(email) : email[j].msg # node[k].hand.msg
    BY <1>14, <2>1 DEF HandOK
  <2>3. node[k].hand.msg # l.msg
    BY <1>4, <2>2
  <2>4. \A j \in In(email') : email'[j].msg # node[k].hand.msg
    BY <1>7, <2>2
  <2>5. QED
    BY <1>10, <1>12, <1>14, <2>1, <2>3, <2>4 DEF HandOK
<1>15. FileOK(email', size', text', daten') /\ daten <= daten' /\ Do(n, ne)
       /\ changed' = changed
  BY <1>1, <1>2, <1>5, <1>8, <1>10 DEF ne
<1>16. QED
  BY <1>8, <1>12, <1>13, <1>14, <1>15, StepSafe

---------------------------------------------------------------------------
(* Packing and sending *)

LEMMA PackSafe ==
    ASSUME TypeInv, TypeInv', Safe, NEW n \in Nodes, Pack(n)
    PROVE  Safe'
<1>1. /\ email \in File /\ email' \in File /\ daten \in Nat /\ Used = In(email) /\ FileType
      /\ FileOK(email, size, text, daten)
  BY FileFacts DEF Safe, TypeInv, TypeOK, File, FileType
<1>2. Do(n, OffLine) /\ text' = text /\ daten' = daten
  BY DEF Pack
<1>3. NodeOK(email', daten', text', n, OffLine, changed') /\ OffLine.pc = "off"
      /\ OffLine \in Instance
  BY <1>1, <1>2, OffLineFacts, OffLineType DEF OffLine
<1>4. CASE UNCHANGED <<email, size, changed>>
  <2>1. NodeOK(email, daten, text, n, OffLine, changed')
    BY <1>1, OffLineFacts
  <2>2. QED
    BY <1>2, <1>3, <1>4, <2>1, QuietStep
<1>5. CASE /\ email' = Packed /\ size' = Cardinality(Used)
           /\ changed' = {k \in Nodes \ {n} : node[k].pc # "off"}
  <2>1. ASSUME NEW k \in In(email')
        PROVE  \E i \in In(email) : Rank(i) = k /\ email'[k] = email[i] /\ k < size'
    <3>1. k \in Slots /\ Packed[k] # NoLetter
      BY <1>5 DEF In
    <3>2. PICK i \in Used : Rank(i) = k /\ Packed[k] = email[i]
      BY <1>1, <3>1, PackedFacts
    <3>3. k < size'
      BY <1>1, <1>5, <3>2, RankType
    <3>4. QED
      BY <1>1, <1>5, <3>2, <3>3
  <2>2. Evolves(email, daten, email')
    <3>1. ASSUME NEW k \in In(email'), NEW l \in In(email')
          PROVE  \E i, j \in In(email) : /\ email'[k] = email[i] /\ email'[l] = email[j]
                                         /\ k < l => i < j
      <4>1. PICK i \in Used, j \in Used : /\ Rank(i) = k /\ email'[k] = email[i]
                                          /\ Rank(j) = l /\ email'[l] = email[j]
        BY <1>1, <2>1
      <4>2. QED
        BY <1>1, <4>1, PackedFacts
    <3>2. QED
      BY <3>1 DEF Evolves
  <2>3. ASSUME NEW k \in In(email'), NEW l \in In(email')
        PROVE  /\ email'[k].daten <= daten /\ k < size' /\ text[email'[k].msg] # NoText
               /\ email'[k].msg = email'[l].msg /\ k # l => email'[k].multi
               /\ email'[k].daten = email'[l].daten => email'[k].multi = email'[l].multi
               /\ Same(email'[k], email'[l]) => k = l
    <3>1. PICK i \in In(email), j \in In(email) :
              /\ Rank(i) = k /\ email'[k] = email[i]
              /\ Rank(j) = l /\ email'[l] = email[j]
      BY <2>1
    <3>2. k # l => i # j
      BY <3>1
    <3>3. QED
      BY <1>1, <2>1, <3>1, <3>2 DEF FileOK
  <2>4. FileOK(email', size', text', daten')
    BY <1>2, <2>3 DEF FileOK
  <2>5. ASSUME NEW k \in Nodes \ {n}, node[k].pc = "send"
        PROVE  /\ text'[node[k].hand.msg] # NoText
               /\ \A i \in In(email') : email'[i].msg # node[k].hand.msg
    <3>1. HandOK(email, text, node[k])
      BY DEF Safe, NodeOK
    <3>2. QED
      BY <1>2, <2>1, <2>5, <3>1 DEF HandOK
  <2>6. \A k \in Nodes \ {n} : k \in changed' \/ node[k].pc = "off"
    BY <1>5
  <2>7. ASSUME NEW k \in Nodes \ {n}, k \in changed PROVE k \in changed' \/ node[k].pc = "off"
    BY <2>6
  <2>8. QED
    BY <1>1, <1>2, <1>3, <2>2, <2>4, <2>5, <2>6, <2>7, StepSafe
<1>6. QED
  BY <1>4, <1>5 DEF Pack

LEMMA WriteSafe ==
    ASSUME TypeInv, TypeInv', Safe, NEW n \in Nodes, Write(n)
    PROVE  Safe'
<1>. DEFINE nd == node[n]
<1>1. /\ email \in File /\ daten \in Nat /\ nd \in Instance /\ SessionOK(nd)
      /\ NodeOK(email, daten, text, n, nd, changed) /\ FileOK(email, size, text, daten)
      /\ text \in [Places -> Messages \union {NoText}]
  BY FileFacts DEF Safe, TypeInv, TypeOK
<1>2. PICK m \in Messages \ written, p \in Places, w \in Mailings :
          /\ text[p] = NoText /\ text' = [text EXCEPT ![p] = m]
          /\ Do(n, [nd EXCEPT !.pc = "send",
                        !.hand = [fromuser |-> nd.user, msg |-> p, to |-> w.to,
                                  multi |-> w.multi, back |-> nd.pc]])
  BY DEF Write
<1>3. /\ email' = email /\ size' = size /\ daten' = daten /\ changed' = changed
      /\ nd.pc \in {"main", "shown"} /\ nd.user \in Users
  BY <1>1 DEF Write, SessionOK
<1>. DEFINE h == [fromuser |-> nd.user, msg |-> p, to |-> w.to,
                  multi |-> w.multi, back |-> nd.pc]
            ne == [nd EXCEPT !.pc = "send", !.hand = h]
<1>4. h \in Hands /\ h.msg = p /\ h.back = nd.pc
  <2>1. w.to \in Lists /\ w.multi \in BOOLEAN
    BY MailAssumption
  <2>2. QED
    BY <1>3, <2>1 DEF Hands
<1>5. Do(n, ne)
  BY <1>2
<1>. HIDE DEF h
<1>6. /\ ne \in Instance /\ ne.pc = "send" /\ ne.hand = h /\ ne.user = nd.user
      /\ ne.mloc = nd.mloc /\ ne.m = nd.m /\ ne.rec = nd.rec /\ ne.emchg = nd.emchg
  BY <1>1, <1>4 DEF Instance, Steps
<1>. HIDE DEF ne
<1>7. text'[p] # NoText /\ \A q \in Places : q # p => text'[q] = text[q]
  BY <1>1, <1>2, MailAssumption
<1>8. \A i \in In(email) : email[i].msg \in Places /\ text[email[i].msg] # NoText
                           /\ email[i].msg # p
  BY <1>1, <1>2, InFacts DEF FileOK, Letters
<1>9. FileOK(email', size', text', daten') /\ Stays(email, daten, email')
      /\ Evolves(email, daten, email')
  <2>1. \A i \in In(email) : text'[email[i].msg] # NoText
    BY <1>7, <1>8
  <2>2. FileOK(email, size, text', daten) /\ Stays(email, daten, email)
        /\ Evolves(email, daten, email)
    BY <1>1, <2>1, RemovedFile
  <2>3. QED
    BY <1>3, <2>2
<1>10. NodeOK(email', daten', text', n, ne, changed')
  <2>1. ListOK(email, daten, ne) /\ PlaceOK(email, n, ne, changed)
    BY <1>1, <1>6, SameList
  <2>2. DisplayOK(email, ne)
    BY <1>1, <1>3, <1>4, <1>6 DEF NodeOK, DisplayOK, OnDisplay, SameEmail
  <2>3. HandOK(email, text', ne)
    BY <1>4, <1>6, <1>7, <1>8 DEF HandOK
  <2>4. QED
    BY <1>3, <1>6, <2>1, <2>2, <2>3 DEF NodeOK
<1>11. ASSUME NEW k \in Nodes \ {n}, node[k].pc = "send"
       PROVE  /\ text'[node[k].hand.msg] # NoText
              /\ \A i \in In(email') : email'[i].msg # node[k].hand.msg
              /\ ne.pc = "send" => node[k].hand.msg # ne.hand.msg
  <2>1. HandOK(email, text, node[k]) /\ SessionOK(node[k])
    BY FileFacts DEF Safe, NodeOK
  <2>2. node[k].hand.msg \in Places /\ text[node[k].hand.msg] # NoText
    BY <1>11, <2>1 DEF SessionOK, Hands, HandOK
  <2>3. node[k].hand.msg # p
    BY <1>2, <2>2
  <2>4. \A i \in In(email') : email'[i].msg # node[k].hand.msg
    BY <1>3, <1>11, <2>1 DEF HandOK
  <2>5. QED
    BY <1>4, <1>6, <1>7, <2>2, <2>3, <2>4
<1>12. daten <= daten'
  BY <1>1, <1>3
<1>13. QED
  BY <1>3, <1>5, <1>6, <1>9, <1>10, <1>11, <1>12, StepSafe

\* Letters are added behind all others, one for each user on the list.
LEMMA AppendedFile ==
    ASSUME TypeOK, FileOK(email, size, text, daten), NEW l \in Letters, NEW list \in Lists,
           AppendLetters(l, list)
    PROVE  /\ \A k \in In(email') : \/ k \in In(email) /\ email'[k] = email[k]
                                    \/ k - End + 1 \in DOMAIN list
                                       /\ email'[k] = [l EXCEPT !.touser = list[k - End + 1]]
                                       /\ k < size'
           /\ \A k \in In(email) : email'[k] = email[k] /\ k \in In(email') /\ k < size'
           /\ \A j \in DOMAIN list : \E k \in In(email') :
                  j = k - End + 1 /\ email'[k] = [l EXCEPT !.touser = list[j]]
<1>1. /\ email \in File /\ FileType /\ Used = In(email) /\ size \in Int
      /\ End \in 0 .. LastSlot + 1 /\ End \in Int /\ \A i \in Used : i < End
      /\ Len(list) \in Nat /\ DOMAIN list = 1 .. Len(list)
      /\ list \in [1 .. Len(list) -> Users]
  BY EndFacts, ListFacts, SlotsFacts DEF TypeOK, File, FileType, Used, In
<1>2. /\ End + Len(list) <= LastSlot + 1
      /\ email' = [i \in Slots |-> IF i - End + 1 \in DOMAIN list
                                   THEN [l EXCEPT !.touser = list[i - End + 1]] ELSE email[i]]
      /\ size' = IF list = <<>> THEN size ELSE Grown(End + Len(list))
  BY DEF AppendLetters
<1>3. \A i \in Slots : i \in Int
  BY SlotsFacts
<1>4. size' \in Int /\ size <= size' /\ (DOMAIN list # {} => End + Len(list) <= size')
  <2>1. DOMAIN list # {} => list # <<>>
    BY ListFacts, <1>1
  <2>2. Grown(End + Len(list)) \in Int /\ size <= Grown(End + Len(list))
        /\ End + Len(list) <= Grown(End + Len(list))
    BY <1>1 DEF Grown
  <2>3. QED
    BY <1>1, <1>2, <2>1, <2>2
<1>5. ASSUME NEW k \in Slots, k - End + 1 \in DOMAIN list
      PROVE  /\ email'[k] = [l EXCEPT !.touser = list[k - End + 1]] /\ email'[k] # NoLetter
             /\ k < size' /\ k \notin In(email) /\ k \in In(email')
  <2>1. email'[k] = [l EXCEPT !.touser = list[k - End + 1]] /\ email'[k] \in Letters
    BY <1>1, <1>2, <1>5 DEF Letters
  <2>2. k < size' /\ k \notin In(email)
    BY <1>1, <1>3, <1>4, <1>5
  <2>3. QED
    BY <2>1, <2>2, NoLetterAssumption DEF In
<1>6. ASSUME NEW k \in Slots, k - End + 1 \notin DOMAIN list PROVE email'[k] = email[k]
  BY <1>2, <1>6
<1>7. ASSUME NEW k \in In(email) PROVE email'[k] = email[k] /\ k \in In(email') /\ k < size'
  <2>1. k \in Slots /\ email[k] # NoLetter
    BY DEF In
  <2>2. email'[k] = email[k]
    BY <1>5, <1>6, <2>1
  <2>3. k < size
    BY DEF FileOK
  <2>4. QED
    BY <1>1, <1>3, <1>4, <2>1, <2>2, <2>3 DEF In
<1>8. ASSUME NEW k \in In(email')
      PROVE  \/ k \in In(email) /\ email'[k] = email[k]
             \/ k - End + 1 \in DOMAIN list
                /\ email'[k] = [l EXCEPT !.touser = list[k - End + 1]]
                /\ k < size'
  <2>1. k \in Slots /\ email'[k] # NoLetter
    BY DEF In
  <2>2. CASE k - End + 1 \in DOMAIN list
    BY <1>5, <2>1, <2>2
  <2>3. CASE k - End + 1 \notin DOMAIN list
    BY <1>6, <2>1, <2>3 DEF In
  <2>4. QED
    BY <2>2, <2>3
<1>9. ASSUME NEW j \in DOMAIN list
      PROVE  \E k \in In(email') : j = k - End + 1 /\ email'[k] = [l EXCEPT !.touser = list[j]]
  <2>. DEFINE k == End + j - 1
  <2>1. j \in Int /\ 1 <= j /\ j <= Len(list)
    BY <1>1, <1>9
  <2>2. k \in Slots /\ k - End + 1 = j
    <3>1. End \in Int /\ 0 <= End /\ Len(list) \in Int /\ LastSlot \in Int
          /\ End + Len(list) <= LastSlot + 1
      BY <1>1, <1>2, SlotsFacts
    <3>2. k \in Int /\ 0 <= k /\ k <= LastSlot /\ k - End + 1 = j
      BY <2>1, <3>1
    <3>. HIDE DEF k
    <3>3. QED
      BY <3>2, SlotsFacts
  <2>. HIDE DEF k
  <2>3. QED
    BY <1>5, <1>9, <2>2
<1>10. QED
  BY <1>7, <1>8, <1>9

LEMMA SendSafe ==
    ASSUME TypeInv, TypeInv', Safe, NEW n \in Nodes, Send(n)
    PROVE  Safe'
<1>. DEFINE nd == node[n]
            h == nd.hand
            l == [fromuser |-> h.fromuser, touser |-> h.fromuser,
                  daten |-> daten', msg |-> h.msg, multi |-> h.multi]
            ne == [nd EXCEPT !.pc = h.back, !.hand = NoHand]
            New(k) == k - End + 1 \in DOMAIN h.to
                      /\ email'[k] = [l EXCEPT !.touser = h.to[k - End + 1]] /\ k < size'
<1>1. /\ email \in File /\ email' \in File /\ daten \in Nat /\ nd \in Instance /\ SessionOK(nd)
      /\ NodeOK(email, daten, text, n, nd, changed) /\ FileOK(email, size, text, daten)
      /\ ListOK(email, daten, nd) /\ PlaceOK(email, n, nd, changed) /\ TypeOK
  BY FileFacts DEF Safe, NodeOK, TypeInv, TypeOK, File
<1>2. /\ nd.pc = "send" /\ daten' = daten + 1 /\ daten < MaxTime /\ AppendLetters(l, h.to)
      /\ Do(n, ne) /\ text' = text /\ changed' = changed
  BY DEF Send
<1>3. /\ h \in Hands /\ h.to \in Lists /\ h.multi \in BOOLEAN /\ (h.multi \/ Len(h.to) <= 1)
      /\ h.back \in {"main", "mail", "shown"}
  BY <1>1, <1>2 DEF SessionOK, Hands
<1>4. l \in Letters
  BY <1>1, <1>2, <1>3, SlotsFacts DEF Hands, Letters
<1>5. /\ \A k \in In(email') : (k \in In(email) /\ email'[k] = email[k]) \/ New(k)
      /\ \A k \in In(email) : email'[k] = email[k] /\ k \in In(email') /\ k < size'
  BY <1>1, <1>2, <1>3, <1>4, AppendedFile
<1>6. ASSUME NEW k, New(k)
      PROVE  /\ email'[k].daten = daten + 1 /\ email'[k].msg = h.msg
             /\ email'[k].multi = h.multi /\ email'[k].touser = h.to[k - End + 1]
             /\ k - End + 1 \in 1 .. Len(h.to)
  BY <1>2, <1>3, <1>6, ListFacts
<1>7. text[h.msg] # NoText /\ \A i \in In(email) : email[i].msg # h.msg
  BY <1>1, <1>2 DEF NodeOK, HandOK
<1>. HIDE DEF New, l
<1>8. \A k \in In(email) : email[k].daten <= daten /\ email[k].daten \in Int
                           /\ text[email[k].msg] # NoText
  BY <1>1, InFacts DEF FileOK
<1>9. ASSUME NEW k \in In(email'), NEW j \in In(email')
      PROVE  /\ email'[k].daten <= daten' /\ k < size' /\ text'[email'[k].msg] # NoText
             /\ email'[k].msg = email'[j].msg /\ k # j => email'[k].multi
             /\ email'[k].daten = email'[j].daten => email'[k].multi = email'[j].multi
             /\ Same(email'[k], email'[j]) => k = j
  <2>1. CASE New(k) /\ New(j)
    <3>1. k \in Int /\ j \in Int /\ End \in Int
      BY <1>1, InFacts, EndFacts DEF File, FileType
    <3>2. Same(email'[k], email'[j]) => k = j
      <4>1. SUFFICES ASSUME email'[k].touser = email'[j].touser PROVE k = j
        BY DEF Same
      <4>2. k - End + 1 = j - End + 1
        <5>1. h.to[k - End + 1] = h.to[j - End + 1]
          BY <1>6, <2>1, <4>1
        <5>2. k - End + 1 \in 1 .. Len(h.to) /\ j - End + 1 \in 1 .. Len(h.to)
          BY <1>6, <2>1
        <5>. HIDE DEF h
        <5>3. QED
          BY <1>3, <5>1, <5>2, ListFacts
      <4>3. QED
        BY <3>1, <4>2
    <3>3. k # j => h.multi
      <4>1. CASE h.multi
        BY <4>1
      <4>2. CASE Len(h.to) <= 1
        <5>1. k - End + 1 \in 1 .. Len(h.to) /\ j - End + 1 \in 1 .. Len(h.to)
          BY <1>6, <2>1
        <5>2. Len(h.to) \in Nat
          BY <1>3, ListFacts
        <5>3. QED
          BY <3>1, <4>2, <5>1, <5>2
      <4>3. QED
        BY <1>3, <4>1, <4>2
    <3>4. k < size'
      BY <2>1 DEF New
    <3>5. QED
      BY <1>1, <1>2, <1>6, <1>7, <2>1, <3>2, <3>3, <3>4
  <2>2. CASE New(k) /\ ~New(j)
    <3>1. j \in In(email) /\ email'[j] = email[j]
      BY <1>5, <2>2
    <3>2. email'[j].daten <= daten /\ email'[j].daten \in Int /\ email'[j].msg # h.msg
      BY <1>7, <1>8, <3>1
    <3>3. k < size'
      BY <2>2 DEF New
    <3>4. email'[k].daten = daten + 1 /\ email'[k].msg = h.msg
      BY <1>6, <2>2
    <3>5. QED
      BY <1>1, <1>2, <1>7, <3>2, <3>3, <3>4 DEF Same
  <2>3. CASE ~New(k) /\ New(j)
    <3>1. k \in In(email) /\ email'[k] = email[k] /\ k < size'
      BY <1>5, <2>3
    <3>2. email'[k].daten <= daten /\ email'[k].daten \in Int /\ email'[k].msg # h.msg
          /\ text[email'[k].msg] # NoText
      BY <1>7, <1>8, <3>1
    <3>3. email'[j].daten = daten + 1 /\ email'[j].msg = h.msg
      BY <1>6, <2>3
    <3>4. QED
      BY <1>1, <1>2, <3>1, <3>2, <3>3 DEF Same
  <2>4. CASE ~New(k) /\ ~New(j)
    <3>1. /\ k \in In(email) /\ email'[k] = email[k] /\ k < size'
          /\ j \in In(email) /\ email'[j] = email[j]
      BY <1>5, <2>4
    <3>2. email'[k].daten <= daten' /\ text'[email'[k].msg] # NoText
      BY <1>1, <1>2, <1>8, <3>1
    <3>3. QED
      BY <1>1, <3>1, <3>2 DEF FileOK
  <2>5. QED
    BY <2>1, <2>2, <2>3, <2>4
<1>10. FileOK(email', size', text', daten')
  BY <1>9 DEF FileOK
<1>11. Stays(email, daten, email') /\ Evolves(email, daten, email')
  <2>1. ASSUME NEW k \in In(email'), email'[k].daten <= daten
        PROVE  k \in In(email) /\ email'[k] = email[k]
    BY <1>1, <1>5, <1>6, <2>1
  <2>2. Stays(email, daten, email')
    BY <2>1 DEF Stays
  <2>3. QED
    BY <2>2, StaysEvolves
<1>12. daten \in Int /\ daten' \in Int /\ daten <= daten'
  BY <1>1, <1>2
<1>13. /\ ne \in Instance /\ ne.pc = h.back /\ ne.user = nd.user /\ ne.mloc = nd.mloc
       /\ ne.m = nd.m /\ ne.rec = nd.rec /\ ne.emchg = nd.emchg
  BY <1>1, <1>3 DEF Instance, Steps
<1>14. Do(n, ne)
  BY <1>2
<1>. HIDE DEF ne
<1>15. NodeOK(email', daten', text', n, ne, changed')
  <2>1. Fewer(nd, ne, {})
    BY <1>13, NothingFewer
  <2>2. ListOK(email', daten', ne)
    BY <1>1, <1>11, <1>12, <2>1, ListKept
  <2>3. PlaceOK(email', n, ne, changed)
    <3>1. nd.emchg \/ n \in changed => ne.emchg \/ n \in changed
      BY <1>13
    <3>2. ne.pc # "lost"
      BY <1>3, <1>13
    <3>. HIDE DEF nd
    <3>3. QED
      BY <1>1, <1>11, <1>12, <2>1, <3>1, <3>2, PlaceKept
  <2>4. DisplayOK(email', nd)
    BY <1>1, <1>11, <1>12, DisplayKept DEF NodeOK
  <2>5. DisplayOK(email', ne)
    BY <1>2, <1>3, <1>13, <2>4 DEF DisplayOK, OnDisplay, SameEmail
  <2>6. QED
    BY <1>2, <1>3, <1>13, <2>2, <2>3, <2>5 DEF NodeOK, HandOK
<1>16. ASSUME NEW k \in Nodes \ {n}, node[k].pc = "send"
       PROVE  /\ text'[node[k].hand.msg] # NoText
              /\ \A i \in In(email') : email'[i].msg # node[k].hand.msg
              /\ ne.pc = "send" => node[k].hand.msg # ne.hand.msg
  <2>1. HandOK(email, text, node[k]) /\ text' = text
    BY <1>2 DEF Safe, NodeOK
  <2>2. node[k].hand.msg # h.msg
    BY <1>2, <1>16 DEF Safe, HandsApart
  <2>3. \A i \in In(email') : email'[i].msg # node[k].hand.msg
    BY <1>5, <1>6, <1>16, <2>1, <2>2 DEF HandOK
  <2>4. ne.pc # "send"
    BY <1>3, <1>13
  <2>5. QED
    BY <1>16, <2>1, <2>3, <2>4 DEF HandOK
<1>17. changed' = changed
  BY <1>2
<1>18. QED
  BY <1>10, <1>11, <1>12, <1>13, <1>14, <1>15, <1>16, <1>17, StepSafe

---------------------------------------------------------------------------
(* The invariant *)

\* Once astray, always astray.
LEMMA AstrayStays ==
    ASSUME NEW n \in Nodes, NodeStep(n), astray
    PROVE  astray'
<1>1. CASE \/ LogOn(n) \/ GetStatus(n) \/ LogOff(n) \/ Pack(n) \/ Crash(n) \/ Write(n) \/ Send(n)
           \/ Look(n) \/ Kill(n)
  BY <1>1 DEF LogOn, GetStatus, LogOff, Pack, Crash, Write, Send, Look, Kill
<1>2. CASE ReadMail(n) \/ Quit(n) \/ (\E r \in Slots : Show(n, r) \/ Miss(n, r)) \/ Lost(n)
  BY <1>2 DEF ReadMail, Quit, Show, Miss, Lost
<1>3. CASE ResynchEmail(n) \/ Mark(n) \/ Delete(n) \/ DeleteBehindEnd(n) \/ Purge(n)
  BY <1>3 DEF ResynchEmail, Mark, Delete, DeleteBehindEnd, Purge
<1>4. CASE AskForward(n) \/ NoForward(n) \/ Forward(n) \/ ForwardMoved(n)
  BY <1>4 DEF AskForward, NoForward, Forward, ForwardMoved
<1>5. QED
  BY <1>1, <1>2, <1>3, <1>4 DEF NodeStep, Reader

LEMMA SafeNext ==
    ASSUME TypeInv, TypeInv', Safe, NEW n \in Nodes, NodeStep(n), ~astray'
    PROVE  Safe'
<1>1. ~DeleteBehindEnd(n)
  BY DEF DeleteBehindEnd
<1>2. CASE LogOn(n) \/ GetStatus(n) \/ LogOff(n) \/ Crash(n)
  BY <1>2, SessionSafe
<1>3. CASE Pack(n)
  BY <1>3, PackSafe
<1>4. CASE Write(n)
  BY <1>4, WriteSafe
<1>5. CASE Send(n)
  BY <1>5, SendSafe
<1>6. CASE ReadMail(n) \/ Quit(n) \/ AskForward(n) \/ NoForward(n) \/ ForwardMoved(n)
           \/ Look(n) \/ Mark(n)
  BY <1>6, LookSafe
<1>7. CASE Lost(n) \/ \E r \in Slots : Show(n, r) \/ Miss(n, r)
  BY <1>7, SearchSafe
<1>8. CASE ResynchEmail(n) \/ Delete(n) \/ Kill(n)
  BY <1>8, DeleteSafe
<1>9. CASE Purge(n)
  BY <1>9, PurgeSafe
<1>10. CASE Forward(n)
  BY <1>10, ForwardSafe
<1>11. QED
  BY <1>1, <1>2, <1>3, <1>4, <1>5, <1>6, <1>7, <1>8, <1>9, <1>10 DEF NodeStep, Reader

LEMMA InvInit == Init => IInv
<1>. SUFFICES ASSUME Init PROVE IInv
  OBVIOUS
<1>1. TypeInv
  BY TypeInit
<1>2. In(email) = {} /\ daten \in Nat
  BY DEF Init, In
<1>3. FileOK(email, size, text, daten)
  BY <1>2 DEF FileOK
<1>4. \A n \in Nodes : node[n] = OffLine /\ node[n].pc = "off"
  BY DEF Init, OffLine
<1>5. \A n \in Nodes : NodeOK(email, daten, text, n, node[n], changed)
  BY <1>2, <1>4, OffLineFacts
<1>6. HandsApart(node)
  BY <1>4 DEF HandsApart
<1>7. QED
  BY <1>1, <1>3, <1>5, <1>6 DEF IInv, Safe

LEMMA InvNext == IInv /\ [Next]_vars => IInv'
<1>1. ASSUME IInv, NEW n \in Nodes, NodeStep(n) PROVE IInv'
  <2>1. TypeInv /\ TypeInv'
    BY <1>1, TypeNext DEF IInv, Next
  <2>2. CASE astray'
    BY <2>1, <2>2 DEF IInv
  <2>3. CASE ~astray'
    <3>1. Safe
      BY <1>1, <2>3, AstrayStays DEF IInv
    <3>2. QED
      BY <1>1, <2>1, <2>3, <3>1, SafeNext DEF IInv
  <2>4. QED
    BY <2>2, <2>3
<1>2. ASSUME IInv, UNCHANGED vars PROVE IInv'
  <2>1. TypeInv'
    BY <1>2, TypeNext DEF IInv
  <2>2. (astray \/ Safe)'
    BY <1>2 DEF IInv, Safe, vars
  <2>3. QED
    BY <2>1, <2>2 DEF IInv
<1>3. QED
  BY <1>1, <1>2 DEF Next

---------------------------------------------------------------------------
(* What follows *)

LEMMA InvImplies == IInv => LettersHaveTexts /\ OneCopy /\ LostIsGone
<1>. SUFFICES ASSUME IInv, ~astray PROVE LettersHaveTexts /\ OneCopy /\ LostIsGone
  BY DEF LettersHaveTexts, OneCopy, LostIsGone
<1>1. Safe /\ Used = In(email) /\ Used \subseteq Slots
  BY FileFacts DEF IInv, Used
<1>2. LettersHaveTexts
  BY <1>1 DEF LettersHaveTexts, Safe, FileOK, NodeOK, HandOK
<1>3. OneCopy
  BY <1>1 DEF OneCopy, Safe, FileOK
<1>4. ASSUME NEW n \in Nodes, NEW r \in Slots, node[n].mloc[r].index = Gone
      PROVE  LetterOf(node[n], r) = {}
  <2>1. \A i \in Used : ~SameEmail(node[n], r, email[i])
    BY <1>1, <1>4 DEF Safe, NodeOK, ListOK
  <2>2. QED
    BY <2>1 DEF LetterOf
<1>5. QED
  BY <1>2, <1>3, <1>4 DEF LostIsGone

\* delmail (MSGBASE1.C) frees a text only with the last letter that needs it, for
\* any number of letters, multimails, forwards and instances.
THEOREM MailLettersHaveTexts == Spec => []LettersHaveTexts
BY InvInit, InvNext, InvImplies, PTL DEF Spec

\* The packing at logoff, forwarding and the writing back of a marked letter never
\* leave two copies of a letter in EMAIL.DAT.
THEOREM MailOneCopy == Spec => []OneCopy
BY InvInit, InvNext, InvImplies, PTL DEF Spec

\* read_same_email and resynch_email (READMAIL.C) take a letter for removed only if
\* it was, however often other instances pack the file in between.
THEOREM MailLostIsGone == Spec => []LostIsGone
BY InvInit, InvNext, InvImplies, PTL DEF Spec

---------------------------------------------------------------------------
(* What a step may do *)

\* The letters at S, all of them from sender to u, go, and the others stay as they are.
Gives(n, S, u, sender) ==
    /\ \A i \in S : email[i].touser = u /\ email[i].fromuser = sender
    /\ \A i \in S : Purge(n) \/ email[i].daten = Meant(node[n])
    /\ node'[n] # node[n] /\ daten' = daten
    /\ \A k \in In(email') : /\ k \in Used \ S /\ email'[k] = email[k]
                             /\ text'[email[k].msg] = text[email[k].msg]
    /\ \A k \in Used \ S : k \in In(email') /\ email'[k] = email[k]

LEMMA StepRemoves ==
    ASSUME TypeInv, Safe, NEW n \in Nodes, NodeStep(n), ~astray'
    PROVE  \/ /\ UNCHANGED <<email, daten>>
              /\ \A k \in In(email) : text'[email[k].msg] = text[email[k].msg]
           \/ Pack(n) /\ email' = Packed /\ text' = text /\ daten' = daten
           \/ Send(n)
           \/ \E S \in SUBSET Used, u, sender \in Users : Gives(n, S, u, sender)
<1>. DEFINE nd == node[n]
<1>1. /\ email \in File /\ nd \in Instance /\ FileOK(email, size, text, daten) /\ TypeOK
      /\ Used = In(email) /\ ListOK(email, daten, nd) /\ DisplayOK(email, nd)
      /\ Used \subseteq Slots /\ node \in [Nodes -> Instance]
  BY FileFacts DEF Safe, NodeOK, TypeInv, TypeOK, Used
<1>2. \A k \in Used : email[k].touser \in Users /\ email[k].fromuser \in Users
                      /\ email[k].msg \in Places /\ email[k] \in Letters
  BY <1>1, InFacts DEF Letters
<1>3. ASSUME NEW S \in SUBSET Used, DelMail(S)
      PROVE  /\ \A k \in In(email') : /\ k \in Used \ S /\ email'[k] = email[k]
                                      /\ text'[email[k].msg] = text[email[k].msg]
             /\ \A k \in Used \ S : k \in In(email') /\ email'[k] = email[k]
  <2>1. \A k \in Used \ S : k \in In(email') /\ email'[k] = email[k]
    BY <1>1, <1>3 DEF DelMail, In
  <2>2. QED
    BY <1>1, <1>3, <2>1, DelMailSafe
<1>4. CASE LogOn(n) \/ GetStatus(n) \/ LogOff(n) \/ Crash(n) \/ ReadMail(n) \/ Quit(n)
           \/ (\E r \in Slots : Show(n, r) \/ Miss(n, r)) \/ Lost(n) \/ AskForward(n)
           \/ NoForward(n) \/ ForwardMoved(n) \/ Look(n)
  <2>1. UNCHANGED <<email, text, daten>>
    <3>1. CASE LogOn(n)
      BY <3>1 DEF LogOn
    <3>2. CASE Quit(n)
      BY <3>2 DEF Quit
    <3>3. CASE Crash(n)
      BY <3>3 DEF Crash
    <3>4. CASE GetStatus(n)
      BY <3>4 DEF GetStatus
    <3>5. CASE LogOff(n)
      BY <3>5 DEF LogOff
    <3>6. CASE ReadMail(n)
      BY <3>6 DEF ReadMail
    <3>7. CASE \E r \in Slots : Show(n, r) \/ Miss(n, r)
      <4>1. PICK r \in Slots : Show(n, r) \/ Miss(n, r)
        BY <3>7
      <4>2. CASE Show(n, r)
        BY <4>2 DEF Show
      <4>3. CASE Miss(n, r)
        BY <4>3 DEF Miss
      <4>4. QED
        BY <4>1, <4>2, <4>3
    <3>8. CASE Lost(n)
      BY <3>8 DEF Lost
    <3>9. CASE AskForward(n) \/ NoForward(n)
      BY <3>9 DEF AskForward, NoForward
    <3>10. CASE ForwardMoved(n)
      BY <3>10 DEF ForwardMoved
    <3>11. CASE Look(n)
      BY <3>11 DEF Look
    <3>12. QED
      BY <1>4, <3>1, <3>2, <3>3, <3>4, <3>5, <3>6, <3>7, <3>8, <3>9, <3>10, <3>11
  <2>2. QED
    BY <2>1
<1>5. CASE Pack(n)
  BY <1>5 DEF Pack
<1>6. CASE Write(n)
  <2>1. UNCHANGED <<email, daten>>
    BY <1>6 DEF Write
  <2>2. PICK m \in Messages \ written, p \in Places : text[p] = NoText /\ text' = [text EXCEPT ![p] = m]
    BY <1>6 DEF Write
  <2>3. \A k \in In(email) : text'[email[k].msg] = text[email[k].msg]
    BY <1>1, <1>2, <2>2 DEF FileOK, TypeOK
  <2>4. QED
    BY <2>1, <2>3
<1>7. CASE Mark(n)
  <2>1. nd.rec \in Listed(nd) /\ InFile(nd, nd.rec)
    BY <1>7 DEF Mark, Stands
  <2>2. email' = email /\ daten' = daten /\ text' = text
    BY <1>1, <1>7, <2>1, InstanceFacts DEF Mark, Read, File
  <2>3. QED
    BY <2>2
<1>8. CASE Delete(n)
  <2>. DEFINE r == nd.rec
              i == nd.mloc[r].index
  <2>1. /\ nd.pc = "shown" /\ r \in Listed(nd) /\ SameEmail(nd, r, Read(nd, r)) /\ InFile(nd, r)
        /\ DelMail({i}) /\ daten' = daten
        /\ Do(n, [Prompt(Lose(nd, r)) EXCEPT !.mailcheck = TRUE])
    BY <1>8 DEF Delete, Stands
  <2>2. i \in Used /\ SameEmail(nd, r, email[i])
    BY <1>1, <2>1, InstanceFacts DEF Read, SameEmail, Used
  <2>3. email[i].daten = Meant(nd)
    BY <2>1, <2>2 DEF SameEmail, Meant
  <2>4. node'[n] # nd
    BY <1>1, <2>1 DEF Do, Prompt, Lose, Instance
  <2>5. \E S0 \in SUBSET Used, u, sender \in Users : Gives(n, S0, u, sender)
    <3>1. {i} \in SUBSET Used /\ email[i].touser \in Users /\ email[i].fromuser \in Users
      BY <1>2, <2>2
    <3>. HIDE DEF i, r
    <3>2. Gives(n, {i}, email[i].touser, email[i].fromuser)
      BY <1>3, <2>1, <2>2, <2>3, <2>4 DEF Gives
    <3>3. QED
      BY <3>1, <3>2, Zenon
  <2>6. QED
    BY <2>5
<1>9. CASE Kill(n)
  <2>1. CASE UNCHANGED <<email, size, text>>
    BY <1>9, <2>1 DEF Kill
  <2>2. CASE nd.rec < size /\ email[nd.rec] = nd.m /\ DelMail({nd.rec})
    <3>. DEFINE i == nd.rec
    <3>1. nd.pc = "kill" /\ nd.m # NoLetter /\ daten' = daten
      BY <1>1, <1>9 DEF Kill, DisplayOK
    <3>2. i \in Used /\ email[i].daten = Meant(nd)
      BY <1>1, <2>2, <3>1, InstanceFacts DEF Used, Meant
    <3>3. node'[n] # nd
      <4>1. PICK b : node' = [node EXCEPT ![n] = b] /\ b.pc = "main"
        <5>. DEFINE ne == [nd EXCEPT !.pc = "main", !.rec = 0, !.m = NoLetter]
                    mc == [ne EXCEPT !.mailcheck = TRUE]
        <5>1. ne.pc = "main" /\ mc.pc = "main"
          BY <1>1 DEF Instance
        <5>2. Do(n, ne) \/ Do(n, mc)
          BY <1>9 DEF Kill
        <5>3. QED
          BY <5>1, <5>2 DEF Do
      <4>2. QED
        BY <1>1, <3>1, <4>1
    <3>4. \E S0 \in SUBSET Used, u, sender \in Users : Gives(n, S0, u, sender)
      <4>1. DelMail({i})
        BY <2>2 DEF i
      <4>2. {i} \in SUBSET Used /\ email[i].touser \in Users /\ email[i].fromuser \in Users
        BY <1>2, <1>3, <3>1, <3>2, <3>3, <4>1
      <4>. HIDE DEF i
      <4>3. Gives(n, {i}, email[i].touser, email[i].fromuser)
        BY <1>3, <3>1, <3>2, <3>3, <4>1 DEF Gives
      <4>4. QED
        BY <4>2, <4>3, Zenon
    <3>5. QED
      BY <3>4
  <2>3. QED
    BY <1>9, <2>1, <2>2 DEF Kill
<1>10. CASE ResynchEmail(n)
  <2>. DEFINE re == [nd EXCEPT !.mloc = Refound(nd)]
              r == nd.rec
              i == re.mloc[r].index
  <2>1. /\ re \in Instance /\ re.mloc = Refound(nd) /\ re.user = nd.user /\ re.rec = r
        /\ nd.pc = "resynch" /\ daten' = daten
    BY <1>1, <1>10, RefoundType DEF ResynchEmail, Instance
  <2>2. \A s \in Listed(re) : re.mloc[s].index \in Used
                              /\ SameEmail(re, s, email[re.mloc[s].index])
    BY <1>1, <2>1, RefoundFacts
  <2>3. \/ UNCHANGED <<email, size, text>>
        \/ /\ r \in Listed(re) /\ DelMail({i})
           /\ Do(n, [Prompt(Lose(re, r)) EXCEPT !.mailcheck = TRUE])
    BY <1>10, <2>1 DEF ResynchEmail
  <2>. HIDE DEF re
  <2>4. CASE UNCHANGED <<email, size, text>>
    BY <2>1, <2>4
  <2>5. CASE /\ r \in Listed(re) /\ DelMail({i})
             /\ Do(n, [Prompt(Lose(re, r)) EXCEPT !.mailcheck = TRUE])
    <3>1. i \in Used /\ SameEmail(re, r, email[i])
      BY <2>2, <2>5
    <3>2. re.mloc[r].daten = nd.mloc[r].daten
      <4>1. r \in Slots /\ nd.mloc[r] \in Entries \union {NoEntry}
        BY <1>1, InstanceFacts, EntryFacts
      <4>2. QED
        BY <2>1, <4>1 DEF Refound, Entries, NoEntry
    <3>3. email[i].daten = Meant(nd)
      BY <2>1, <3>1, <3>2 DEF SameEmail, Meant
    <3>4. node'[n] # nd
      BY <1>1, <2>1, <2>5 DEF Do, Prompt, Lose, Instance
    <3>5. \E S0 \in SUBSET Used, u, sender \in Users : Gives(n, S0, u, sender)
      <4>1. {i} \in SUBSET Used /\ email[i].touser \in Users /\ email[i].fromuser \in Users
        BY <1>2, <1>3, <2>1, <2>5, <3>1, <3>3, <3>4
      <4>. HIDE DEF i, r
      <4>2. Gives(n, {i}, email[i].touser, email[i].fromuser)
        BY <1>3, <2>1, <2>5, <3>1, <3>3, <3>4 DEF Gives
      <4>3. QED
        BY <4>1, <4>2, Zenon
    <3>6. QED
      BY <3>5
  <2>6. QED
    BY <2>3, <2>4, <2>5
<1>11. CASE Forward(n)
  <2>. DEFINE r == nd.rec
              i == nd.mloc[r].index
  <2>1. /\ nd.pc = "forward" /\ r \in Listed(nd) /\ SameEmail(nd, r, Read(nd, r)) /\ InFile(nd, r)
        /\ email' = [email EXCEPT ![i] = NoLetter] /\ daten' = daten /\ text' = text
    BY <1>11 DEF Forward, Stands
  <2>2. i \in Used /\ SameEmail(nd, r, email[i])
    BY <1>1, <2>1, InstanceFacts DEF Read, SameEmail, Used
  <2>3. email[i].daten = Meant(nd)
    BY <2>1, <2>2 DEF SameEmail, Meant
  <2>4. node'[n] # nd
    <3>1. PICK u \in Users :
              Do(n, [Prompt(nd) EXCEPT !.pc = "send", !.mailcheck = TRUE,
                         !.hand = [fromuser |-> Read(nd, r).fromuser, msg |-> Read(nd, r).msg,
                                   to |-> <<u>>, multi |-> FALSE, back |-> "mail"]])
      BY <1>11, Zenon DEF Forward
    <3>. DEFINE h == [fromuser |-> Read(nd, r).fromuser, msg |-> Read(nd, r).msg,
                      to |-> <<u>>, multi |-> FALSE, back |-> "mail"]
                pr == Prompt(nd)
                ne == [pr EXCEPT !.pc = "send", !.mailcheck = TRUE, !.hand = h]
    <3>2. Do(n, ne) /\ pr \in Instance
      BY <1>1, <3>1, PromptType
    <3>. HIDE DEF h, pr
    <3>3. ne.pc = "send"
      BY <3>2 DEF Instance
    <3>. HIDE DEF ne
    <3>4. QED
      BY <1>1, <2>1, <3>2, <3>3 DEF Do
  <2>5. /\ \A k \in In(email') : k \in Used \ {i} /\ email'[k] = email[k]
        /\ \A k \in Used \ {i} : k \in In(email') /\ email'[k] = email[k]
    BY <1>1, <2>1 DEF In, File
  <2>6. \E S0 \in SUBSET Used, u, sender \in Users : Gives(n, S0, u, sender)
    <3>1. {i} \in SUBSET Used /\ email[i].touser \in Users /\ email[i].fromuser \in Users
      BY <1>2, <2>1, <2>2, <2>3, <2>4, <2>5
    <3>. HIDE DEF i, r
    <3>2. Gives(n, {i}, email[i].touser, email[i].fromuser)
      BY <2>1, <2>2, <2>3, <2>4, <2>5 DEF Gives
    <3>3. QED
      BY <3>1, <3>2, Zenon
  <2>7. QED
    BY <2>6
<1>12. CASE Purge(n)
  <2>. DEFINE hits == {s \in Listed(nd) : /\ InFile(nd, s) /\ SameEmail(nd, s, Read(nd, s))
                                          /\ Read(nd, s).fromuser = nd.m.fromuser}
              S == {nd.mloc[s].index : s \in hits}
              list == [s \in Slots |-> IF s \in hits THEN [nd.mloc[s] EXCEPT !.index = Gone]
                                       ELSE nd.mloc[s]]
              pr == Prompt(nd)
              ne == [pr EXCEPT !.mailcheck = @ \/ hits # {}, !.mloc = list]
  <2>1. pr \in Instance /\ pr.pc = "mail" /\ pr.mloc = nd.mloc
    BY <1>1, PromptType
  <2>2. nd.pc = "shown" /\ daten' = daten /\ DelMail(S) /\ Do(n, ne)
    BY <1>12, <2>1 DEF Purge
  <2>3. nd.m.fromuser \in Users /\ nd.user \in Users
    <3>1. nd.m # NoLetter /\ nd.m.touser = nd.user
      BY <1>1, <2>2 DEF DisplayOK, OnDisplay, SameEmail
    <3>2. QED
      BY <1>1, <3>1, InstanceFacts DEF Letters
  <2>4. ASSUME NEW s \in hits
        PROVE  LET i == nd.mloc[s].index
               IN  i \in Used /\ email[i].touser = nd.user /\ email[i].fromuser = nd.m.fromuser
    <3>1. /\ s \in Slots /\ nd.mloc[s].index \in Slots /\ InFile(nd, s)
          /\ SameEmail(nd, s, Read(nd, s)) /\ Read(nd, s).fromuser = nd.m.fromuser
      BY <1>1, <2>4, InstanceFacts
    <3>2. QED
      BY <3>1 DEF Read, SameEmail, Used
  <2>. HIDE DEF hits, list, pr
  <2>5. S \in SUBSET Used /\ \A i \in S : email[i].touser = nd.user /\ email[i].fromuser = nd.m.fromuser
    BY <2>4
  <2>6. node'[n] # nd
    <3>1. ne.pc = "mail"
      BY <2>1 DEF Instance
    <3>. HIDE DEF ne
    <3>2. QED
      BY <1>1, <2>2, <3>1 DEF Do
  <2>. HIDE DEF S
  <2>7. Gives(n, S, nd.user, nd.m.fromuser)
    BY <1>3, <1>12, <2>2, <2>5, <2>6 DEF Gives
  <2>8. QED
    BY <2>3, <2>5, <2>7, Zenon
<1>13. ~DeleteBehindEnd(n)
  BY DEF DeleteBehindEnd
<1>14. QED
  BY <1>4, <1>5, <1>6, <1>7, <1>8, <1>9, <1>10, <1>11, <1>12, <1>13 DEF NodeStep, Reader, Pack, CanOpen

\* What Send does to the file.
LEMMA SendAppends ==
    ASSUME TypeInv, Safe, NEW n \in Nodes, Send(n)
    PROVE  LET h == node[n].hand
           IN  /\ daten' = daten + 1 /\ text' = text /\ h \in Hands
               /\ text[h.msg] \in Messages
               /\ \A k \in In(email') : \/ k \in In(email) /\ email'[k] = email[k]
                                        \/ \E j \in DOMAIN h.to :
                                              email'[k] = [fromuser |-> h.fromuser, touser |-> h.to[j],
                                                           daten |-> daten', msg |-> h.msg,
                                                           multi |-> h.multi]
               /\ \A k \in In(email) : k \in In(email') /\ email'[k] = email[k]
               /\ \A j \in DOMAIN h.to : \E k \in In(email') :
                      email'[k] = [fromuser |-> h.fromuser, touser |-> h.to[j],
                                   daten |-> daten', msg |-> h.msg, multi |-> h.multi]
<1>. DEFINE nd == node[n]
            h == nd.hand
            l == [fromuser |-> h.fromuser, touser |-> h.fromuser,
                  daten |-> daten', msg |-> h.msg, multi |-> h.multi]
<1>1. /\ email \in File /\ daten \in Nat /\ nd \in Instance /\ SessionOK(nd)
      /\ NodeOK(email, daten, text, n, nd, changed) /\ FileOK(email, size, text, daten) /\ TypeOK
  BY FileFacts DEF Safe, TypeInv, TypeOK
<1>2. /\ nd.pc = "send" /\ daten' = daten + 1 /\ daten < MaxTime /\ AppendLetters(l, h.to)
      /\ text' = text
  BY DEF Send
<1>3. h \in Hands /\ h.to \in Lists
  BY <1>1, <1>2 DEF SessionOK, Hands
<1>4. l \in Letters
  BY <1>1, <1>2, <1>3, SlotsFacts DEF Hands, Letters
<1>5. /\ \A k \in In(email') : \/ k \in In(email) /\ email'[k] = email[k]
                               \/ k - End + 1 \in DOMAIN h.to
                                  /\ email'[k] = [l EXCEPT !.touser = h.to[k - End + 1]]
      /\ \A k \in In(email) : k \in In(email') /\ email'[k] = email[k]
      /\ \A j \in DOMAIN h.to : \E k \in In(email') : email'[k] = [l EXCEPT !.touser = h.to[j]]
  BY <1>1, <1>2, <1>3, <1>4, AppendedFile
<1>6. text[h.msg] \in Messages
  BY <1>1, <1>2, <1>3 DEF NodeOK, HandOK, TypeOK, Hands
<1>. DEFINE c(u) == [fromuser |-> h.fromuser, touser |-> u,
                     daten |-> daten', msg |-> h.msg, multi |-> h.multi]
<1>7. \A u : [l EXCEPT !.touser = u] = c(u)
  OBVIOUS
<1>. HIDE DEF l, c
<1>8. \A k \in In(email') : \/ k \in In(email) /\ email'[k] = email[k]
                            \/ \E j \in DOMAIN h.to : email'[k] = c(h.to[j])
  BY <1>5, <1>7
<1>9. \A j \in DOMAIN h.to : \E k \in In(email') : email'[k] = c(h.to[j])
  BY <1>5, <1>7
<1>. HIDE DEF h
<1>10. /\ daten' = daten + 1 /\ text' = text /\ h \in Hands /\ text[h.msg] \in Messages
       /\ \A k \in In(email) : k \in In(email') /\ email'[k] = email[k]
  BY <1>2, <1>3, <1>5, <1>6
<1>11. QED
  BY <1>8, <1>9, <1>10, Zenon DEF c, h

\* The same of all steps: who meant a letter that goes.
LEMMA OnlyMeantNext ==
    ASSUME TypeInv, Safe, NEW n \in Nodes, NodeStep(n), ~astray', NEW i \in Used
    PROVE  \/ Kept(email[i])
           \/ \E b \in Nodes : /\ node'[b] # node[b]
                               /\ Purge(b) \/ email[i].daten = Meant(node[b])
<1>1. /\ email \in File /\ FileType /\ FileOK(email, size, text, daten) /\ TypeOK
      /\ Used = In(email) /\ i \in Slots /\ email[i] # NoLetter
  BY FileFacts DEF Safe, TypeInv, TypeOK, Used, FileType
<1>2. ASSUME NEW j \in In(email'), email'[j] = email[i] PROVE Kept(email[i])
  BY <1>2 DEF Kept, Same, In
<1>3. CASE email' = email
  <2>1. i \in In(email')
    BY <1>1, <1>3
  <2>2. QED
    BY <1>2, <1>3, <2>1
<1>4. CASE email' = Packed
  <2>1. Rank(i) \in Slots /\ email'[Rank(i)] = email[i]
    BY <1>1, <1>4, RankType, PackedFacts
  <2>2. Rank(i) \in In(email')
    BY <1>1, <2>1 DEF In
  <2>3. QED
    BY <1>2, <2>1, <2>2
<1>5. CASE Send(n)
  <2>1. i \in In(email') /\ email'[i] = email[i]
    BY <1>1, <1>5, SendAppends
  <2>2. QED
    BY <1>2, <2>1
<1>6. ASSUME NEW S \in SUBSET Used, NEW u \in Users, NEW sender \in Users, Gives(n, S, u, sender)
      PROVE  \/ Kept(email[i])
             \/ \E b \in Nodes : /\ node'[b] # node[b]
                                 /\ Purge(b) \/ email[i].daten = Meant(node[b])
  <2>1. CASE i \in S
    <3>1. node'[n] # node[n] /\ (Purge(n) \/ email[i].daten = Meant(node[n]))
      BY <1>6, <2>1 DEF Gives
    <3>2. QED
      BY <3>1
  <2>2. CASE i \notin S
    <3>1. i \in In(email') /\ email'[i] = email[i]
      BY <1>6, <2>2 DEF Gives
    <3>2. QED
      BY <1>2, <3>1
  <2>3. QED
    BY <2>1, <2>2
<1>7. QED
  BY <1>3, <1>4, <1>5, <1>6, StepRemoves

LEMMA OnlyMeantStep ==
    IInv /\ [Next]_vars =>
        [\A i \in Used : \/ Kept(email[i]) \/ astray'
                         \/ \E n \in Nodes : /\ node'[n] # node[n]
                                             /\ Purge(n) \/ email[i].daten = Meant(node[n])]_vars
<1>1. ASSUME IInv, NEW n \in Nodes, NodeStep(n), ~astray', NEW i \in Used
      PROVE  \/ Kept(email[i])
             \/ \E b \in Nodes : /\ node'[b] # node[b]
                                 /\ Purge(b) \/ email[i].daten = Meant(node[b])
  <2>1. TypeInv /\ Safe
    BY <1>1, AstrayStays DEF IInv
  <2>2. QED
    BY <1>1, <2>1, OnlyMeantNext
<1>2. QED
  BY <1>1 DEF Next

\* No instance removes a letter but the one that its user has before him, or
\* those of a sender that are purged: what delmail (MSGBASE1.C) is called for is
\* still the letter that was meant, however the file was packed since.
THEOREM MailOnlyMeantGo == Spec => OnlyMeantGo
<1>1. Spec => []IInv
  BY InvInit, InvNext, PTL DEF Spec
<1>2. QED
  BY <1>1, OnlyMeantStep, PTL DEF Spec, OnlyMeantGo

---------------------------------------------------------------------------
(* PostOffice *)

\* The boxes of file f with the texts t.
Item(l, t) == [fromuser |-> l.fromuser, daten |-> l.daten, text |-> t[l.msg]]
BoxOf(f, t, u) == {Item(f[i], t) : i \in {j \in In(f) : f[j].touser = u}}
Boxes(f, t) == [u \in Users |-> BoxOf(f, t, u)]

LEMMA BoxesAre ==
    /\ [u \in Users |-> Box(u)] = Boxes(email, text)
    /\ [u \in Users |-> Box(u)]' = Boxes(email', text')
BY DEF Box, Boxes, BoxOf, Item, In, Used

LEMMA BoxKept ==
    ASSUME NEW f, NEW t, NEW g, NEW s, NEW u,
           \A i \in In(f) : f[i].touser = u =>
               \E k \in In(g) : g[k] = f[i] /\ s[g[k].msg] = t[f[i].msg]
    PROVE  BoxOf(f, t, u) \subseteq BoxOf(g, s, u)
<1>1. ASSUME NEW i \in In(f), f[i].touser = u PROVE Item(f[i], t) \in BoxOf(g, s, u)
  <2>1. PICK k \in In(g) : g[k] = f[i] /\ s[g[k].msg] = t[f[i].msg]
    BY <1>1
  <2>2. Item(g[k], s) \in BoxOf(g, s, u)
    BY <1>1, <2>1 DEF BoxOf
  <2>3. Item(g[k], s) = Item(f[i], t)
    BY <2>1 DEF Item
  <2>4. QED
    BY <2>2, <2>3
<1>2. QED
  BY <1>1 DEF BoxOf

LEMMA BoxesStay ==
    ASSUME TypeInv, Safe, NEW n \in Nodes, NodeStep(n),
           \/ email' = email /\ \A k \in In(email) : text'[email[k].msg] = text[email[k].msg]
           \/ email' = Packed /\ text' = text
    PROVE  Boxes(email', text') = Boxes(email, text)
<1>1. email \in File /\ FileType /\ Used = In(email)
  BY FileFacts DEF Safe, TypeInv, TypeOK, Used, FileType
<1>2. \A i \in In(email) : \E k \in In(email') :
          email'[k] = email[i] /\ text'[email'[k].msg] = text[email[i].msg]
  <2>1. SUFFICES ASSUME NEW i \in In(email)
                 PROVE  \E k \in In(email') :
                            email'[k] = email[i] /\ text'[email'[k].msg] = text[email[i].msg]
    OBVIOUS
  <2>2. CASE email' = email /\ \A k \in In(email) : text'[email[k].msg] = text[email[k].msg]
    BY <2>2
  <2>3. CASE email' = Packed /\ text' = text
    <3>1. Rank(i) \in Slots /\ email'[Rank(i)] = email[i] /\ email[i] # NoLetter
      BY <1>1, <2>3, RankType, PackedFacts DEF In
    <3>2. Rank(i) \in In(email')
      BY <3>1 DEF In
    <3>3. QED
      BY <2>3, <3>1, <3>2
  <2>4. QED
    BY <2>2, <2>3
<1>3. \A k \in In(email') : \E i \in In(email) :
          email[i] = email'[k] /\ text[email[i].msg] = text'[email'[k].msg]
  <2>1. SUFFICES ASSUME NEW k \in In(email')
                 PROVE  \E i \in In(email) :
                            email[i] = email'[k] /\ text[email[i].msg] = text'[email'[k].msg]
    OBVIOUS
  <2>2. CASE email' = email /\ \A i \in In(email) : text'[email[i].msg] = text[email[i].msg]
    BY <2>2
  <2>3. CASE email' = Packed /\ text' = text
    BY <1>1, <2>3, PackedFacts DEF In
  <2>4. QED
    BY <2>2, <2>3
<1>4. ASSUME NEW u \in Users PROVE BoxOf(email', text', u) = BoxOf(email, text, u)
  <2>1. BoxOf(email, text, u) \subseteq BoxOf(email', text', u)
    BY <1>2, BoxKept
  <2>2. BoxOf(email', text', u) \subseteq BoxOf(email, text, u)
    BY <1>3, BoxKept
  <2>3. QED
    BY <2>1, <2>2
<1>5. QED
  BY <1>4 DEF Boxes

\* Letters of one sender are taken out of one box.
Taken(u, sender) ==
    \E gone \in SUBSET {x \in BoxOf(email, text, u) : x.fromuser = sender} :
        Boxes(email', text') = [Boxes(email, text) EXCEPT ![u] = @ \ gone]

LEMMA BoxesGive ==
    ASSUME TypeInv, Safe, NEW n \in Nodes,
           NEW S \in SUBSET Used, NEW u \in Users, NEW sender \in Users, Gives(n, S, u, sender)
    PROVE  Taken(u, sender)
<1>. DEFINE B(v) == BoxOf(email, text, v)
            C(v) == BoxOf(email', text', v)
            gone == B(u) \ C(u)
<1>1. Used = In(email)
  BY DEF Used, In
<1>2. \A k \in In(email') : /\ k \in In(email) /\ k \notin S /\ email'[k] = email[k]
                            /\ text'[email[k].msg] = text[email[k].msg]
  BY <1>1 DEF Gives
<1>3. \A k \in In(email) : k \notin S => k \in In(email') /\ email'[k] = email[k]
  BY <1>1 DEF Gives
<1>4. \A i \in S : email[i].touser = u /\ email[i].fromuser = sender
  BY DEF Gives
<1>5. ASSUME NEW v \in Users PROVE C(v) \subseteq B(v)
  BY <1>2, BoxKept
<1>6. ASSUME NEW v \in Users, v # u PROVE B(v) \subseteq C(v)
  <2>1. \A i \in In(email) : email[i].touser = v =>
            \E k \in In(email') : email'[k] = email[i] /\ text'[email'[k].msg] = text[email[i].msg]
    BY <1>2, <1>3, <1>4, <1>6
  <2>2. QED
    BY <2>1, BoxKept
<1>7. ASSUME NEW x \in gone PROVE x \in B(u) /\ x.fromuser = sender
  <2>1. PICK i \in In(email) : email[i].touser = u /\ x = Item(email[i], text)
    BY <1>7 DEF BoxOf
  <2>2. CASE i \in S
    BY <1>4, <1>7, <2>1, <2>2 DEF Item
  <2>3. CASE i \notin S
    <3>1. i \in In(email') /\ email'[i] = email[i] /\ text'[email[i].msg] = text[email[i].msg]
      BY <1>2, <1>3, <2>3
    <3>2. Item(email'[i], text') = Item(email[i], text)
      BY <3>1 DEF Item
    <3>3. Item(email'[i], text') \in C(u)
      BY <2>1, <3>1 DEF BoxOf
    <3>4. QED
      BY <1>7, <2>1, <3>2, <3>3
  <2>4. QED
    BY <2>2, <2>3
<1>8. \A v \in Users : C(v) = IF v = u THEN B(u) \ gone ELSE B(v)
  BY <1>5, <1>6
<1>9. gone \in SUBSET {x \in B(u) : x.fromuser = sender}
  BY <1>7
<1>. HIDE DEF gone
<1>10. Boxes(email', text') = [Boxes(email, text) EXCEPT ![u] = @ \ gone]
  BY <1>8 DEF Boxes
<1>11. QED
  BY <1>9, <1>10, Zenon DEF Taken

LEMMA BoxesGet ==
    ASSUME TypeInv, Safe, NEW n \in Nodes, Send(n)
    PROVE  LET h == node[n].hand
               list == {h.to[j] : j \in DOMAIN h.to}
               l == [fromuser |-> h.fromuser, daten |-> daten + 1, text |-> text[h.msg]]
           IN  /\ list \in SUBSET Users /\ daten' = daten + 1
               /\ h.fromuser \in Users /\ text[h.msg] \in Messages
               /\ Boxes(email', text') =
                      [u \in Users |-> IF u \in list THEN Boxes(email, text)[u] \union {l}
                                       ELSE Boxes(email, text)[u]]
<1>. DEFINE h == node[n].hand
            list == {h.to[j] : j \in DOMAIN h.to}
            l == [fromuser |-> h.fromuser, daten |-> daten + 1, text |-> text[h.msg]]
            c(u) == [fromuser |-> h.fromuser, touser |-> u,
                     daten |-> daten', msg |-> h.msg, multi |-> h.multi]
<1>1. /\ daten' = daten + 1 /\ text' = text /\ h \in Hands /\ text[h.msg] \in Messages
      /\ \A k \in In(email') : \/ k \in In(email) /\ email'[k] = email[k]
                               \/ \E j \in DOMAIN h.to : email'[k] = c(h.to[j])
      /\ \A k \in In(email) : k \in In(email') /\ email'[k] = email[k]
      /\ \A j \in DOMAIN h.to : \E k \in In(email') : email'[k] = c(h.to[j])
  BY SendAppends
<1>2. list \in SUBSET Users /\ h.fromuser \in Users
  <2>1. h.to \in Lists /\ h.fromuser \in Users
    BY <1>1 DEF Hands
  <2>2. \A j \in DOMAIN h.to : h.to[j] \in Users
    BY <2>1, ListFacts
  <2>3. QED
    BY <2>1, <2>2
<1>3. \A u : Item(c(u), text') = l /\ c(u).touser = u
  BY <1>1 DEF Item
<1>. HIDE DEF c, l, h
<1>4. ASSUME NEW u \in Users PROVE BoxOf(email, text, u) \subseteq BoxOf(email', text', u)
  BY <1>1, BoxKept
<1>5. ASSUME NEW u \in list PROVE l \in BoxOf(email', text', u)
  <2>1. PICK j \in DOMAIN h.to : u = h.to[j]
    OBVIOUS
  <2>2. PICK k \in In(email') : email'[k] = c(u)
    BY <1>1, <2>1
  <2>3. QED
    BY <1>3, <2>2 DEF BoxOf
<1>6. ASSUME NEW u \in Users, NEW x \in BoxOf(email', text', u)
      PROVE  x \in BoxOf(email, text, u) \/ (u \in list /\ x = l)
  <2>1. PICK k \in In(email') : email'[k].touser = u /\ x = Item(email'[k], text')
    BY <1>6 DEF BoxOf
  <2>2. CASE k \in In(email) /\ email'[k] = email[k]
    BY <1>1, <2>1, <2>2 DEF BoxOf
  <2>3. CASE \E j \in DOMAIN h.to : email'[k] = c(h.to[j])
    <3>1. PICK j \in DOMAIN h.to : email'[k] = c(h.to[j])
      BY <2>3
    <3>2. h.to[j] = u /\ x = l
      BY <1>3, <2>1, <3>1
    <3>3. QED
      BY <3>2
  <2>4. QED
    BY <1>1, <2>1, <2>2, <2>3
<1>. HIDE DEF list
<1>7. \A u \in Users : BoxOf(email', text', u) =
          IF u \in list THEN BoxOf(email, text, u) \union {l} ELSE BoxOf(email, text, u)
  BY <1>4, <1>5, <1>6
<1>8. Boxes(email', text') =
          [u \in Users |-> IF u \in list THEN Boxes(email, text)[u] \union {l}
                           ELSE Boxes(email, text)[u]]
  BY <1>7 DEF Boxes
<1>9. QED
  BY <1>1, <1>2, <1>8, Zenon DEF list, l, h

LEMMA PostNext ==
    ASSUME TypeInv, Safe, NEW n \in Nodes, NodeStep(n), ~astray'
    PROVE  UNCHANGED Post!vars \/ Post!Next
<1>. DEFINE B == [u \in Users |-> Box(u)]
<1>1. B = Boxes(email, text) /\ B' = Boxes(email', text')
  BY BoxesAre
<1>2. CASE \/ /\ UNCHANGED <<email, daten>>
              /\ \A k \in In(email) : text'[email[k].msg] = text[email[k].msg]
           \/ email' = Packed /\ text' = text /\ daten' = daten
  <2>1. B' = B /\ daten' = daten
    BY <1>1, <1>2, BoxesStay
  <2>2. QED
    BY <2>1 DEF Post!vars
<1>3. CASE Send(n)
  <2>. DEFINE h == node[n].hand
              list == {h.to[j] : j \in DOMAIN h.to}
  <2>1. /\ list \in SUBSET Users /\ h.fromuser \in Users /\ text[h.msg] \in Messages
        /\ daten' = daten + 1
        /\ Boxes(email', text') =
               [u \in Users |-> IF u \in list
                                THEN Boxes(email, text)[u] \union
                                     {[fromuser |-> h.fromuser, daten |-> daten + 1, text |-> text[h.msg]]}
                                ELSE Boxes(email, text)[u]]
    BY <1>3, BoxesGet
  <2>2. Post!Deliver(h.fromuser, text[h.msg], list)
    BY <1>1, <2>1 DEF Post!Deliver
  <2>. HIDE DEF list, h
  <2>3. Post!Next
    BY <2>1, <2>2 DEF Post!Next
  <2>4. QED
    BY <2>3
<1>4. ASSUME NEW S \in SUBSET Used, NEW u \in Users, NEW sender \in Users, Gives(n, S, u, sender)
      PROVE  Post!Next
  <2>1. Taken(u, sender)
    BY <1>4, BoxesGive
  <2>2. daten' = daten
    BY <1>4 DEF Gives
  <2>3. B[u] = BoxOf(email, text, u)
    BY <1>1 DEF Boxes
  <2>4. Post!Remove(u, sender)
    BY <1>1, <2>1, <2>2, <2>3 DEF Taken, Post!Remove
  <2>5. QED
    BY <2>4 DEF Post!Next
<1>5. QED
  BY <1>2, <1>3, <1>4, StepRemoves

LEMMA PostInit == Init => Post!Init
<1>. SUFFICES ASSUME Init PROVE Post!Init
  OBVIOUS
<1>1. Used = {} /\ daten = 0
  BY DEF Init, Used
<1>2. \A u \in Users : Box(u) = {}
  BY <1>1 DEF Box
<1>3. [u \in Users |-> Box(u)] = [u \in Users |-> {}]
  BY <1>2
<1>4. QED
  BY <1>1, <1>3 DEF Post!Init

LEMMA PostStep ==
    IInv /\ [Next]_vars => [UNCHANGED Post!vars \/ Post!Next \/ astray']_(Post!vars)
<1>1. ASSUME IInv, NEW n \in Nodes, NodeStep(n), ~astray' PROVE UNCHANGED Post!vars \/ Post!Next
  <2>1. TypeInv /\ Safe
    BY <1>1, AstrayStays DEF IInv
  <2>2. QED
    BY <1>1, <2>1, PostNext
<1>2. ASSUME UNCHANGED vars PROVE UNCHANGED Post!vars
  BY <1>2 DEF vars, Post!vars, Box, Used
<1>3. QED
  BY <1>1, <1>2 DEF Next

\* EMAIL.DAT, packed and rewritten by everybody (sendout_email, logoff, forwarding,
\* delmail), is to its users a box each, from which letters only go on command.
THEOREM MailIsPostOffice == Spec => IsPostOffice
<1>1. Spec => []IInv
  BY InvInit, InvNext, PTL DEF Spec
<1>2. QED
  BY <1>1, PostInit, PostStep, PTL DEF Spec, IsPostOffice
=============================================================================
