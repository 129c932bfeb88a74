-------------------------- MODULE SubBoardProofs --------------------------
(***************************************************************************)
(* What TLAPS proves of SubBoard, for any number of instances, messages,   *)
(* sections and sectors and any size of the board and the cache: it is     *)
(* type correct, a writer works on what is in the file, and, as long as no *)
(* instance finds the .SUB missing or busy when it selects the sub, every  *)
(* post keeps its own text, whoever still has a removed post in its cache  *)
(* is told so, and the instances together implement Board.                 *)
(***************************************************************************)
EXTENDS SubBoard, FiniteSetTheorems, WellFoundedInduction, TLAPS

---------------------------------------------------------------------------
(* MessageFile: where links lead after a text was saved or removed *)

LEMMA ChainType ==
    ASSUME NEW g, NEW s \in Sectors
    PROVE  Chain(g, s) \in SUBSET Sectors /\ s \in Chain(g, s)
BY DEF Chain

LEMMA ChainLeast ==
    ASSUME NEW g, NEW S \in SUBSET Sectors, LinkClosed(g, S), NEW s \in S
    PROVE  Chain(g, s) \subseteq S
BY DEF Chain

LEMMA ChainClosed ==
    ASSUME NEW g, NEW s \in Sectors
    PROVE  LinkClosed(g, Chain(g, s))
BY DEF Chain, LinkClosed

\* Changing links elsewhere does not make a chain longer.
LEMMA ChainStays ==
    ASSUME NEW g, NEW h, NEW s \in Sectors,
           \A t \in Chain(g, s) : h[t] = g[t]
    PROVE  Chain(h, s) \subseteq Chain(g, s)
<1>1. LinkClosed(h, Chain(g, s))
  BY ChainClosed DEF LinkClosed
<1>2. QED
  BY <1>1, ChainType, ChainLeast

---------------------------------------------------------------------------
(* MessageFile: savefile *)

LEMMA LeastExists ==
    ASSUME NEW S \in SUBSET Nat, S # {}
    PROVE  Least(S) \in S /\ \A t \in S : Least(S) <= t
<1>1. PICK x \in S : \A y \in S : ~ (<<y, x>> \in OpToRel(<, Nat))
  BY NatLessThanWellFounded, WFMin
<1>2. ASSUME NEW y \in S, y < x PROVE FALSE
  <2>1. <<y, x>> \in Nat \X Nat
    OBVIOUS
  <2>2. <<y, x>> \in OpToRel(<, Nat)
    BY <1>2, <2>1 DEF OpToRel
  <2>3. QED
    BY <1>1, <2>2
<1>3. \A y \in S : x <= y
  BY <1>2
<1>4. QED
  BY <1>3 DEF Least

LEMMA LowestNotEmpty ==
    ASSUME NEW S \in SUBSET Nat, S # {}, NEW n \in Nat \ {0}
    PROVE  Lowest(S, n) # {} /\ Lowest(S, n) \subseteq S
<1>1. PICK x \in S : \A t \in S : x <= t
  BY LeastExists
<1>2. {t \in S : t < x} = {}
  <2>1. \A t \in S : ~(t < x)
    BY <1>1
  <2>2. QED
    BY <2>1
<1>3. Cardinality({}) = 0
  BY FS_EmptySet
<1>4. x \in Lowest(S, n)
  BY <1>1, <1>2, <1>3 DEF Lowest
<1>5. QED
  BY <1>4 DEF Lowest

LEMMA SectorsFinite == IsFiniteSet(Sectors) /\ Sectors \in SUBSET Nat
BY FileAssumption, FS_Interval DEF Sectors

\* A text gets unused sectors of its section, one at least.
LEMMA PlaceIsUnused ==
    ASSUME NEW gats \in [Sections -> Gat], NEW n \in Nat \ {0},
           Roomy(gats, n) # {}
    PROVE  LET x == Least(Roomy(gats, n)) IN
           /\ x \in Sections
           /\ Place(gats, n) \in SUBSET Sectors /\ Place(gats, n) # {}
           /\ \A s \in Place(gats, n) : gats[x][s] = Unused
<1>. DEFINE x == Least(Roomy(gats, n))
<1>1. x \in Roomy(gats, n)
  <2>1. Roomy(gats, n) \in SUBSET Nat
    BY FileAssumption DEF Roomy, Sections
  <2>2. QED
    BY <2>1, LeastExists
<1>2. x \in Sections /\ Cardinality(UnusedSectors(gats[x])) >= n
  BY <1>1 DEF Roomy, HasRoom
<1>3. UnusedSectors(gats[x]) \in SUBSET Nat
  BY SectorsFinite DEF UnusedSectors
<1>4. UnusedSectors(gats[x]) # {}
  BY <1>2, FS_EmptySet
<1>5. QED
  BY <1>2, <1>3, <1>4, LowestNotEmpty DEF Place, UnusedSectors

LEMMA LinkType ==
    ASSUME NEW g \in Gat, NEW A \in SUBSET Sectors
    PROVE  Link(g, A) \in Gat
<1>1. ASSUME NEW s \in A, \E t \in A : t > s
      PROVE  Least({t \in A : t > s}) \in A
  BY <1>1, LeastExists, SectorsFinite
<1>2. QED
  BY <1>1 DEF Link, Gat

\* The sectors of a saved text are linked among themselves, and used.
LEMMA LinkKeepsInside ==
    ASSUME NEW g \in Gat, NEW A \in SUBSET Sectors
    PROVE  /\ LinkClosed(Link(g, A), A)
           /\ \A s \in A : Link(g, A)[s] # Unused
<1>1. ASSUME NEW s \in A, \E t \in A : t > s
      PROVE  Least({t \in A : t > s}) \in A
  BY <1>1, LeastExists, SectorsFinite
<1>2. EndOfText \notin Sectors /\ Unused \notin Sectors /\ EndOfText # Unused
  BY FileAssumption DEF EndOfText, Unused, Sectors
<1>3. QED
  BY <1>1, <1>2 DEF Link, LinkClosed

\* What is not among them keeps its links.
LEMMA LinkElsewhere ==
    ASSUME NEW g, NEW A, NEW s \in Sectors, s \notin A
    PROVE  Link(g, A)[s] = g[s]
BY DEF Link

---------------------------------------------------------------------------
(* MessageFile: remove_link *)

LEMMA UnlinkType ==
    ASSUME NEW g \in Gat, NEW s
    PROVE  Unlink(g, s) \in Gat
BY DEF Unlink, Gat

LEMMA UnlinkElsewhere ==
    ASSUME NEW g, NEW s, NEW t \in Sectors, t \notin Chain(g, s)
    PROVE  Unlink(g, s)[t] = g[t]
BY DEF Unlink


---------------------------------------------------------------------------
(* The texts of two records under savefile and remove_link *)

\* HasOwnText for a given file.
Own(g, t, r) ==
    \A s \in Chain(g[r.at.section], r.at.sector) :
        g[r.at.section][s] # Unused /\ t[r.at.section][s] = r.msg

Written(t, x, A, m) ==
    [t EXCEPT ![x] = [s \in Sectors |-> IF s \in A THEN m ELSE @[s]]]

LEMMA SaveKeepsText ==
    ASSUME NEW g \in [Sections -> Gat],
           NEW t \in [Sections -> [Sectors -> Messages \union {NoText}]],
           NEW x \in Sections, NEW A \in SUBSET Sectors,
           \A s \in A : g[x][s] = Unused,
           NEW m, NEW r \in Record, Own(g, t, r)
    PROVE  Own([g EXCEPT ![x] = Link(@, A)], Written(t, x, A, m), r)
<1>. DEFINE y == r.at.section
            h == [g EXCEPT ![x] = Link(@, A)]
            u == Written(t, x, A, m)
            C == Chain(g[y], r.at.sector)
<1>1. y \in Sections /\ r.at.sector \in Sectors
  BY DEF Record, Address
<1>2. C \in SUBSET Sectors
  BY <1>1, ChainType
<1>3. \A s \in C : h[y][s] = g[y][s] /\ u[y][s] = t[y][s]
  <2>1. CASE y = x
    <3>1. \A s \in C : s \notin A
      BY <2>1 DEF Own
    <3>2. \A s \in C : Link(g[x], A)[s] = g[x][s]
      BY <1>2, <3>1, LinkElsewhere
    <3>3. QED
      BY <1>2, <2>1, <3>1, <3>2 DEF Written
  <2>2. CASE y # x
    BY <1>1, <2>2 DEF Written
  <2>3. QED
    BY <2>1, <2>2
<1>4. Chain(h[y], r.at.sector) \subseteq C
  BY <1>1, <1>3, ChainStays
<1>5. QED
  BY <1>3, <1>4 DEF Own

LEMMA SaveMakesText ==
    ASSUME NEW g \in [Sections -> Gat],
           NEW t \in [Sections -> [Sectors -> Messages \union {NoText}]],
           NEW x \in Sections, NEW A \in SUBSET Sectors, A # {},
           NEW m, NEW r,
           r.msg = m, r.at.section = x, r.at.sector = Least(A)
    PROVE  Own([g EXCEPT ![x] = Link(@, A)], Written(t, x, A, m), r)
<1>1. Least(A) \in A
  BY SectorsFinite, LeastExists
<1>2. g[x] \in Gat
  OBVIOUS
<1>3. LinkClosed(Link(g[x], A), A) /\ \A s \in A : Link(g[x], A)[s] # Unused
  BY <1>2, LinkKeepsInside
<1>4. Chain(Link(g[x], A), Least(A)) \subseteq A
  BY <1>1, <1>3, ChainLeast
<1>5. \A s \in A : Written(t, x, A, m)[x][s] = m
  BY DEF Written
<1>6. QED
  BY <1>3, <1>4, <1>5 DEF Own

LEMMA UnlinkKeepsText ==
    ASSUME NEW g \in [Sections -> Gat], NEW t,
           NEW q \in Record, NEW r \in Record, q.msg # r.msg,
           Own(g, t, q), Own(g, t, r)
    PROVE  Own([g EXCEPT ![q.at.section] = Unlink(@, q.at.sector)], t, r)
<1>. DEFINE y == r.at.section
            h == [g EXCEPT ![q.at.section] = Unlink(@, q.at.sector)]
            C == Chain(g[y], r.at.sector)
<1>1. y \in Sections /\ r.at.sector \in Sectors
  BY DEF Record, Address
<1>2. C \in SUBSET Sectors
  BY <1>1, ChainType
<1>3. \A s \in C : h[y][s] = g[y][s]
  <2>1. CASE y = q.at.section
    <3>1. \A s \in C : s \notin Chain(g[y], q.at.sector)
      BY <2>1 DEF Own
    <3>2. \A s \in C : Unlink(g[y], q.at.sector)[s] = g[y][s]
      BY <1>2, <3>1, UnlinkElsewhere
    <3>3. QED
      BY <1>1, <2>1, <3>2
  <2>2. CASE y # q.at.section
    BY <2>2
  <2>3. QED
    BY <2>1, <2>2
<1>4. Chain(h[y], r.at.sector) \subseteq C
  BY <1>1, <1>3, ChainStays
<1>5. QED
  BY <1>3, <1>4 DEF Own

---------------------------------------------------------------------------
(* The operators on one instance *)

\* What get_post and open_sub leave alone.
Keeps(nd, ne) ==
    /\ ne.pc = nd.pc /\ ne.curlsub = nd.curlsub /\ ne.p = nd.p
    /\ ne.mn = nd.mn /\ ne.then = nd.then /\ ne.close_file = nd.close_file

FileType ==
    /\ hdr \in 0 .. MaxPosts
    /\ recs \in [Slots -> Record \union {NoRecord}]

LEMMA SlotsFacts ==
    /\ MaxPosts \in Nat \ {0} /\ CacheSize \in Nat \ {0}
    /\ 1 \in Slots /\ \A i : i \in Slots <=> i \in Nat /\ 1 <= i /\ i <= MaxPosts
BY BoardAssumption DEF Slots

LEMMA NotedType ==
    ASSUME NEW nd \in Instance, NEW n
    PROVE  /\ Noted(n, nd) \in Instance /\ Keeps(nd, Noted(n, nd))
           /\ Noted(n, nd).nummsgs = nd.nummsgs
           /\ Noted(n, nd).believe_cache = nd.believe_cache
           /\ \A rs : Fresh(nd, rs) => Fresh(Noted(n, nd), rs)
BY DEF Noted, Instance, Keeps, Fresh

LEMMA ForgetType ==
    ASSUME NEW nd \in Instance
    PROVE  /\ Forget(nd) \in Instance /\ Keeps(nd, Forget(nd))
           /\ Forget(nd).nummsgs = nd.nummsgs /\ Forget(nd).subchg = nd.subchg
           /\ ~Forget(nd).believe_cache
BY SlotsFacts DEF Forget, Instance, Keeps

LEMMA OpenSubType ==
    ASSUME NEW nd \in Instance, FileType
    PROVE  /\ OpenSub(nd) \in Instance /\ Keeps(nd, OpenSub(nd))
           /\ OpenSub(nd).nummsgs = hdr /\ Fresh(OpenSub(nd), recs)
<1>. DEFINE ne == Forget(nd)
<1>1. ne \in Instance /\ Keeps(nd, ne) /\ ~ne.believe_cache
  BY ForgetType
<1>. HIDE DEF ne
<1>2. LET nf == [ne EXCEPT !.nummsgs = hdr] IN
      nf \in Instance /\ Keeps(nd, nf) /\ nf.nummsgs = hdr /\ Fresh(nf, recs)
  BY <1>1 DEF Instance, Keeps, FileType, Fresh
<1>3. QED
  BY <1>2 DEF OpenSub, ne

LEMMA InvalidateType ==
    ASSUME NEW nd \in Instance
    PROVE  /\ Invalidate(nd) \in Instance /\ Keeps(nd, Invalidate(nd))
           /\ Invalidate(nd).nummsgs = nd.nummsgs
           /\ \A rs : Fresh(nd, rs) => Fresh(Invalidate(nd), rs)
<1>. DEFINE ne == Forget(nd)
<1>1. /\ ne \in Instance /\ Keeps(nd, ne) /\ ne.nummsgs = nd.nummsgs
      /\ ~ne.believe_cache
  BY ForgetType
<1>. HIDE DEF ne
<1>2. LET nf == [ne EXCEPT !.subchg = 2] IN
      /\ nf \in Instance /\ Keeps(nd, nf) /\ nf.nummsgs = nd.nummsgs
      /\ ~nf.believe_cache
  BY <1>1 DEF Instance, Keeps
<1>3. Invalidate(nd) = IF nd.subchg = 1 THEN [ne EXCEPT !.subchg = 2] ELSE nd
  BY DEF Invalidate, ne
<1>4. Keeps(nd, nd)
  BY DEF Keeps
<1>5. \A rs : ~Invalidate(nd).believe_cache => Fresh(Invalidate(nd), rs)
  BY DEF Fresh
<1>6. QED
  BY <1>2, <1>3, <1>4, <1>5

LEMMA RecountType ==
    ASSUME NEW nd \in Instance, FileType
    PROVE  /\ Recount(nd) \in Instance /\ Keeps(nd, Recount(nd))
           /\ nd.nummsgs = hdr => Recount(nd).nummsgs = hdr
           /\ nd.subchg = 2 => Recount(nd).nummsgs = hdr
<1>1. CASE nd.subchg = 2
  <2>1. Recount(nd) = [nd EXCEPT !.nummsgs = hdr, !.subchg = 3]
    BY <1>1 DEF Recount
  <2>2. hdr \in 0 .. MaxPosts /\ 3 \in 0 .. 3
    BY DEF FileType
  <2>3. Recount(nd) \in Instance
    BY <2>1, <2>2 DEF Instance
  <2>4. Keeps(nd, Recount(nd)) /\ Recount(nd).nummsgs = hdr
    BY <2>1 DEF Instance, Keeps
  <2>5. QED
    BY <2>3, <2>4
<1>2. CASE nd.subchg # 2
  BY <1>2 DEF Recount, Keeps
<1>3. QED
  BY <1>1, <1>2

LEMMA CacheStartType ==
    ASSUME NEW nd \in Instance, NEW k \in 0 .. MaxPosts,
           k = 0 => nd.nummsgs = 0
    PROVE  /\ CacheStart(nd, k) \in Slots
           /\ k \in 1 .. nd.nummsgs =>
                k - CacheStart(nd, k) \in 0 .. CacheSize - 1
<1>1. nd.nummsgs \in 0 .. MaxPosts /\ nd.last_msgnum \in 0 .. MaxPosts
  BY DEF Instance
<1>2. QED
  BY <1>1, SlotsFacts DEF CacheStart

LEMMA FillType ==
    ASSUME NEW nd \in Instance, FileType, NEW start \in Slots
    PROVE  /\ Fill(nd, start) \in Instance /\ Keeps(nd, Fill(nd, start))
           /\ Fill(nd, start).nummsgs = nd.nummsgs
           /\ Fill(nd, start).cache_start = start
           /\ Fill(nd, start).believe_cache
           /\ Fresh(Fill(nd, start), recs)
<1>1. /\ nd.cache \in [0 .. CacheSize - 1 -> Record \union {NoRecord}]
      /\ nd.nummsgs \in 0 .. MaxPosts
  BY DEF Instance
<1>. DEFINE c == [k \in DOMAIN nd.cache |->
                    IF start + k \in 1 .. nd.nummsgs THEN recs[start + k]
                    ELSE NoRecord]
<1>2. c \in [0 .. CacheSize - 1 -> Record \union {NoRecord}]
  <2>1. 1 .. nd.nummsgs \subseteq Slots
    BY <1>1, SlotsFacts
  <2>2. QED
    BY <1>1, <2>1 DEF FileType
<1>3. \A k \in 0 .. CacheSize - 1 :
        start + k \in 1 .. nd.nummsgs => c[k] = recs[start + k]
  BY <1>1
<1>4. Fill(nd, start) = [nd EXCEPT !.cache_start = start, !.believe_cache = TRUE,
                                   !.cache = c]
  BY DEF Fill
<1>. HIDE DEF c
<1>5. QED
  BY <1>2, <1>3, <1>4 DEF Instance, Keeps, Fresh

LEMMA FoundType ==
    ASSUME NEW nd \in Instance, NEW k
    PROVE  /\ Found(nd, k) \in Instance /\ Keeps(nd, Found(nd, k))
           /\ Found(nd, k).nummsgs = nd.nummsgs
           /\ Found(nd, k).cache = nd.cache
           /\ Found(nd, k).cache_start = nd.cache_start
           /\ Found(nd, k).believe_cache = nd.believe_cache
<1>1. CASE k \in 1 .. nd.nummsgs
  <2>1. Found(nd, k) = [nd EXCEPT !.last_msgnum = k]
    BY <1>1 DEF Found
  <2>2. k \in 0 .. MaxPosts
    <3>1. nd.nummsgs \in 0 .. MaxPosts
      BY DEF Instance
    <3>2. QED
      BY <1>1, <3>1, SlotsFacts
  <2>3. Found(nd, k) \in Instance
    BY <2>1, <2>2 DEF Instance
  <2>4. QED
    BY <2>1, <2>3 DEF Instance, Keeps
<1>2. CASE k \notin 1 .. nd.nummsgs
  BY <1>2 DEF Found, Keeps
<1>3. QED
  BY <1>1, <1>2

LEMMA KeepsTransitive ==
    ASSUME NEW a, NEW b, NEW c, Keeps(a, b), Keeps(b, c)
    PROVE  Keeps(a, c)
BY DEF Keeps

LEMMA GetPostType ==
    ASSUME NEW nd \in Instance, FileType, NEW mn \in Slots
    PROVE  GetPost(nd, mn) \in Instance /\ Keeps(nd, GetPost(nd, mn))
<1>. DEFINE a == Invalidate(nd)
            k == Adjusted(a, mn)
            b == Recount(a)
            c == Fill(b, CacheStart(b, k))
<1>1. a \in Instance /\ Keeps(nd, a)
  BY InvalidateType
<1>2. b \in Instance /\ Keeps(a, b)
  BY <1>1, RecountType
<1>3. k \in 0 .. MaxPosts /\ (k = 0 => b.nummsgs = 0)
  <2>1. hdr \in 0 .. MaxPosts
    BY DEF FileType
  <2>2. a.subchg = 2 => b.nummsgs = hdr
    BY <1>1, RecountType
  <2>. HIDE DEF a, b
  <2>3. QED
    BY <2>1, <2>2, SlotsFacts DEF Adjusted
<1>. HIDE DEF a, b, k
<1>4. CacheStart(b, k) \in Slots
  BY <1>2, <1>3, CacheStartType
<1>5. c \in Instance /\ Keeps(b, c)
  BY <1>2, <1>4, FillType
<1>. HIDE DEF c
<1>6. Found(a, mn) \in Instance /\ Keeps(a, Found(a, mn))
  BY <1>1, FoundType
<1>7. Found(c, k) \in Instance /\ Keeps(c, Found(c, k))
  BY <1>5, FoundType
<1>8. GetPost(nd, mn) = IF InCache(a, mn) THEN Found(a, mn) ELSE Found(c, k)
  BY DEF GetPost, a, b, c, k
<1>9. Keeps(nd, Found(a, mn)) /\ Keeps(nd, Found(c, k))
  BY <1>1, <1>2, <1>5, <1>6, <1>7, KeepsTransitive
<1>10. QED
  BY <1>6, <1>7, <1>8, <1>9

LEMMA LooksType ==
    ASSUME NEW n, NEW nd \in Instance, FileType, NEW mn \in Slots
    PROVE  Looks(n, nd, mn) \in Instance /\ Keeps(nd, Looks(n, nd, mn))
BY GetPostType, InvalidateType DEF Looks

LEMMA LookedTwiceType ==
    ASSUME NEW n, NEW nd \in Instance, FileType, NEW mn \in Slots
    PROVE  LookedTwice(n, nd, mn) \in Instance /\ Keeps(nd, LookedTwice(n, nd, mn))
<1>. DEFINE a == Looks(n, nd, mn)
            b == Noted(n, a)
            c == Looks(n, b, mn)
<1>1. a \in Instance /\ Keeps(nd, a)
  BY LooksType
<1>. HIDE DEF a
<1>2. b \in Instance /\ Keeps(a, b)
  BY <1>1, NotedType
<1>. HIDE DEF b
<1>3. c \in Instance /\ Keeps(b, c)
  BY <1>2, LooksType
<1>. HIDE DEF c
<1>4. Keeps(nd, c)
  BY <1>1, <1>2, <1>3, KeepsTransitive
<1>5. LookedTwice(n, nd, mn) = IF Hits(n, nd, mn) THEN c ELSE a
  BY DEF LookedTwice, a, b, c
<1>6. QED
  BY <1>1, <1>3, <1>4, <1>5

LEMMA LandsType ==
    ASSUME NEW n, NEW nd \in Instance, FileType, NEW mn \in Slots
    PROVE  Lands(n, nd, mn) \in Slots
<1>1. GetPost(nd, mn).nummsgs \in 0 .. MaxPosts
  BY GetPostType DEF Instance
<1>2. Hits(n, nd, mn) => Reached(nd, mn) \in Slots
  BY <1>1, SlotsFacts DEF Hits
<1>3. QED
  BY <1>2 DEF Lands

LEMMA ResynchedType ==
    ASSUME NEW n, NEW nd \in Instance, FileType, NEW mn \in Slots
    PROVE  Resynched(n, nd, mn) \in Instance /\ Keeps(nd, Resynched(n, nd, mn))
<1>. DEFINE a == LookedTwice(n, nd, mn)
            b == Looks(n, a, Lands(n, nd, mn))
<1>1. a \in Instance /\ Keeps(nd, a)
  BY LookedTwiceType
<1>. HIDE DEF a
<1>2. b \in Instance /\ Keeps(a, b)
  BY <1>1, LandsType, LooksType
<1>. HIDE DEF b
<1>3. QED
  BY <1>1, <1>2, KeepsTransitive DEF Resynched, a, b

\* To an instance that has the file, get_post returns what is in it.
LEMMA FreshPost ==
    ASSUME NEW nd \in Instance, FileType, NEW mn \in Slots,
           nd.nummsgs = hdr, Fresh(nd, recs)
    PROVE  LET ne == GetPost(nd, mn) IN
           /\ ne.nummsgs = hdr /\ Fresh(ne, recs)
           /\ mn \in 1 .. hdr => /\ Cached(ne, mn) = recs[mn]
                               /\ mn - ne.cache_start \in 0 .. CacheSize - 1
<1>. DEFINE a == Invalidate(nd)
            k == Adjusted(a, mn)
            b == Recount(a)
            start == CacheStart(b, k)
            c == Fill(b, start)
<1>1. a \in Instance /\ a.nummsgs = hdr /\ Fresh(a, recs)
  BY InvalidateType
<1>2. b \in Instance /\ b.nummsgs = hdr
  BY <1>1, RecountType
<1>3. hdr \in 0 .. MaxPosts /\ mn \in 0 .. MaxPosts /\ mn # 0
  BY SlotsFacts DEF FileType
<1>4. GetPost(nd, mn) = IF InCache(a, mn) THEN Found(a, mn) ELSE Found(c, k)
  BY DEF GetPost, a, b, c, k, start
<1>. HIDE DEF a, b
<1>5. k \in 0 .. MaxPosts /\ (k = 0 => b.nummsgs = 0) /\ (mn \in 1 .. hdr => k = mn)
  BY <1>2, <1>3 DEF Adjusted
<1>. HIDE DEF k
<1>6. /\ start \in Slots
      /\ k \in 1 .. hdr => k - start \in 0 .. CacheSize - 1
  BY <1>2, <1>5, CacheStartType
<1>. HIDE DEF start
<1>7. /\ c \in Instance /\ c.nummsgs = hdr /\ c.cache_start = start
      /\ c.believe_cache /\ Fresh(c, recs)
  BY <1>2, <1>6, FillType
<1>. HIDE DEF c
<1>8. ASSUME NEW e \in Instance, NEW j, e.nummsgs = hdr, Fresh(e, recs)
      PROVE  /\ Found(e, j).nummsgs = hdr /\ Fresh(Found(e, j), recs)
             /\ Found(e, j).cache_start = e.cache_start
             /\ Found(e, j).cache = e.cache
  BY <1>8, FoundType DEF Fresh
<1>9. ASSUME NEW e \in Instance, e.nummsgs = hdr, Fresh(e, recs), e.believe_cache,
             mn \in 1 .. hdr, mn - e.cache_start \in 0 .. CacheSize - 1
      PROVE  Cached(e, mn) = recs[mn]
  <2>1. e.cache_start + (mn - e.cache_start) = mn
    BY <1>3 DEF Instance, Slots
  <2>2. QED
    BY <1>9, <2>1 DEF Fresh, Cached
<1>10. CASE InCache(a, mn)
  <2>1. a.believe_cache /\ mn - a.cache_start \in 0 .. CacheSize - 1
    BY <1>1, <1>3, <1>10, SlotsFacts DEF InCache, Instance
  <2>2. mn \in 1 .. hdr => Cached(a, mn) = recs[mn]
    BY <1>1, <1>9, <2>1
  <2>3. QED
    BY <1>1, <1>4, <1>8, <1>10, <2>1, <2>2 DEF Cached
<1>11. CASE ~InCache(a, mn)
  <2>1. mn \in 1 .. hdr => k = mn /\ mn - c.cache_start \in 0 .. CacheSize - 1
    BY <1>5, <1>6, <1>7
  <2>2. mn \in 1 .. hdr => Cached(c, mn) = recs[mn]
    BY <1>7, <1>9, <2>1
  <2>3. QED
    BY <1>4, <1>7, <1>8, <1>11, <2>1, <2>2 DEF Cached
<1>12. QED
  BY <1>10, <1>11

LEMMA FreshResynched ==
    ASSUME NEW n, NEW nd \in Instance, FileType, NEW mn \in Slots,
           nd.nummsgs = hdr, Fresh(nd, recs), CanWrite(n)
    PROVE  LET ne == Resynched(n, nd, mn)
               i == Lands(n, nd, mn) IN
           /\ ne.nummsgs = hdr /\ Fresh(ne, recs)
           /\ i \in 1 .. hdr => /\ Cached(ne, i) = recs[i]
                              /\ i - ne.cache_start \in 0 .. CacheSize - 1
<1>. DEFINE a == GetPost(nd, mn)
            b == Noted(n, a)
            c == LookedTwice(n, nd, mn)
            i == Lands(n, nd, mn)
<1>1. a \in Instance /\ a.nummsgs = hdr /\ Fresh(a, recs)
  BY GetPostType, FreshPost
<1>. HIDE DEF a
<1>2. b \in Instance /\ b.nummsgs = hdr /\ Fresh(b, recs)
  BY <1>1, NotedType
<1>. HIDE DEF b
<1>3. c = IF Hits(n, nd, mn) THEN GetPost(b, mn) ELSE a
  BY DEF LookedTwice, Looks, Finds, a, b, c
<1>4. c \in Instance /\ c.nummsgs = hdr /\ Fresh(c, recs)
  BY <1>1, <1>2, <1>3, LookedTwiceType, FreshPost
<1>. HIDE DEF c
<1>5. i \in Slots
  BY LandsType
<1>. HIDE DEF i
<1>6. Resynched(n, nd, mn) = GetPost(c, i)
  BY DEF Resynched, Looks, Finds, c, i
<1>7. QED
  BY <1>4, <1>5, <1>6, FreshPost DEF i

---------------------------------------------------------------------------
(* The inductive invariant.  Of the .SUB: an instance that has it open for *)
(* writing knows the number of posts, and what it has cached is what is in *)
(* the file, so that delete() and write_post work on that; and what is on  *)
(* the board is records.  Of the posts, when no instance is Hasty: the     *)
(* records on the board and in hand are of different messages, so that the *)
(* sectors of different records, which hold their messages, are different. *)

\* What holds of instance n when it is nd, l has the file, and its h posts are
\* the records rs.
Local(n, nd, l, h, rs) ==
    /\ l = n => /\ nd.pc \in {"trim", "add", "find", "delete", "shift"}
                /\ nd.nummsgs = h
                /\ Fresh(nd, rs)
    /\ nd.pc = "find" => nd.mn \in Slots
    /\ nd.pc = "shift" => l = n /\ nd.mn \in 1 .. h
    /\ nd.pc \in {"stamp", "open", "trim", "add"} \/ nd.then = "add" => nd.p \in Record
    /\ nd.then = "add" => nd.pc \in {"delete", "shift"}
    /\ nd.pc = "create" => Hasty

LocalInv == \A n \in Nodes : Local(n, node[n], lock, hdr, recs)

Holds(n) == node[n].p # NoRecord

Records == \A i \in 1 .. hdr : recs[i] \in Record

Distinct ==
    /\ \A i \in 1 .. hdr : recs[i].msg \in written
    /\ \A i, j \in 1 .. hdr : recs[i].msg = recs[j].msg => i = j
    /\ \A n \in Nodes : Holds(n) =>
          /\ node[n].p.msg \in written
          /\ \A i \in 1 .. hdr : recs[i].msg # node[n].p.msg
    /\ \A n, k \in Nodes :
          Holds(n) /\ Holds(k) /\ node[n].p.msg = node[k].p.msg => n = k

Texts ==
    /\ \A i \in 1 .. hdr : ~Removed(i) => Own(gat, text, recs[i])
    /\ \A n \in Nodes : Holds(n) => Own(gat, text, node[n].p)

Inv == TypeOK /\ LocalInv /\ Records /\ (~Hasty => Distinct /\ Texts)

LEMMA InvIsTextIsOwn == ~Hasty /\ Inv => TextIsOwn
BY DEF Inv, Texts, TextIsOwn, Live, OnBoard, InHand, Holds, HasOwnText, Own

\* Instance n becomes ne; it has the file, or it touches none of it.
Becomes(n, ne) ==
    /\ node' = [node EXCEPT ![n] = ne]
    /\ \/ CanWrite(n) /\ lock' \in {n, Nobody}
       \/ lock' = lock /\ hdr' = hdr /\ recs' = recs

LEMMA TypeFacts ==
    ASSUME Inv, NEW n \in Nodes
    PROVE  /\ node[n] \in Instance /\ FileType /\ Local(n, node[n], lock, hdr, recs)
           /\ Nobody # n
BY BoardAssumption DEF Inv, TypeOK, FileType, LocalInv

LEMMA BecomesLocal ==
    ASSUME Inv, NEW n \in Nodes, NEW ne \in Instance, Becomes(n, ne),
           Local(n, ne, lock', hdr', recs')
    PROVE  /\ LocalInv' /\ node' \in [Nodes -> Instance]
           /\ lock' \in Nodes \union {Nobody}
           /\ node'[n] = ne /\ \A k \in Nodes \ {n} : node'[k] = node[k]
<1>1. /\ node' \in [Nodes -> Instance] /\ node'[n] = ne
      /\ \A k \in Nodes \ {n} : node'[k] = node[k]
  BY DEF Inv, TypeOK, Becomes
<1>2. lock' \in Nodes \union {Nobody}
  BY DEF Inv, TypeOK, Becomes
<1>3. ASSUME NEW k \in Nodes \ {n} PROVE Local(k, node[k], lock', hdr', recs')
  <2>1. Local(k, node[k], lock, hdr, recs) /\ k # n /\ k # Nobody
    BY BoardAssumption DEF Inv, LocalInv
  <2>2. CASE CanWrite(n) /\ lock' \in {n, Nobody}
    <3>1. lock # k /\ lock' # k
      BY <2>1, <2>2 DEF CanWrite
    <3>2. QED
      BY <2>1, <3>1 DEF Local
  <2>3. CASE lock' = lock /\ hdr' = hdr /\ recs' = recs
    BY <2>1, <2>3 DEF Local
  <2>4. QED
    BY <2>2, <2>3 DEF Becomes
<1>4. QED
  BY <1>1, <1>2, <1>3 DEF LocalInv

\* Steps that leave posts and texts alone: at most n lets go of its record.
LEMMA QuietStep ==
    ASSUME Inv, NEW n \in Nodes, NEW ne \in Instance, Becomes(n, ne),
           Local(n, ne, lock', hdr', recs'),
           ne.p \in {node[n].p, NoRecord}, node[n].pc # "shift", ne.pc # "shift",
           UNCHANGED <<sub, dat, written>>, changed' \in SUBSET Nodes
    PROVE  Inv'
<1>1. /\ LocalInv' /\ node' \in [Nodes -> Instance]
      /\ lock' \in Nodes \union {Nobody}
      /\ node'[n] = ne /\ \A k \in Nodes \ {n} : node'[k] = node[k]
  BY BecomesLocal
<1>2. TypeOK'
  BY <1>1 DEF Inv, TypeOK, sub, dat
<1>3. \A k \in Nodes : Holds(k)' => Holds(k) /\ node'[k].p = node[k].p
  BY <1>1 DEF Holds
<1>4. Records' /\ (~Hasty => Distinct')
  <2>1. UNCHANGED <<hdr, recs, written>> /\ Records /\ (~Hasty => Distinct)
    BY DEF sub, Inv
  <2>2. QED
    BY <1>3, <2>1 DEF Records, Distinct
<1>5. \A i \in 1 .. hdr : ~Removed(i)' => ~Removed(i)
  <2>1. ASSUME NEW i, Removed(i) PROVE Removed(i)'
    <3>1. lock # Nobody /\ lock \in Nodes /\ node[lock].pc = "shift" /\ lock # n
      BY <2>1 DEF Removed, Inv, TypeOK
    <3>2. lock' = lock
      BY <3>1 DEF Becomes, CanWrite
    <3>3. QED
      BY <1>1, <2>1, <3>1, <3>2 DEF Removed
  <2>2. QED
    BY <2>1
<1>6. ~Hasty => Texts'
  BY <1>3, <1>5 DEF Texts, Inv, sub, dat
<1>7. QED
  BY <1>1, <1>2, <1>4, <1>6 DEF Inv

---------------------------------------------------------------------------
(* The steps that leave posts and texts alone *)

LEMMA ScannedType ==
    ASSUME NEW nd \in Instance, NEW count \in 0 .. MaxPosts
    PROVE  LET ne == Scanned(nd, count) IN
           /\ ne \in Instance /\ ne.pc = "idle" /\ ne.nummsgs = count
           /\ ne.p = nd.p /\ ne.then = nd.then
<1>. DEFINE f == Forget(nd)
<1>1. f \in Instance /\ Keeps(nd, f)
  BY ForgetType
<1>2. 0 \in 0 .. MaxPosts /\ 0 \in 0 .. 3
  BY SlotsFacts
<1>3. Scanned(nd, count) = [f EXCEPT !.pc = "idle", !.curlsub = TRUE, !.subchg = 0,
                                     !.last_msgnum = 0, !.nummsgs = count]
  BY DEF Scanned
<1>. HIDE DEF f
<1>. DEFINE g == [f EXCEPT !.pc = "idle", !.curlsub = TRUE, !.subchg = 0]
<1>4. g \in Instance /\ g.pc = "idle" /\ g.p = f.p /\ g.then = f.then
  BY <1>1, <1>2 DEF Instance, Steps
<1>5. Scanned(nd, count) = [g EXCEPT !.last_msgnum = 0, !.nummsgs = count]
  BY <1>3
<1>. HIDE DEF g
<1>. DEFINE h == [g EXCEPT !.last_msgnum = 0, !.nummsgs = count]
<1>6. h \in Instance
  BY <1>2, <1>4 DEF Instance
<1>7. h.pc = g.pc /\ h.p = g.p /\ h.then = g.then /\ h.nummsgs = count
  BY <1>4 DEF Instance
<1>. HIDE DEF h
<1>8. QED
  BY <1>1, <1>4, <1>5, <1>6, <1>7 DEF Keeps, h

LEMMA SelectKeepsInv ==
    ASSUME Inv, NEW n \in Nodes, Select(n)
    PROVE  Inv'
<1>. DEFINE nd == Noted(n, node[n])
<1>1. /\ node[n] \in Instance /\ Local(n, node[n], lock, hdr, recs) /\ Nobody # n
      /\ nd \in Instance /\ Keeps(node[n], nd) /\ hdr \in 0 .. MaxPosts
  BY TypeFacts, NotedType DEF FileType
<1>2. /\ nd.pc = "idle" /\ node[n].pc = "idle" /\ lock # n
      /\ UNCHANGED <<sub, lock, dat, written>> /\ changed' \in SUBSET Nodes
  BY <1>1 DEF Select, ReadsStatus, Inv, TypeOK, Keeps, Local
<1>. HIDE DEF nd
<1>3. CASE UNCHANGED node
  <2>1. node' = [node EXCEPT ![n] = node[n]]
    BY <1>3 DEF Inv, TypeOK
  <2>2. Becomes(n, node[n]) /\ Local(n, node[n], lock', hdr', recs')
    BY <1>1, <1>2, <2>1 DEF Becomes, sub
  <2>3. QED
    BY <1>1, <1>2, <2>2, QuietStep
<1>4. CASE node' = [node EXCEPT ![n] = Scanned(nd, hdr)]
  <2>1. /\ Scanned(nd, hdr) \in Instance /\ Scanned(nd, hdr).pc = "idle"
        /\ Scanned(nd, hdr).p = node[n].p /\ Scanned(nd, hdr).then = node[n].then
    BY <1>1, ScannedType DEF Keeps
  <2>2. Becomes(n, Scanned(nd, hdr)) /\ Local(n, Scanned(nd, hdr), lock', hdr', recs')
    BY <1>1, <1>2, <1>4, <2>1 DEF Becomes, Local, sub
  <2>3. QED
    BY <1>1, <1>2, <2>1, <2>2, QuietStep
<1>5. CASE /\ Hasty
           /\ node' = [node EXCEPT ![n] =
                         [Forget(nd) EXCEPT !.pc = "create", !.curlsub = FALSE]]
  <2>. DEFINE f == Forget(nd)
  <2>1. f \in Instance /\ Keeps(nd, f)
    BY <1>1, ForgetType
  <2>. HIDE DEF f
  <2>. DEFINE ne == [f EXCEPT !.pc = "create", !.curlsub = FALSE]
  <2>2. /\ ne \in Instance /\ ne.pc = "create" /\ ne.p = node[n].p
        /\ ne.then = node[n].then
    <3>1. ne \in Instance
      BY <2>1 DEF Instance, Steps
    <3>2. ne.pc = "create" /\ ne.p = f.p /\ ne.then = f.then
      BY <2>1 DEF Instance
    <3>3. QED
      BY <1>1, <2>1, <3>1, <3>2 DEF Keeps
  <2>3. node' = [node EXCEPT ![n] = ne]
    BY <1>5 DEF f
  <2>. HIDE DEF ne
  <2>4. Becomes(n, ne) /\ Local(n, ne, lock', hdr', recs')
    BY <1>1, <1>2, <1>5, <2>2, <2>3 DEF Becomes, Local, sub
  <2>5. QED
    BY <1>1, <1>2, <2>2, <2>4, QuietStep
<1>6. QED
  BY <1>3, <1>4, <1>5 DEF Select, nd

\* n goes on to another step and nothing else happens.
LEMMA GoesOn ==
    ASSUME Inv, NEW n \in Nodes, NEW ne \in Instance,
           node' = [node EXCEPT ![n] = ne], lock' = lock,
           UNCHANGED <<sub, dat, written>>, changed' \in SUBSET Nodes,
           Local(n, ne, lock, hdr, recs), ne.p \in {node[n].p, NoRecord},
           node[n].pc # "shift", ne.pc # "shift"
    PROVE  Inv'
<1>1. Becomes(n, ne) /\ Local(n, ne, lock', hdr', recs')
  BY DEF Becomes, sub
<1>2. QED
  BY <1>1, QuietStep

LEMMA GetKeepsInv ==
    ASSUME Inv, NEW n \in Nodes, NEW mn \in Slots, Get(n, mn)
    PROVE  Inv'
<1>. DEFINE ne == Looks(n, node[n], mn)
<1>1. /\ Local(n, node[n], lock, hdr, recs)
      /\ ne \in Instance /\ Keeps(node[n], ne)
  BY TypeFacts, LooksType
<1>2. /\ node[n].pc = "idle" /\ node' = [node EXCEPT ![n] = ne]
      /\ UNCHANGED <<sub, lock, dat, written>> /\ changed' \in SUBSET Nodes
  BY DEF Get, Inv, TypeOK
<1>. HIDE DEF ne
<1>3. Local(n, ne, lock, hdr, recs) /\ ne.pc # "shift" /\ ne.p = node[n].p
  BY <1>1, <1>2 DEF Local, Keeps
<1>4. QED
  BY <1>1, <1>2, <1>3, GoesOn

LEMMA ReadStatusKeepsInv ==
    ASSUME Inv, NEW n \in Nodes, ReadStatus(n)
    PROVE  Inv'
<1>. DEFINE ne == Noted(n, node[n])
<1>1. /\ Local(n, node[n], lock, hdr, recs) /\ ne \in Instance /\ Keeps(node[n], ne)
      /\ ne.nummsgs = node[n].nummsgs
  BY TypeFacts, NotedType
<1>2. /\ node[n].pc = "idle" /\ node' = [node EXCEPT ![n] = ne]
      /\ UNCHANGED <<sub, lock, dat, written>> /\ changed' \in SUBSET Nodes
  BY DEF ReadStatus, ReadsStatus, Inv, TypeOK
<1>. HIDE DEF ne
<1>3. Local(n, ne, lock, hdr, recs) /\ ne.pc # "shift" /\ ne.p = node[n].p
  BY <1>1, <1>2 DEF Local, Keeps
<1>4. QED
  BY <1>1, <1>2, <1>3, GoesOn

LEMMA StampKeepsInv ==
    ASSUME Inv, NEW n \in Nodes, Stamp(n)
    PROVE  Inv'
<1>. DEFINE nd == Noted(n, node[n])
<1>1. /\ Local(n, node[n], lock, hdr, recs) /\ nd \in Instance /\ Keeps(node[n], nd)
  BY TypeFacts, NotedType
<1>2. /\ node[n].pc = "stamp" /\ UNCHANGED <<sub, lock, dat, written>>
      /\ changed' \in SUBSET Nodes
  BY DEF Stamp, Counts
<1>3. node' = [node EXCEPT ![n] = [nd EXCEPT !.pc = "open"]]
  BY DEF Stamp, Inv, TypeOK
<1>. HIDE DEF nd
<1>. DEFINE ne == [nd EXCEPT !.pc = "open"]
<1>4. /\ ne \in Instance /\ ne.p = node[n].p /\ ne.pc = "open"
      /\ ne.then = node[n].then
  BY <1>1 DEF Instance, Keeps, Steps
<1>5. node' = [node EXCEPT ![n] = ne]
  BY <1>3
<1>. HIDE DEF ne
<1>6. Local(n, ne, lock, hdr, recs)
  BY <1>1, <1>2, <1>4 DEF Local
<1>7. QED
  BY <1>2, <1>4, <1>5, <1>6, GoesOn

\* The steps that only change what n does next.
LEMMA SmallStepsKeepInv ==
    ASSUME Inv, NEW n \in Nodes,
           CreateGivesUp(n) \/ PostOpenFails(n) \/ AddFails(n) \/ DeleteFails(n)
    PROVE  Inv'
<1>1. /\ node[n] \in Instance /\ Local(n, node[n], lock, hdr, recs) /\ Nobody # n
      /\ node \in [Nodes -> Instance]
  BY TypeFacts DEF Inv, TypeOK
<1>2. /\ UNCHANGED <<sub, lock, dat, written>> /\ changed' \in SUBSET Nodes
      /\ node[n].pc \in {"create", "open", "add", "delete"} /\ lock # n
  BY <1>1 DEF CreateGivesUp, PostOpenFails, AddFails, DeleteFails, Inv, TypeOK, CanWrite, Local
<1>3. ASSUME NEW ne \in Instance, node' = [node EXCEPT ![n] = ne],
             ne.pc \in {"idle", "trim", "add"}, ne.p \in {node[n].p, NoRecord},
             ne.pc \in {"stamp", "open", "trim", "add"} => ne.p \in Record,
             ne.then = "close"
      PROVE  Inv'
  <2>1. Local(n, ne, lock, hdr, recs)
    BY <1>1, <1>2, <1>3 DEF Local
  <2>2. QED
    BY <1>2, <1>3, <2>1, GoesOn
<1>4. CASE CreateGivesUp(n)
  <2>. DEFINE ne == [node[n] EXCEPT !.pc = "idle"]
  <2>1. node' = [node EXCEPT ![n] = ne]
    BY <1>4 DEF CreateGivesUp
  <2>2. /\ ne \in Instance /\ ne.pc = "idle" /\ ne.p = node[n].p
        /\ ne.then = node[n].then /\ node[n].then = "close"
    BY <1>1, <1>2, <1>4 DEF Instance, Local, Steps, CreateGivesUp
  <2>. HIDE DEF ne
  <2>3. QED
    BY <1>3, <2>1, <2>2 DEF Steps
<1>5. CASE PostOpenFails(n)
  <2>. DEFINE ne == [node[n] EXCEPT !.pc = "trim"]
  <2>1. node' = [node EXCEPT ![n] = ne]
    BY <1>5 DEF PostOpenFails
  <2>2. /\ ne \in Instance /\ ne.pc = "trim" /\ ne.p = node[n].p /\ ne.p \in Record
        /\ ne.then = node[n].then /\ node[n].then = "close"
    BY <1>1, <1>2, <1>5 DEF Instance, Local, Steps, PostOpenFails
  <2>. HIDE DEF ne
  <2>3. QED
    BY <1>3, <2>1, <2>2 DEF Steps
<1>6. CASE AddFails(n)
  <2>. DEFINE ne == [node[n] EXCEPT !.pc = "idle", !.p = NoRecord]
  <2>1. node' = [node EXCEPT ![n] = ne]
    BY <1>1, <1>6 DEF AddFails
  <2>2. /\ ne \in Instance /\ ne.pc = "idle" /\ ne.p = NoRecord
        /\ ne.then = node[n].then /\ node[n].then = "close"
    BY <1>1, <1>2, <1>6 DEF Instance, Local, Steps, AddFails
  <2>. HIDE DEF ne
  <2>3. QED
    BY <1>3, <2>1, <2>2 DEF Steps
<1>7. CASE DeleteFails(n)
  <2>. DEFINE ne == Returned(node[n])
  <2>1. node' = [node EXCEPT ![n] = ne]
    BY <1>7 DEF DeleteFails
  <2>2. 0 \in 0 .. MaxPosts
    BY SlotsFacts
  <2>3. /\ ne \in Instance /\ ne.pc = IF node[n].then = "add" THEN "add" ELSE "idle"
        /\ ne.p = node[n].p /\ ne.then = "close"
    BY <1>1, <2>2 DEF Instance, Returned, Steps
  <2>. HIDE DEF ne
  <2>4. QED
    BY <1>1, <1>3, <2>1, <2>3 DEF Steps, Local
<1>8. QED
  BY <1>4, <1>5, <1>6, <1>7

LEMMA ReturnedType ==
    ASSUME NEW nd \in Instance
    PROVE  LET ne == Returned(nd) IN
           /\ ne \in Instance /\ ne.pc = IF nd.then = "add" THEN "add" ELSE "idle"
           /\ ne.p = nd.p /\ ne.then = "close" /\ ne.nummsgs = nd.nummsgs
           /\ \A rs : Fresh(nd, rs) => Fresh(ne, rs)
<1>1. 0 \in 0 .. MaxPosts
  BY SlotsFacts
<1>2. QED
  BY <1>1 DEF Instance, Returned, Steps, Fresh

\* What an instance works on once it can write the .SUB.
LEMMA OpenedType ==
    ASSUME Inv, NEW n \in Nodes, CanWrite(n), node[n].pc # "shift"
    PROVE  LET nd == Noted(n, Opened(n)) IN
           /\ nd \in Instance /\ Keeps(node[n], nd)
           /\ nd.nummsgs = hdr /\ Fresh(nd, recs)
<1>1. node[n] \in Instance /\ FileType /\ Local(n, node[n], lock, hdr, recs)
  BY TypeFacts
<1>. DEFINE f == Opened(n)
<1>2. f \in Instance /\ Keeps(node[n], f) /\ f.nummsgs = hdr /\ Fresh(f, recs)
  <2>1. CASE lock = n
    BY <1>1, <2>1 DEF Opened, Local, Keeps
  <2>2. CASE lock # n
    BY <1>1, <2>2, OpenSubType DEF Opened
  <2>3. QED
    BY <2>1, <2>2
<1>. HIDE DEF f
<1>3. /\ Noted(n, f) \in Instance /\ Keeps(f, Noted(n, f))
      /\ Noted(n, f).nummsgs = hdr /\ Fresh(Noted(n, f), recs)
  BY <1>2, NotedType
<1>4. Keeps(node[n], Noted(n, f))
  BY <1>2, <1>3, KeepsTransitive
<1>5. QED
  BY <1>3, <1>4 DEF f

LEMMA PostOpensKeepsInv ==
    ASSUME Inv, NEW n \in Nodes, PostOpens(n)
    PROVE  Inv'
<1>1. /\ node[n] \in Instance /\ FileType /\ Local(n, node[n], lock, hdr, recs)
      /\ Nobody # n
  BY TypeFacts
<1>2. /\ node[n].pc = "open" /\ lock = Nobody /\ lock' = n
      /\ UNCHANGED <<sub, dat, written>> /\ changed' \in SUBSET Nodes
  BY DEF PostOpens, Inv, TypeOK
<1>. DEFINE f == OpenSub(node[n])
            ne == [f EXCEPT !.pc = "trim"]
<1>3. f \in Instance /\ Keeps(node[n], f) /\ f.nummsgs = hdr /\ Fresh(f, recs)
  BY <1>1, OpenSubType
<1>4. node' = [node EXCEPT ![n] = ne]
  BY DEF PostOpens, Inv, TypeOK
<1>. HIDE DEF f
<1>5. /\ ne \in Instance /\ ne.pc = "trim" /\ ne.p = node[n].p
      /\ ne.then = node[n].then /\ ne.nummsgs = hdr /\ Fresh(ne, recs)
  BY <1>3 DEF Instance, Keeps, Steps, Fresh
<1>. HIDE DEF ne
<1>6. Becomes(n, ne) /\ Local(n, ne, lock', hdr', recs')
  BY <1>1, <1>2, <1>4, <1>5 DEF Becomes, CanWrite, Local, sub
<1>7. QED
  BY <1>2, <1>5, <1>6, QuietStep

\* What get_post gives an instance that is not idle.
LEMMA LooksFacts ==
    ASSUME Inv, NEW n \in Nodes, NEW mn \in Slots
    PROVE  LET nd == Looks(n, node[n], mn) IN
           /\ nd \in Instance /\ Keeps(node[n], nd)
           /\ lock = n => nd.nummsgs = hdr /\ Fresh(nd, recs)
<1>1. node[n] \in Instance /\ FileType /\ Local(n, node[n], lock, hdr, recs)
  BY TypeFacts
<1>2. lock = n => Looks(n, node[n], mn) = GetPost(node[n], mn)
  BY DEF Looks, Finds, CanWrite
<1>3. lock = n => node[n].nummsgs = hdr /\ Fresh(node[n], recs)
  BY <1>1 DEF Local
<1>4. QED
  BY <1>1, <1>2, <1>3, LooksType, FreshPost

LEMMA TrimKeepsInv ==
    ASSUME Inv, NEW n \in Nodes, Trim(n)
    PROVE  Inv'
<1>. DEFINE i == node[n].mn + 1
            nd == Looks(n, node[n], i)
<1>1. /\ node[n] \in Instance /\ Local(n, node[n], lock, hdr, recs)
      /\ node \in [Nodes -> Instance]
  BY TypeFacts DEF Inv, TypeOK
<1>2. /\ node[n].pc = "trim" /\ UNCHANGED <<sub, lock, dat, written>>
      /\ changed' \in SUBSET Nodes
  BY DEF Trim, Inv, TypeOK
<1>3. ASSUME NEW f \in Instance, Keeps(node[n], f),
             lock = n => f.nummsgs = hdr /\ Fresh(f, recs),
             NEW ne \in Instance, node' = [node EXCEPT ![n] = ne],
             ne.nummsgs = f.nummsgs, ne.p = f.p,
             \A rs : Fresh(f, rs) => Fresh(ne, rs),
             \/ ne.pc \in {"trim", "add"} /\ ne.then = f.then
             \/ ne.pc = "delete" /\ ne.then = "add"
      PROVE  Inv'
  <2>1. Local(n, ne, lock, hdr, recs) /\ ne.pc # "shift" /\ ne.p = node[n].p
    BY <1>1, <1>2, <1>3 DEF Local, Keeps
  <2>2. QED
    BY <1>2, <1>3, <2>1, GoesOn
<1>4. /\ Keeps(node[n], node[n])
      /\ lock = n => node[n].nummsgs = hdr /\ Fresh(node[n], recs)
  BY <1>1 DEF Keeps, Local
<1>5. CASE node' = [node EXCEPT ![n].pc = "add"]
  <2>. DEFINE ne == [node[n] EXCEPT !.pc = "add"]
  <2>1. node' = [node EXCEPT ![n] = ne]
    BY <1>5
  <2>2. /\ ne \in Instance /\ ne.pc = "add" /\ ne.p = node[n].p
        /\ ne.then = node[n].then /\ ne.nummsgs = node[n].nummsgs
        /\ \A rs : Fresh(node[n], rs) => Fresh(ne, rs)
    BY <1>1 DEF Instance, Steps, Fresh
  <2>. HIDE DEF ne
  <2>3. QED
    BY <1>1, <1>3, <1>4, <2>1, <2>2
<1>6. ASSUME NEW f \in Instance, NEW k \in 0 .. MaxPosts
      PROVE  /\ Victim(f, k) \in Instance
             /\ Victim(f, k).nummsgs = f.nummsgs /\ Victim(f, k).p = f.p
             /\ \A rs : Fresh(f, rs) => Fresh(Victim(f, k), rs)
             /\ Victim(f, k).pc = "delete" /\ Victim(f, k).then = "add"
  BY DEF Victim, Instance, Steps, Fresh
<1>7. CASE node' = [node EXCEPT ![n] = Victim(node[n], 1)]
  <2>1. 1 \in 0 .. MaxPosts
    BY SlotsFacts
  <2>2. QED
    BY <1>1, <1>3, <1>4, <1>6, <1>7, <2>1
<1>8. CASE /\ i <= node[n].nummsgs
           /\ node' \in {[node EXCEPT ![n] = Victim(nd, i)],
                         [node EXCEPT ![n] = [nd EXCEPT !.mn = i]]}
  <2>1. i \in Slots /\ i \in 0 .. MaxPosts
    BY <1>1, <1>8, SlotsFacts DEF Instance
  <2>2. /\ nd \in Instance /\ Keeps(node[n], nd)
        /\ lock = n => nd.nummsgs = hdr /\ Fresh(nd, recs)
    BY <2>1, LooksFacts
  <2>. HIDE DEF i, nd
  <2>3. CASE node' = [node EXCEPT ![n] = Victim(nd, i)]
    BY <1>3, <1>6, <2>1, <2>2, <2>3
  <2>4. CASE node' = [node EXCEPT ![n] = [nd EXCEPT !.mn = i]]
    <3>. DEFINE ne == [nd EXCEPT !.mn = i]
    <3>1. /\ ne \in Instance /\ ne.pc = nd.pc /\ ne.p = nd.p
          /\ ne.then = nd.then /\ ne.nummsgs = nd.nummsgs
          /\ \A rs : Fresh(nd, rs) => Fresh(ne, rs)
      BY <2>1, <2>2 DEF Instance, Fresh
    <3>2. ne.pc = "trim" /\ node' = [node EXCEPT ![n] = ne]
      BY <1>2, <2>2, <2>4, <3>1 DEF Keeps
    <3>. HIDE DEF ne
    <3>3. QED
      BY <1>3, <2>2, <3>1, <3>2
  <2>5. QED
    BY <1>8, <2>3, <2>4
<1>9. QED
  BY <1>1, <1>5, <1>7, <1>8 DEF Trim

LEMMA StartDeleteKeepsInv ==
    ASSUME Inv, NEW n \in Nodes, NEW mn \in Slots, StartDelete(n, mn)
    PROVE  Inv'
<1>1. /\ node[n] \in Instance /\ FileType /\ Local(n, node[n], lock, hdr, recs)
      /\ Nobody # n /\ mn \in 0 .. MaxPosts
  BY TypeFacts, SlotsFacts
<1>2. /\ node[n].pc = "idle" /\ UNCHANGED <<sub, dat, written>>
      /\ changed' \in SUBSET Nodes
  BY DEF StartDelete, Inv, TypeOK
<1>3. ASSUME NEW f \in Instance, Keeps(node[n], f),
             node' = [node EXCEPT ![n] = [f EXCEPT !.pc = "find", !.mn = mn]],
             \/ lock = Nobody /\ lock' = n /\ f.nummsgs = hdr /\ Fresh(f, recs)
             \/ lock # n /\ lock' = lock
      PROVE  Inv'
  <2>. DEFINE ne == [f EXCEPT !.pc = "find", !.mn = mn]
  <2>1. /\ ne \in Instance /\ ne.pc = "find" /\ ne.p = node[n].p /\ ne.mn = mn
        /\ ne.then = node[n].then /\ ne.nummsgs = f.nummsgs
        /\ \A rs : Fresh(f, rs) => Fresh(ne, rs)
    BY <1>1, <1>3 DEF Instance, Keeps, Steps, Fresh
  <2>. HIDE DEF ne
  <2>2. node' = [node EXCEPT ![n] = ne]
    BY <1>3 DEF ne
  <2>3. Becomes(n, ne)
    BY <1>2, <1>3, <2>2 DEF Becomes, CanWrite, sub
  <2>4. Local(n, ne, lock', hdr', recs')
    BY <1>1, <1>2, <1>3, <2>1 DEF Local, sub
  <2>5. QED
    BY <1>2, <2>1, <2>3, <2>4, QuietStep
<1>4. /\ OpenSub(node[n]) \in Instance /\ Keeps(node[n], OpenSub(node[n]))
      /\ OpenSub(node[n]).nummsgs = hdr /\ Fresh(OpenSub(node[n]), recs)
      /\ Keeps(node[n], node[n])
  BY <1>1, OpenSubType DEF Keeps
<1>5. lock # n
  BY <1>1, <1>2 DEF Local
<1>6. \E f \in {node[n], OpenSub(node[n])} :
        /\ node' = [node EXCEPT ![n] = [f EXCEPT !.pc = "find", !.mn = mn]]
        /\ \/ lock = Nobody /\ lock' = n /\ f = OpenSub(node[n])
           \/ lock' = lock
  BY DEF StartDelete, Inv, TypeOK
<1>7. QED
  BY <1>1, <1>3, <1>4, <1>5, <1>6

LEMMA ResynchKeepsInv ==
    ASSUME Inv, NEW n \in Nodes, Resynch(n)
    PROVE  Inv'
<1>. DEFINE nd == Resynched(n, node[n], node[n].mn)
<1>1. /\ node[n] \in Instance /\ FileType /\ Local(n, node[n], lock, hdr, recs)
  BY TypeFacts
<1>2. /\ node[n].pc = "find" /\ UNCHANGED <<sub, lock, dat, written>>
      /\ changed' \in SUBSET Nodes
  BY DEF Resynch, ReadsStatusIf, Inv, TypeOK
<1>3. node[n].mn \in Slots /\ node[n].then = "close"
  BY <1>1, <1>2 DEF Local, Instance
<1>4. nd \in Instance /\ Keeps(node[n], nd)
  BY <1>1, <1>3, ResynchedType
<1>5. lock = n => nd.nummsgs = hdr /\ Fresh(nd, recs)
  BY <1>1, <1>3, FreshResynched DEF Local, CanWrite
<1>6. PICK mn \in Slots \union 0 .. nd.nummsgs :
        node' = [node EXCEPT ![n] = [nd EXCEPT !.pc = "delete", !.mn = mn]]
  <2>1. Lands(n, node[n], node[n].mn) \in Slots
    BY <1>1, <1>3, LandsType
  <2>2. QED
    BY <1>3, <2>1 DEF Resynch
<1>. HIDE DEF nd
<1>7. mn \in 0 .. MaxPosts
  BY <1>4, <1>6, SlotsFacts DEF Instance
<1>. DEFINE ne == [nd EXCEPT !.pc = "delete", !.mn = mn]
<1>8. /\ ne \in Instance /\ ne.pc = "delete" /\ ne.p = node[n].p
      /\ ne.then = "close" /\ ne.nummsgs = nd.nummsgs
      /\ Fresh(nd, recs) => Fresh(ne, recs)
  BY <1>3, <1>4, <1>7 DEF Instance, Keeps, Steps, Fresh
<1>9. node' = [node EXCEPT ![n] = ne]
  BY <1>6
<1>. HIDE DEF ne
<1>10. Local(n, ne, lock, hdr, recs)
  BY <1>5, <1>8 DEF Local
<1>11. QED
  BY <1>2, <1>8, <1>9, <1>10, GoesOn

LEMMA FindPostKeepsInv ==
    ASSUME Inv, NEW n \in Nodes, FindPost(n)
    PROVE  Inv'
<1>. DEFINE mn == node[n].mn
            nd == IF mn <= node[n].nummsgs THEN Looks(n, node[n], mn) ELSE node[n]
<1>1. /\ node[n] \in Instance /\ Local(n, node[n], lock, hdr, recs) /\ Nobody # n
  BY TypeFacts
<1>2. /\ node[n].pc = "find" /\ UNCHANGED <<sub, dat, changed, written>>
      /\ changed' \in SUBSET Nodes
  BY DEF FindPost, Inv, TypeOK
<1>3. mn \in Slots /\ node[n].then = "close" /\ 0 \in 0 .. MaxPosts
  BY <1>1, <1>2, SlotsFacts DEF Local, Instance
<1>4. /\ nd \in Instance /\ Keeps(node[n], nd)
      /\ lock = n => nd.nummsgs = hdr /\ Fresh(nd, recs)
  BY <1>1, <1>3, LooksFacts DEF Keeps, Local
<1>. HIDE DEF nd
<1>5. CASE /\ node' = [node EXCEPT ![n] = [nd EXCEPT !.pc = "delete"]]
           /\ lock' = lock
  <2>. DEFINE ne == [nd EXCEPT !.pc = "delete"]
  <2>1. /\ ne \in Instance /\ ne.pc = "delete" /\ ne.p = node[n].p
        /\ ne.then = "close" /\ ne.nummsgs = nd.nummsgs
        /\ Fresh(nd, recs) => Fresh(ne, recs)
    BY <1>3, <1>4 DEF Instance, Keeps, Steps, Fresh
  <2>2. node' = [node EXCEPT ![n] = ne]
    BY <1>5
  <2>. HIDE DEF ne
  <2>3. Local(n, ne, lock, hdr, recs)
    BY <1>4, <2>1 DEF Local
  <2>4. QED
    BY <1>2, <1>5, <2>1, <2>2, <2>3, GoesOn
<1>6. CASE /\ node' = [node EXCEPT ![n] = [nd EXCEPT !.pc = "idle", !.mn = 0]]
           /\ lock' = IF lock = n THEN Nobody ELSE lock
  <2>. DEFINE ne == [nd EXCEPT !.pc = "idle", !.mn = 0]
  <2>1. /\ ne \in Instance /\ ne.pc = "idle" /\ ne.p = node[n].p
        /\ ne.then = "close"
    BY <1>3, <1>4 DEF Instance, Keeps, Steps
  <2>2. node' = [node EXCEPT ![n] = ne]
    BY <1>6
  <2>. HIDE DEF ne
  <2>3. Becomes(n, ne)
    BY <1>2, <1>6, <2>2 DEF Becomes, CanWrite, sub
  <2>4. Local(n, ne, lock', hdr', recs')
    BY <1>1, <1>6, <2>1 DEF Local
  <2>5. QED
    BY <1>2, <2>1, <2>3, <2>4, QuietStep
<1>7. QED
  BY <1>5, <1>6 DEF FindPost, nd

LEMMA DeleteNothingKeepsInv ==
    ASSUME Inv, NEW n \in Nodes, DeleteNothing(n)
    PROVE  Inv'
<1>. DEFINE nd == Noted(n, Opened(n))
            ne == Returned(nd)
<1>1. /\ node[n] \in Instance /\ Local(n, node[n], lock, hdr, recs) /\ Nobody # n
  BY TypeFacts
<1>2. /\ node[n].pc = "delete" /\ CanWrite(n) /\ lock' = LockAfter(n)
      /\ node' = [node EXCEPT ![n] = ne]
      /\ UNCHANGED <<sub, dat, written>> /\ changed' \in SUBSET Nodes
  BY DEF DeleteNothing, ReadsStatus, Inv, TypeOK
<1>3. /\ nd \in Instance /\ Keeps(node[n], nd)
      /\ nd.nummsgs = hdr /\ Fresh(nd, recs)
  BY <1>2, OpenedType
<1>. HIDE DEF nd
<1>4. /\ ne \in Instance /\ ne.pc = IF nd.then = "add" THEN "add" ELSE "idle"
      /\ ne.p = nd.p /\ ne.then = "close" /\ ne.nummsgs = nd.nummsgs
      /\ Fresh(ne, recs)
  BY <1>3, ReturnedType
<1>. HIDE DEF ne
<1>5. lock' = n => nd.then = "add"
  BY <1>1, <1>2, <1>3 DEF LockAfter, Keeps
<1>6. Becomes(n, ne)
  BY <1>2 DEF Becomes, LockAfter
<1>7. Local(n, ne, lock', hdr', recs')
  BY <1>1, <1>2, <1>3, <1>4, <1>5 DEF Local, Keeps, sub
<1>8. QED
  BY <1>2, <1>3, <1>4, <1>6, <1>7, QuietStep DEF Keeps

---------------------------------------------------------------------------
(* The steps that change posts or texts *)

\* The records in hand, and that a record on the board is not being removed.
LEMMA InvFacts ==
    ASSUME Inv
    PROVE  /\ \A k \in Nodes : Holds(k) => node[k].p \in Record
           /\ \A n \in Nodes : CanWrite(n) /\ node[n].pc # "shift" =>
                 \A i \in 1 .. hdr :
                    ~Removed(i) /\ (~Hasty => Own(gat, text, recs[i]))
<1>1. \A k \in Nodes : Holds(k) => node[k].p \in Record
  BY DEF Inv, TypeOK, Instance, Holds
<1>2. ASSUME NEW n \in Nodes, CanWrite(n), node[n].pc # "shift", NEW i \in 1 .. hdr
      PROVE  ~Removed(i)
  BY <1>2 DEF CanWrite, Removed
<1>3. QED
  BY <1>1, <1>2 DEF Inv, Texts

LEMMA CreateKeepsInv ==
    ASSUME Inv, NEW n \in Nodes, Create(n)
    PROVE  Inv'
<1>. DEFINE ne == Scanned(node[n], hdr')
<1>1. /\ node[n] \in Instance /\ Local(n, node[n], lock, hdr, recs) /\ Nobody # n
      /\ hdr \in 0 .. MaxPosts /\ recs \in [Slots -> Record \union {NoRecord}]
  BY TypeFacts DEF FileType
<1>2. /\ node[n].pc = "create" /\ lock = Nobody /\ lock' = lock
      /\ exists' = TRUE /\ UNCHANGED <<dat, changed, written>>
  BY DEF Create
<1>3. node' = [node EXCEPT ![n] = ne]
  BY DEF Create, Inv, TypeOK
<1>4. /\ hdr' \in 0 .. hdr /\ hdr' \in 0 .. MaxPosts
      /\ recs' \in [Slots -> Record \union {NoRecord}]
      /\ \A i \in 1 .. hdr' : recs'[i] \in Record
  BY <1>1, SlotsFacts DEF Create, Inv, Records
<1>5. /\ ne \in Instance /\ ne.pc = "idle" /\ ne.p = node[n].p
      /\ ne.then = node[n].then
  BY <1>1, <1>4, ScannedType
<1>. HIDE DEF ne
<1>6. Becomes(n, ne) /\ Local(n, ne, lock', hdr', recs')
  BY <1>1, <1>2, <1>3, <1>5 DEF Becomes, CanWrite, Local
<1>7. LocalInv' /\ node' \in [Nodes -> Instance] /\ lock' \in Nodes \union {Nobody}
  BY <1>5, <1>6, BecomesLocal
<1>8. TypeOK'
  BY <1>2, <1>4, <1>7 DEF Inv, TypeOK, dat
<1>9. Hasty
  BY <1>1, <1>2 DEF Local
<1>10. QED
  BY <1>4, <1>7, <1>8, <1>9 DEF Inv, Records

\* What the writer of record mn finds is the record, and changes only its mark.
LEMMA ToggleNoDeleteKeepsInv ==
    ASSUME Inv, NEW n \in Nodes, NEW mn \in Slots, ToggleNoDelete(n, mn)
    PROVE  Inv'
<1>. DEFINE f == OpenSub(node[n])
            nd == Resynched(n, f, mn)
            i == Lands(n, f, mn)
            new == Toggled(Cached(nd, i))
            k == i - nd.cache_start
            ne == [nd EXCEPT !.cache[k] = new]
<1>1. /\ node[n] \in Instance /\ FileType /\ Local(n, node[n], lock, hdr, recs)
      /\ Nobody # n
  BY TypeFacts
<1>2. /\ node[n].pc = "idle" /\ lock = Nobody /\ lock' = lock /\ i \in 1 .. hdr
      /\ UNCHANGED <<exists, hdr, dat, written>> /\ changed' \in SUBSET Nodes
      /\ recs' = [recs EXCEPT ![i] = new] /\ node' = [node EXCEPT ![n] = ne]
  BY DEF ToggleNoDelete, ReadsStatus, Inv, TypeOK
<1>3. f \in Instance /\ Keeps(node[n], f) /\ f.nummsgs = hdr /\ Fresh(f, recs)
  BY <1>1, OpenSubType
<1>4. nd \in Instance /\ Keeps(f, nd)
  BY <1>1, <1>3, ResynchedType
<1>5. Cached(nd, i) = recs[i] /\ k \in 0 .. CacheSize - 1
  <2>1. CanWrite(n)
    BY <1>2 DEF CanWrite
  <2>2. QED
    BY <1>1, <1>2, <1>3, <2>1, FreshResynched
<1>. HIDE DEF f, nd, i, k
<1>6. recs[i] \in Record
  BY <1>2 DEF Inv, Records
<1>7. new \in Record /\ new.msg = recs[i].msg /\ new.at = recs[i].at
  BY <1>5, <1>6 DEF Record, Toggled
<1>. HIDE DEF new
<1>8. /\ ne \in Instance /\ ne.pc = nd.pc /\ ne.p = nd.p /\ ne.then = nd.then
  BY <1>4, <1>5, <1>7 DEF Instance
<1>9. ne.pc = "idle" /\ ne.p = node[n].p /\ ne.then = node[n].then
  BY <1>2, <1>3, <1>4, <1>8 DEF Keeps
<1>. HIDE DEF ne
<1>10. Becomes(n, ne) /\ Local(n, ne, lock', hdr', recs')
  BY <1>1, <1>2, <1>9 DEF Becomes, CanWrite, Local
<1>11. /\ LocalInv' /\ node' \in [Nodes -> Instance]
       /\ lock' \in Nodes \union {Nobody}
       /\ node'[n] = ne /\ \A j \in Nodes \ {n} : node'[j] = node[j]
  BY <1>8, <1>10, BecomesLocal
<1>12. recs \in [Slots -> Record \union {NoRecord}]
  BY DEF Inv, TypeOK
<1>13. TypeOK'
  BY <1>2, <1>7, <1>11, <1>12 DEF Inv, TypeOK, dat
<1>14. \A j \in Nodes : node'[j].p = node[j].p
  BY <1>9, <1>11
<1>15. \A j \in 1 .. hdr : /\ j \in Slots
                           /\ recs'[j].msg = recs[j].msg /\ recs'[j].at = recs[j].at
                           /\ recs[j] \in Record => recs'[j] \in Record
  BY <1>1, <1>2, <1>7, <1>12, SlotsFacts DEF FileType
<1>16. Records' /\ (~Hasty => Distinct')
  BY <1>2, <1>14, <1>15 DEF Inv, Records, Distinct, Holds
<1>17. \A j \in 1 .. hdr : Own(gat, text, recs[j]) => Own(gat, text, recs'[j])
  BY <1>15 DEF Own
<1>18. CanWrite(n) /\ node[n].pc # "shift"
  BY <1>2 DEF CanWrite
<1>19. ~Hasty => Texts'
  BY <1>2, <1>14, <1>17, <1>18, InvFacts DEF Inv, Texts, Holds, dat
<1>20. QED
  BY <1>11, <1>13, <1>16, <1>19 DEF Inv

\* Only what the instance has cached changes.
LEMMA ToggleFailsKeepsInv ==
    ASSUME Inv, NEW n \in Nodes, NEW mn \in Slots, ToggleFails(n, mn)
    PROVE  Inv'
<1>. DEFINE nd == LookedTwice(n, node[n], mn)
            k == mn - nd.cache_start
            ne == [nd EXCEPT !.cache[k] = Toggled(@)]
<1>1. /\ node[n] \in Instance /\ FileType /\ Local(n, node[n], lock, hdr, recs)
  BY TypeFacts
<1>2. /\ node[n].pc = "idle" /\ UNCHANGED <<sub, lock, dat, written>>
      /\ changed' \in SUBSET Nodes
  BY DEF ToggleFails, ReadsStatusIf, Inv, TypeOK
<1>3. nd \in Instance /\ Keeps(node[n], nd)
  BY <1>1, LookedTwiceType
<1>4. /\ \/ node' = [node EXCEPT ![n] = nd]
         \/ InCache(nd, mn) /\ nd.cache[k] # NoRecord /\ node' = [node EXCEPT ![n] = ne]
  BY DEF ToggleFails, Cached, Inv, TypeOK
<1>. HIDE DEF nd
<1>5. ASSUME NEW f \in Instance, Keeps(nd, f), node' = [node EXCEPT ![n] = f]
      PROVE  Inv'
  <2>1. Local(n, f, lock, hdr, recs) /\ f.pc # "shift" /\ f.p = node[n].p
    BY <1>1, <1>2, <1>3, <1>5 DEF Local, Keeps
  <2>2. QED
    BY <1>2, <1>5, <2>1, GoesOn
<1>6. ASSUME InCache(nd, mn), nd.cache[k] # NoRecord
      PROVE  ne \in Instance /\ Keeps(nd, ne)
  <2>1. k \in 0 .. CacheSize - 1
    BY <1>3, <1>6, SlotsFacts DEF InCache, Instance
  <2>2. nd.cache[k] \in Record
    BY <1>3, <1>6, <2>1 DEF Instance
  <2>3. Toggled(nd.cache[k]) \in Record
    BY <2>2 DEF Toggled, Record
  <2>. HIDE DEF k
  <2>4. QED
    BY <1>3, <2>1, <2>3 DEF Instance, Keeps
<1>7. Keeps(nd, nd)
  BY DEF Keeps
<1>8. QED
  BY <1>3, <1>4, <1>5, <1>6, <1>7

\* savefile gives the new post sectors that no record's text uses.
LEMMA SaveKeepsInv ==
    ASSUME Inv, NEW n \in Nodes, NEW m \in Messages, NEW size \in 1 .. MaxSize,
           Save(n, m, size)
    PROVE  Inv'
<1>. DEFINE x == Least(Roomy(gat, size))
            A == Place(gat, size)
            r == [msg |-> m, at |-> [section |-> x, sector |-> Least(A)],
                  no_delete |-> FALSE]
            nd == Noted(n, node[n])
            ne == [nd EXCEPT !.pc = "stamp", !.p = r]
            h == [gat EXCEPT ![x] = Link(@, A)]
            u == Written(text, x, A, m)
<1>1. /\ node[n] \in Instance /\ Local(n, node[n], lock, hdr, recs) /\ Nobody # n
      /\ nd \in Instance /\ Keeps(node[n], nd)
  BY TypeFacts, NotedType
<1>2. /\ node[n].pc = "idle" /\ m \notin written /\ written' = written \union {m}
      /\ gat' = h /\ text' = u /\ Roomy(gat, size) # {}
      /\ UNCHANGED <<sub, lock>> /\ changed' \in SUBSET Nodes
  BY DEF Save, Counts, Written
<1>3. node' = [node EXCEPT ![n] = ne]
  BY DEF Save, Inv, TypeOK
<1>4. /\ x \in Sections /\ A \in SUBSET Sectors /\ A # {}
      /\ \A s \in A : gat[x][s] = Unused
  <2>1. size \in Nat \ {0} /\ gat \in [Sections -> Gat]
    BY BoardAssumption DEF Inv, TypeOK
  <2>2. QED
    BY <1>2, <2>1, PlaceIsUnused
<1>. HIDE DEF x, A, nd
<1>5. r \in Record /\ r.msg = m /\ r.at.section = x /\ r.at.sector = Least(A)
  <2>1. Least(A) \in Sectors
    BY <1>4, SectorsFinite, LeastExists
  <2>2. QED
    BY <1>4, <2>1 DEF Record, Address
<1>. HIDE DEF r
<1>6. ne \in Instance /\ ne.pc = "stamp" /\ ne.p = r /\ ne.then = node[n].then
  BY <1>1, <1>5 DEF Instance, Keeps, Steps
<1>. HIDE DEF ne
<1>7. Becomes(n, ne) /\ Local(n, ne, lock', hdr', recs')
  BY <1>1, <1>2, <1>3, <1>5, <1>6 DEF Becomes, Local, sub
<1>8. /\ LocalInv' /\ node' \in [Nodes -> Instance]
      /\ lock' \in Nodes \union {Nobody}
      /\ node'[n] = ne /\ \A k \in Nodes \ {n} : node'[k] = node[k]
  BY <1>6, <1>7, BecomesLocal
<1>9. /\ gat \in [Sections -> Gat]
      /\ text \in [Sections -> [Sectors -> Messages \union {NoText}]]
  BY DEF Inv, TypeOK
<1>10. h \in [Sections -> Gat]
  BY <1>4, <1>9, LinkType
<1>11. u \in [Sections -> [Sectors -> Messages \union {NoText}]]
  BY <1>4, <1>9 DEF Written
<1>12. TypeOK'
  BY <1>2, <1>8, <1>10, <1>11 DEF Inv, TypeOK, sub
<1>13. Records' /\ (~Hasty => Distinct')
  BY <1>2, <1>5, <1>6, <1>8 DEF Inv, Records, Distinct, Holds, sub
<1>14. ASSUME NEW q \in Record, Own(gat, text, q) PROVE Own(h, u, q)
  BY <1>4, <1>9, <1>14, SaveKeepsText
<1>15. Own(h, u, r)
  BY <1>4, <1>5, <1>9, SaveMakesText
<1>16. \A i : Removed(i) => Removed(i)'
  BY <1>2, <1>8 DEF Removed, Inv, TypeOK
<1>. HIDE DEF h, u
<1>17. ~Hasty => Texts'
  <2>. SUFFICES ASSUME ~Hasty PROVE Texts'
    OBVIOUS
  <2>1. \A i \in 1 .. hdr : ~Removed(i)' => Own(h, u, recs[i])
    BY <1>14, <1>16 DEF Inv, Records, Texts
  <2>2. ASSUME NEW k \in Nodes, Holds(k)' PROVE Own(h, u, node'[k].p)
    <3>1. CASE k = n
      BY <1>6, <1>8, <1>15, <3>1
    <3>2. CASE k # n
      <4>1. node'[k].p = node[k].p /\ Holds(k)
        BY <1>8, <2>2, <3>2 DEF Holds
      <4>2. QED
        BY <1>14, <4>1, InvFacts DEF Inv, Texts
    <3>3. QED
      BY <3>1, <3>2
  <2>3. QED
    BY <1>2, <2>1, <2>2 DEF Texts, sub
<1>18. QED
  BY <1>8, <1>12, <1>13, <1>17 DEF Inv

\* add_post: the record in hand becomes the last record.
LEMMA AddKeepsInv ==
    ASSUME Inv, NEW n \in Nodes, Add(n)
    PROVE  Inv'
<1>. DEFINE ne == Added(node[n], hdr + 1)
            p == node[n].p
<1>1. /\ node[n] \in Instance /\ Local(n, node[n], lock, hdr, recs) /\ Nobody # n
      /\ hdr \in 0 .. MaxPosts
  BY TypeFacts DEF FileType
<1>2. /\ node[n].pc = "add" /\ CanWrite(n) /\ hdr < MaxPosts /\ hdr' = hdr + 1
      /\ recs' = [recs EXCEPT ![hdr + 1] = p] /\ lock' = Nobody
      /\ UNCHANGED <<exists, dat, written>> /\ changed' \in SUBSET Nodes
      /\ node' = [node EXCEPT ![n] = ne]
  BY DEF Add, ReadsStatus, Inv, TypeOK
<1>3. p \in Record /\ Holds(n) /\ node[n].then # "add"
  BY <1>1, <1>2, RecordAssumption DEF Local, Holds
<1>4. hdr + 1 \in 0 .. MaxPosts /\ hdr + 1 \in Slots /\ 0 \in 0 .. 3
  BY <1>1, <1>2, SlotsFacts
<1>5. ne \in Instance /\ ne.pc = "idle" /\ ne.p = NoRecord /\ ne.then # "add"
  <2>. DEFINE f == Forget(node[n])
  <2>1. f \in Instance /\ Keeps(node[n], f)
    BY <1>1, ForgetType
  <2>2. ne = [f EXCEPT !.pc = "idle", !.nummsgs = hdr + 1, !.subchg = 0,
                       !.p = NoRecord]
    BY DEF Added
  <2>. HIDE DEF f
  <2>3. QED
    BY <1>3, <1>4, <2>1, <2>2 DEF Instance, Keeps, Steps
<1>. HIDE DEF ne
<1>6. Becomes(n, ne)
  BY <1>2 DEF Becomes
<1>6a. Local(n, ne, lock', hdr', recs')
  BY <1>1, <1>2, <1>5 DEF Local
<1>7. /\ LocalInv' /\ node' \in [Nodes -> Instance]
      /\ lock' \in Nodes \union {Nobody}
      /\ node'[n] = ne /\ \A k \in Nodes \ {n} : node'[k] = node[k]
  BY <1>5, <1>6, <1>6a, BecomesLocal
<1>8. recs \in [Slots -> Record \union {NoRecord}]
  BY DEF Inv, TypeOK
<1>9. TypeOK'
  BY <1>2, <1>3, <1>4, <1>7, <1>8 DEF Inv, TypeOK, dat
<1>10. \A k \in Nodes : Holds(k)' => k # n /\ Holds(k) /\ node'[k].p = node[k].p
  BY <1>5, <1>7 DEF Holds
<1>11. /\ recs'[hdr + 1] = p
       /\ \A i \in 1 .. hdr' :
             i = hdr + 1 \/ (i \in 1 .. hdr /\ recs'[i] = recs[i])
  BY <1>1, <1>2, <1>4, <1>8, SlotsFacts
<1>12. Records' /\ (~Hasty => Distinct)
  BY <1>3, <1>11 DEF Inv, Records
<1>13. ~Hasty => Distinct'
  <2>. SUFFICES ASSUME ~Hasty PROVE Distinct'
    OBVIOUS
  <2>1. p.msg \in written /\ \A i \in 1 .. hdr : recs[i].msg # p.msg
    BY <1>3, <1>12 DEF Distinct
  <2>2. \A i \in 1 .. hdr' : recs'[i].msg \in written
    BY <1>3, <1>11, <1>12, <2>1 DEF Distinct
  <2>3. \A i, j \in 1 .. hdr' : recs'[i].msg = recs'[j].msg => i = j
    BY <1>11, <1>12, <2>1 DEF Distinct
  <2>4. ASSUME NEW k \in Nodes, Holds(k)'
        PROVE  /\ node'[k].p.msg \in written
               /\ \A i \in 1 .. hdr' : recs'[i].msg # node'[k].p.msg
    BY <1>3, <1>10, <1>11, <1>12, <2>4 DEF Distinct
  <2>5. \A j, k \in Nodes :
          Holds(j)' /\ Holds(k)' /\ node'[j].p.msg = node'[k].p.msg => j = k
    BY <1>10, <1>12 DEF Distinct
  <2>6. QED
    BY <1>2, <2>2, <2>3, <2>4, <2>5 DEF Distinct
<1>14. ~Hasty => Own(gat, text, p)
  BY <1>3 DEF Inv, Texts
<1>15. ~Hasty => \A i \in 1 .. hdr : Own(gat, text, recs[i])
  BY <1>2, InvFacts
<1>16. ~Hasty => \A i \in 1 .. hdr' : Own(gat, text, recs'[i])
  BY <1>11, <1>14, <1>15
<1>17. ~Hasty => Texts'
  BY <1>2, <1>10, <1>16 DEF Inv, Texts, dat
<1>18. QED
  BY <1>7, <1>9, <1>12, <1>13, <1>17 DEF Inv

\* remove_link frees the sectors of the record that delete() takes away.
LEMMA DeleteTextKeepsInv ==
    ASSUME Inv, NEW n \in Nodes, DeleteText(n)
    PROVE  Inv'
<1>. DEFINE mn == node[n].mn
            f == Noted(n, Opened(n))
            nd == GetPost(f, mn)
            at == Cached(nd, mn).at
            ne == [nd EXCEPT !.pc = "shift", !.close_file = (lock # n)]
            q == recs[mn]
            h == [gat EXCEPT ![q.at.section] = Unlink(@, q.at.sector)]
<1>1. /\ node[n] \in Instance /\ FileType /\ Local(n, node[n], lock, hdr, recs)
      /\ Nobody # n
  BY TypeFacts
<1>2. /\ node[n].pc = "delete" /\ CanWrite(n) /\ mn \in 1 .. f.nummsgs
      /\ gat' = [gat EXCEPT ![at.section] = Unlink(@, at.sector)] /\ lock' = n
      /\ UNCHANGED <<sub, text, written>> /\ changed' \in SUBSET Nodes
      /\ node' = [node EXCEPT ![n] = ne]
  BY DEF DeleteText, Counts, Inv, TypeOK
<1>3. /\ f \in Instance /\ Keeps(node[n], f) /\ f.nummsgs = hdr
      /\ Fresh(f, recs)
  BY <1>2, OpenedType
<1>. HIDE DEF f
<1>4. mn \in 1 .. hdr /\ mn \in Slots
  BY <1>1, <1>2, <1>3, SlotsFacts DEF FileType
<1>5. nd \in Instance /\ Keeps(f, nd)
  BY <1>1, <1>3, <1>4, GetPostType
<1>6. Cached(nd, mn) = q /\ nd.nummsgs = hdr /\ Fresh(nd, recs)
  BY <1>1, <1>3, <1>4, FreshPost
<1>. HIDE DEF nd
<1>7. q \in Record /\ gat' = h
  BY <1>2, <1>4, <1>6 DEF Inv, Records
<1>8. /\ ne \in Instance /\ ne.pc = "shift" /\ ne.p = nd.p /\ ne.then = nd.then
      /\ ne.mn = nd.mn /\ ne.nummsgs = hdr /\ Fresh(ne, recs)
  BY <1>5, <1>6 DEF Instance, Steps, Fresh
<1>. HIDE DEF ne
<1>9. ne.p = node[n].p /\ ne.then = node[n].then /\ ne.mn = mn
  BY <1>3, <1>5, <1>8 DEF Keeps
<1>10. Becomes(n, ne)
  BY <1>2 DEF Becomes
<1>11. Local(n, ne, lock', hdr', recs')
  BY <1>1, <1>2, <1>4, <1>8, <1>9 DEF Local, sub
<1>12. /\ LocalInv' /\ node' \in [Nodes -> Instance]
       /\ lock' \in Nodes \union {Nobody}
       /\ node'[n] = ne /\ \A k \in Nodes \ {n} : node'[k] = node[k]
  BY <1>8, <1>10, <1>11, BecomesLocal
<1>13. h \in [Sections -> Gat]
  <2>1. gat \in [Sections -> Gat] /\ q.at.section \in Sections
    BY <1>7 DEF Inv, TypeOK, Record, Address
  <2>2. Unlink(gat[q.at.section], q.at.sector) \in Gat
    BY <2>1, UnlinkType
  <2>3. QED
    BY <2>1, <2>2
<1>14. TypeOK'
  BY <1>2, <1>7, <1>12, <1>13 DEF Inv, TypeOK, sub
<1>15. \A k \in Nodes : node'[k].p = node[k].p
  BY <1>9, <1>12
<1>16. Records' /\ (~Hasty => Distinct')
  BY <1>2, <1>15 DEF Inv, Records, Distinct, Holds, sub
<1>17. \A i : i = mn => Removed(i)'
  BY <1>1, <1>2, <1>8, <1>9, <1>12 DEF Removed
<1>18. (~Hasty => Own(gat, text, q)) /\ gat \in [Sections -> Gat]
  BY <1>2, <1>4, InvFacts DEF Inv, TypeOK
<1>19. ASSUME ~Hasty, NEW r \in Record, r.msg # q.msg, Own(gat, text, r)
       PROVE  Own(h, text, r)
  BY <1>7, <1>18, <1>19, UnlinkKeepsText
<1>. HIDE DEF h
<1>20. ~Hasty => \A i \in 1 .. hdr : ~Removed(i)' => Own(h, text, recs[i])
  <2>1. ASSUME ~Hasty, NEW i \in 1 .. hdr, i # mn PROVE Own(h, text, recs[i])
    <3>1. recs[i] \in Record /\ recs[i].msg # q.msg
      BY <1>4, <2>1 DEF Inv, Records, Distinct
    <3>2. Own(gat, text, recs[i])
      BY <1>2, <2>1, InvFacts
    <3>3. QED
      BY <1>19, <2>1, <3>1, <3>2
  <2>2. QED
    BY <1>17, <2>1
<1>21. ~Hasty => \A k \in Nodes : Holds(k)' => Own(h, text, node'[k].p)
  <2>1. ASSUME ~Hasty, NEW k \in Nodes, Holds(k) PROVE Own(h, text, node[k].p)
    <3>1. node[k].p \in Record /\ Own(gat, text, node[k].p)
      BY <2>1, InvFacts DEF Inv, Texts
    <3>2. node[k].p.msg # q.msg
      BY <1>4, <2>1 DEF Inv, Distinct
    <3>3. QED
      BY <1>19, <2>1, <3>1, <3>2
  <2>2. QED
    BY <1>15, <2>1 DEF Holds
<1>22. ~Hasty => Texts'
  BY <1>2, <1>7, <1>20, <1>21 DEF Texts, sub
<1>23. QED
  BY <1>12, <1>14, <1>16, <1>22 DEF Inv

\* delete() takes the record away whose text it freed, and no other.
LEMMA ShiftKeepsInv ==
    ASSUME Inv, NEW n \in Nodes, Shift(n)
    PROVE  Inv'
<1>. DEFINE mn == node[n].mn
            f == Forget(node[n])
            g == [f EXCEPT !.nummsgs = hdr - 1]
            ne == Returned(g)
            from(i) == IF i < mn THEN i ELSE i + 1
<1>1. /\ node[n] \in Instance /\ Local(n, node[n], lock, hdr, recs) /\ Nobody # n
      /\ hdr \in 0 .. MaxPosts /\ recs \in [Slots -> Record \union {NoRecord}]
  BY TypeFacts DEF FileType
<1>2. /\ node[n].pc = "shift" /\ hdr' = hdr - 1 /\ lock' = LockAfter(n)
      /\ recs' = [i \in Slots |->
                    IF i \in mn .. node[n].nummsgs - 1 THEN recs[i + 1] ELSE recs[i]]
      /\ UNCHANGED <<exists, dat, changed, written>>
      /\ node' = [node EXCEPT ![n] = ne]
  BY DEF Shift, Inv, TypeOK
<1>3. lock = n /\ mn \in 1 .. hdr /\ node[n].nummsgs = hdr
  BY <1>1, <1>2 DEF Local
<1>4. hdr - 1 \in 0 .. MaxPosts
  BY <1>1, <1>3, SlotsFacts
<1>5. f \in Instance /\ Keeps(node[n], f) /\ ~f.believe_cache
  BY <1>1, ForgetType
<1>. HIDE DEF f
<1>6. /\ g \in Instance /\ g.p = node[n].p /\ g.then = node[n].then
      /\ g.nummsgs = hdr - 1 /\ \A rs : Fresh(g, rs)
  BY <1>4, <1>5 DEF Instance, Keeps, Fresh
<1>. HIDE DEF g
<1>7. /\ ne \in Instance /\ ne.pc = IF node[n].then = "add" THEN "add" ELSE "idle"
      /\ ne.p = node[n].p /\ ne.then = "close" /\ ne.nummsgs = hdr - 1
      /\ Fresh(ne, recs')
  BY <1>6, ReturnedType
<1>. HIDE DEF ne
<1>8. Becomes(n, ne)
  BY <1>2, <1>3 DEF Becomes, CanWrite, LockAfter
<1>9. Local(n, ne, lock', hdr', recs')
  BY <1>1, <1>2, <1>7 DEF Local, LockAfter
<1>10. /\ LocalInv' /\ node' \in [Nodes -> Instance]
       /\ lock' \in Nodes \union {Nobody}
       /\ node'[n] = ne /\ \A k \in Nodes \ {n} : node'[k] = node[k]
  BY <1>7, <1>8, <1>9, BecomesLocal
<1>. HIDE DEF mn
<1>11. recs' \in [Slots -> Record \union {NoRecord}]
  <2>1. \A i \in mn .. hdr - 1 : i + 1 \in Slots
    BY <1>1, <1>3, SlotsFacts
  <2>2. QED
    BY <1>1, <1>2, <1>3, <2>1
<1>12. TypeOK'
  BY <1>2, <1>4, <1>10, <1>11 DEF Inv, TypeOK, dat
<1>13. \A i \in 1 .. hdr' : /\ from(i) \in 1 .. hdr /\ from(i) # mn
                            /\ recs'[i] = recs[from(i)]
  BY <1>1, <1>2, <1>3, SlotsFacts
<1>14. \A i, j \in 1 .. hdr' : from(i) = from(j) => i = j
  BY <1>1, <1>2, <1>3
<1>. HIDE DEF from
<1>15. \A k \in Nodes : node'[k].p = node[k].p
  BY <1>7, <1>10
<1>15a. Records'
  BY <1>13 DEF Inv, Records
<1>16. ~Hasty => Distinct'
  <2>. SUFFICES ASSUME ~Hasty PROVE Distinct'
    OBVIOUS
  <2>1. Distinct /\ written' = written
    BY <1>2 DEF Inv
  <2>2. \A i \in 1 .. hdr' : recs'[i].msg \in written
    BY <1>13, <2>1 DEF Distinct
  <2>3. \A i, j \in 1 .. hdr' : recs'[i].msg = recs'[j].msg => i = j
    <3>1. ASSUME NEW i \in 1 .. hdr', NEW j \in 1 .. hdr',
                 recs'[i].msg = recs'[j].msg
          PROVE  from(i) = from(j)
      BY <1>13, <2>1, <3>1 DEF Distinct
    <3>2. QED
      BY <1>14, <3>1
  <2>4. ASSUME NEW k \in Nodes, Holds(k)'
        PROVE  /\ node'[k].p.msg \in written
               /\ \A i \in 1 .. hdr' : recs'[i].msg # node'[k].p.msg
    <3>1. Holds(k) /\ node'[k].p = node[k].p
      BY <1>15, <2>4 DEF Holds
    <3>2. QED
      BY <1>13, <2>1, <3>1 DEF Distinct
  <2>5. \A j, k \in Nodes :
          Holds(j)' /\ Holds(k)' /\ node'[j].p.msg = node'[k].p.msg => j = k
    BY <1>15, <2>1 DEF Distinct, Holds
  <2>6. QED
    BY <2>1, <2>2, <2>3, <2>4, <2>5 DEF Distinct
<1>17. \A i \in 1 .. hdr : i # mn => ~Removed(i)
  BY <1>3 DEF Removed, mn
<1>18. ~Hasty => Texts'
  BY <1>2, <1>13, <1>15, <1>17 DEF Inv, Texts, Holds, dat
<1>19. QED
  BY <1>10, <1>12, <1>15a, <1>16, <1>18 DEF Inv

---------------------------------------------------------------------------

LEMMA InitInv == Init => Inv
<1>. SUFFICES ASSUME Init PROVE Inv
  OBVIOUS
<1>1. /\ 0 \in 0 .. MaxPosts /\ 1 \in Slots /\ 0 \in 0 .. 3
  BY SlotsFacts
<1>. DEFINE c == [k \in 0 .. CacheSize - 1 |-> NoRecord]
            nd == [pc |-> "idle", curlsub |-> FALSE, nummsgs |-> 0, subchg |-> 0,
                   believe_cache |-> FALSE, cache_start |-> 1, cache |-> c,
                   last_msgnum |-> 0, p |-> NoRecord, mn |-> 0, then |-> "close",
                   close_file |-> FALSE]
<1>2. c \in [0 .. CacheSize - 1 -> Record \union {NoRecord}]
  OBVIOUS
<1>3. node = [n \in Nodes |-> nd]
  BY DEF Init
<1>. HIDE DEF c
<1>4. nd \in Instance /\ nd.pc = "idle" /\ nd.p = NoRecord /\ nd.then = "close"
  BY <1>1, <1>2 DEF Instance, Steps
<1>. HIDE DEF nd
<1>5. EmptyGat \in Gat
  BY DEF EmptyGat, Gat
<1>6. TypeOK
  BY <1>1, <1>3, <1>4, <1>5 DEF Init, TypeOK
<1>7. LocalInv
  BY <1>3, <1>4, BoardAssumption DEF Init, LocalInv, Local
<1>8. 1 .. 0 = {}
  OBVIOUS
<1>9. Records /\ Distinct /\ Texts
  BY <1>3, <1>4, <1>8 DEF Init, Records, Distinct, Texts, Holds
<1>10. QED
  BY <1>6, <1>7, <1>9 DEF Inv

LEMMA StutterKeepsInv ==
    ASSUME Inv, UNCHANGED vars
    PROVE  Inv'
BY DEF vars, Inv, TypeOK, LocalInv, Records, Distinct, Holds, Texts, Removed

LEMMA NextKeepsInv ==
    ASSUME Inv, [Next]_vars
    PROVE  Inv'
<1>1. CASE UNCHANGED vars
  BY <1>1, StutterKeepsInv
<1>2. ASSUME NEW n \in Nodes, Work(n) PROVE Inv'
  BY <1>2, CreateKeepsInv, SmallStepsKeepInv, StampKeepsInv, PostOpensKeepsInv,
     TrimKeepsInv, AddKeepsInv, ResynchKeepsInv, FindPostKeepsInv,
     DeleteTextKeepsInv, DeleteNothingKeepsInv, ShiftKeepsInv
     DEF Work
<1>3. ASSUME NEW n \in Nodes, Begin(n) PROVE Inv'
  BY <1>3, SelectKeepsInv, ReadStatusKeepsInv, GetKeepsInv,
     ToggleNoDeleteKeepsInv, ToggleFailsKeepsInv, StartDeleteKeepsInv,
     SaveKeepsInv
     DEF Begin
<1>4. QED
  BY <1>1, <1>2, <1>3 DEF Next

LEMMA SpecInv == Spec => []Inv
BY InitInv, NextKeepsInv, PTL DEF Spec

(* SUBACC.C and MSGBASE.C keep their variables in their ranges: the cache   *)
(* is never read past its ends and never starts outside the file, and the   *)
(* number of posts an instance remembers is one the file can have.          *)
THEOREM SubBoardTypeCorrect == Spec => []TypeOK
<1>1. Inv => TypeOK
  BY DEF Inv
<1>2. QED
  BY <1>1, SpecInv, PTL

(* Whatever the other instances do, delete() and write_post() work on what  *)
(* is in the .SUB: an instance that has it open for writing knows the       *)
(* number of posts, and its cache is what is in the file.                   *)
THEOREM WriterIsCurrent == Spec => []WriterSeesFile
<1>1. Inv => WriterSeesFile
  BY DEF Inv, LocalInv, Local, WriterSeesFile
<1>2. QED
  BY <1>1, SpecInv, PTL

(* However many instances post, delete, trim and mark at the same time, and *)
(* even when some give up waiting for the .SUB to post or to delete, a post *)
(* on the board, and one that is about to be, has its own text (savefile,   *)
(* remove_link, delete, write_post, add_post).  An instance that gives up   *)
(* to select the sub is excluded: iscan1 then writes over the first post.   *)
THEOREM PostsKeepTheirTexts == ~Hasty => (Spec => []TextIsOwn)
<1>1. SUFFICES ASSUME ~Hasty PROVE Spec => []TextIsOwn
  OBVIOUS
<1>2. Inv => TextIsOwn
  BY <1>1, InvIsTextIsOwn
<1>3. QED
  BY <1>2, SpecInv, PTL

---------------------------------------------------------------------------
(* Whoever does not know of a removed text will hear of it.  While another *)
(* instance is between remove_link and the removal of the record, n must   *)
(* have its cache from before and be told, by the counters or by subchg;   *)
(* otherwise it may also know: its posts are in the file, and what it has  *)
(* cached are records with their texts.                                    *)

\* What nd believes of its cache are records with their texts.
CachedTexts(nd, g, t) ==
    nd.believe_cache =>
        \A k \in 0 .. CacheSize - 1 :
            nd.cache_start + k \in 1 .. nd.nummsgs =>
                nd.cache[k] \in Record /\ Own(g, t, nd.cache[k])

\* Instance n, which is nd, when c is changed, the .SUB has h posts, and busy
\* says whether another instance is removing one.
Informed(n, nd, c, h, g, t, busy) ==
    /\ nd.subchg = 2 => ~nd.believe_cache
    /\ \/ n \in c
       \/ nd.subchg \in {1, 2}
       \/ ~busy /\ nd.nummsgs <= h /\ CachedTexts(nd, g, t)

Removing(n) == lock \notin {n, Nobody} /\ node[lock].pc = "shift"

InformedInv ==
    \A n \in Nodes : node[n].pc # "shift" =>
        Informed(n, node[n], changed, hdr, gat, text, Removing(n))

\* What Informed looks at.
SameBelief(nd, ne) ==
    /\ ne.subchg = nd.subchg /\ ne.believe_cache = nd.believe_cache
    /\ ne.nummsgs = nd.nummsgs /\ ne.cache_start = nd.cache_start
    /\ ne.cache = nd.cache

LEMMA SameBeliefInforms ==
    ASSUME NEW n, NEW nd, NEW ne, SameBelief(nd, ne),
           NEW c, NEW h, NEW g, NEW t, NEW busy, Informed(n, nd, c, h, g, t, busy)
    PROVE  Informed(n, ne, c, h, g, t, busy)
BY DEF SameBelief, Informed, CachedTexts

\* get_status tells an instance that was to be told.
LEMMA NotedInforms ==
    ASSUME NEW n, NEW nd \in Instance, NEW h, NEW g, NEW t, NEW busy,
           Informed(n, nd, changed, h, g, t, busy)
    PROVE  \A c : Informed(n, Noted(n, nd), c, h, g, t, busy)
<1>1. CASE n \in changed
  <2>1. Noted(n, nd).subchg = 1
    BY <1>1 DEF Noted, Instance
  <2>2. QED
    BY <2>1 DEF Informed
<1>2. CASE n \notin changed
  BY <1>2 DEF Noted, Informed
<1>3. QED
  BY <1>1, <1>2

LEMMA InvalidateInforms ==
    ASSUME NEW n, NEW nd \in Instance, NEW c, NEW h, NEW g, NEW t, NEW busy,
           Informed(n, nd, c, h, g, t, busy)
    PROVE  /\ Informed(n, Invalidate(nd), c, h, g, t, busy)
           /\ Invalidate(nd).subchg # 1
<1>1. CASE nd.subchg = 1
  <2>. DEFINE f == Forget(nd)
  <2>1. f \in Instance /\ ~f.believe_cache
    BY ForgetType
  <2>2. Invalidate(nd) = [f EXCEPT !.subchg = 2]
    BY <1>1 DEF Invalidate
  <2>. HIDE DEF f
  <2>3. Invalidate(nd).subchg = 2 /\ ~Invalidate(nd).believe_cache
    BY <2>1, <2>2 DEF Instance
  <2>4. QED
    BY <2>3 DEF Informed
<1>2. CASE nd.subchg # 1
  BY <1>2 DEF Invalidate
<1>3. QED
  BY <1>1, <1>2

\* Every record of the file has its text.
FileTexts == \A i \in 1 .. hdr : recs[i] \in Record /\ Own(gat, text, recs[i])

LEMMA RecountInforms ==
    ASSUME NEW n, NEW nd \in Instance, FileType, NEW c,
           Informed(n, nd, c, hdr, gat, text, FALSE), nd.subchg # 1
    PROVE  /\ Recount(nd).subchg \notin {1, 2}
           /\ n \in c \/ Recount(nd).nummsgs <= hdr
<1>1. CASE nd.subchg = 2
  <2>1. Recount(nd) = [nd EXCEPT !.nummsgs = hdr, !.subchg = 3]
    BY <1>1 DEF Recount
  <2>2. Recount(nd).subchg = 3 /\ Recount(nd).nummsgs = hdr
    BY <2>1 DEF Instance
  <2>3. QED
    BY <2>2 DEF FileType
<1>2. CASE nd.subchg # 2
  BY <1>2 DEF Recount, Informed
<1>3. QED
  BY <1>1, <1>2

\* What is cached from a file with all texts are records with their texts.
LEMMA FillInforms ==
    ASSUME NEW n, NEW nd \in Instance, FileType, FileTexts, NEW c,
           nd.subchg \notin {1, 2}, n \in c \/ nd.nummsgs <= hdr, NEW start \in Slots
    PROVE  Informed(n, Fill(nd, start), c, hdr, gat, text, FALSE)
<1>. DEFINE ne == Fill(nd, start)
<1>1. /\ ne \in Instance /\ ne.nummsgs = nd.nummsgs /\ ne.cache_start = start
      /\ Fresh(ne, recs) /\ ne.believe_cache
  BY FillType
<1>2. ne.subchg = nd.subchg
  BY DEF Fill, Instance
<1>. HIDE DEF ne
<1>3. ASSUME nd.nummsgs <= hdr PROVE CachedTexts(ne, gat, text)
  <2>1. nd.nummsgs \in 0 .. MaxPosts /\ hdr \in 0 .. MaxPosts
    BY DEF Instance, FileType
  <2>2. ASSUME NEW k \in 0 .. CacheSize - 1, ne.cache_start + k \in 1 .. ne.nummsgs
        PROVE  ne.cache[k] \in Record /\ Own(gat, text, ne.cache[k])
    <3>1. ne.cache_start + k \in 1 .. hdr
      BY <1>1, <1>3, <2>1, <2>2
    <3>2. ne.cache[k] = recs[ne.cache_start + k]
      BY <1>1, <2>2 DEF Fresh
    <3>3. QED
      BY <3>1, <3>2 DEF FileTexts
  <2>3. QED
    BY <2>2 DEF CachedTexts
<1>4. Informed(n, ne, c, hdr, gat, text, FALSE)
  BY <1>1, <1>2, <1>3 DEF Informed
<1>5. QED
  BY <1>4 DEF ne

LEMMA FoundBelief ==
    ASSUME NEW nd \in Instance, NEW k
    PROVE  SameBelief(nd, Found(nd, k))
BY DEF Found, Instance, SameBelief

\* get_post leaves an instance as informed as it was, or better.
LEMMA LooksInforms ==
    ASSUME NEW n, NEW nd \in Instance, FileType, NEW mn \in Slots, NEW c,
           NEW busy \in BOOLEAN, CanWrite(n) => FileTexts /\ ~busy,
           Informed(n, nd, c, hdr, gat, text, busy)
    PROVE  Informed(n, Looks(n, nd, mn), c, hdr, gat, text, busy)
<1>. DEFINE a == Invalidate(nd)
            k == Adjusted(a, mn)
            b == Recount(a)
            e == Fill(b, CacheStart(b, k))
<1>1. /\ a \in Instance /\ Informed(n, a, c, hdr, gat, text, busy)
      /\ a.subchg # 1
  BY InvalidateType, InvalidateInforms
<1>2. GetPost(nd, mn) = IF InCache(a, mn) THEN Found(a, mn) ELSE Found(e, k)
  BY DEF GetPost, a, b, e, k
<1>3. CASE ~Finds(n, nd, mn)
  BY <1>1, <1>3 DEF Looks
<1>4. CASE InCache(a, mn)
  <2>1. Looks(n, nd, mn) = Found(a, mn)
    BY <1>2, <1>4 DEF Looks, Finds
  <2>. HIDE DEF a
  <2>2. QED
    BY <1>1, <2>1, FoundBelief, SameBeliefInforms
<1>5. CASE CanWrite(n) /\ ~InCache(a, mn)
  <2>1. Looks(n, nd, mn) = Found(e, k)
    BY <1>2, <1>5 DEF Looks, Finds
  <2>2. FileTexts /\ busy = FALSE
    BY <1>5
  <2>3. k \in 0 .. MaxPosts /\ (k = 0 => b.nummsgs = 0)
    <3>1. hdr \in 0 .. MaxPosts /\ mn \in 0 .. MaxPosts /\ mn # 0
      BY SlotsFacts DEF FileType
    <3>2. a.subchg = 2 => b.nummsgs = hdr
      BY <1>1, RecountType
    <3>. HIDE DEF a, b
    <3>3. QED
      BY <3>1, <3>2 DEF Adjusted
  <2>. HIDE DEF a, k
  <2>4. /\ b \in Instance /\ b.subchg \notin {1, 2}
        /\ n \in c \/ b.nummsgs <= hdr
    BY <1>1, <2>2, RecountType, RecountInforms
  <2>. HIDE DEF b
  <2>5. CacheStart(b, k) \in Slots
    BY <2>3, <2>4, CacheStartType
  <2>6. e \in Instance /\ Informed(n, e, c, hdr, gat, text, FALSE)
    BY <2>2, <2>4, <2>5, FillType, FillInforms
  <2>. HIDE DEF e
  <2>7. QED
    <3>1. Informed(n, Found(e, k), c, hdr, gat, text, FALSE)
      BY <2>6, FoundBelief, SameBeliefInforms
    <3>2. Informed(n, Found(e, k), c, hdr, gat, text, busy)
      BY <2>2, <3>1
    <3>3. QED
      BY <2>1, <3>2
<1>6. QED
  BY <1>3, <1>4, <1>5 DEF Finds

\* The first two get_posts of resynch(NULL), which reads the status in between.
LEMMA LookedTwiceInforms ==
    ASSUME NEW n, NEW nd \in Instance, FileType, NEW mn \in Slots,
           NEW busy \in BOOLEAN, CanWrite(n) => FileTexts /\ ~busy,
           Informed(n, nd, changed, hdr, gat, text, busy)
    PROVE  LET c == IF Hits(n, nd, mn) THEN changed \ {n} ELSE changed
           IN  Informed(n, LookedTwice(n, nd, mn), c, hdr, gat, text, busy)
<1>. DEFINE a == Looks(n, nd, mn)
            b == Noted(n, a)
            e == Looks(n, b, mn)
<1>1. a \in Instance /\ Informed(n, a, changed, hdr, gat, text, busy)
  BY LooksType, LooksInforms
<1>2. LookedTwice(n, nd, mn) = IF Hits(n, nd, mn) THEN e ELSE a
  BY DEF LookedTwice, a, b, e
<1>. HIDE DEF a
<1>3. b \in Instance /\ Informed(n, b, changed \ {n}, hdr, gat, text, busy)
  BY <1>1, NotedType, NotedInforms
<1>. HIDE DEF b
<1>4. Informed(n, e, changed \ {n}, hdr, gat, text, busy)
  BY <1>3, LooksInforms
<1>. HIDE DEF e
<1>5. QED
  BY <1>1, <1>2, <1>4

LEMMA ResynchedInforms ==
    ASSUME NEW n, NEW nd \in Instance, FileType, NEW mn \in Slots,
           NEW busy \in BOOLEAN, CanWrite(n) => FileTexts /\ ~busy,
           Informed(n, nd, changed, hdr, gat, text, busy)
    PROVE  LET c == IF Hits(n, nd, mn) THEN changed \ {n} ELSE changed
           IN  Informed(n, Resynched(n, nd, mn), c, hdr, gat, text, busy)
<1>. DEFINE a == LookedTwice(n, nd, mn)
            c == IF Hits(n, nd, mn) THEN changed \ {n} ELSE changed
            i == Lands(n, nd, mn)
<1>1. a \in Instance /\ Informed(n, a, c, hdr, gat, text, busy) /\ i \in Slots
  BY LookedTwiceType, LookedTwiceInforms, LandsType
<1>2. Resynched(n, nd, mn) = Looks(n, a, i)
  BY DEF Resynched, a, i
<1>. HIDE DEF a, c, i
<1>3. Informed(n, Looks(n, a, i), c, hdr, gat, text, busy)
  BY <1>1, LooksInforms
<1>4. QED
  BY <1>2, <1>3 DEF c

\* More posts, more changes and more texts leave an instance informed.
LEMMA InformedStays ==
    ASSUME NEW n, NEW nd \in Instance, NEW c, NEW h \in Nat, NEW g, NEW t, NEW busy,
           Informed(n, nd, c, h, g, t, busy),
           NEW c1, NEW h1 \in Nat, NEW g1, NEW t1, NEW busy1,
           n \in c => n \in c1, h <= h1, busy1 => busy,
           \A r \in Record : Own(g, t, r) => Own(g1, t1, r)
    PROVE  Informed(n, nd, c1, h1, g1, t1, busy1)
<1>1. CachedTexts(nd, g, t) => CachedTexts(nd, g1, t1)
  BY DEF CachedTexts
<1>2. nd.nummsgs \in Nat
  BY SlotsFacts DEF Instance
<1>3. QED
  BY <1>1, <1>2 DEF Informed

\* What holds of an instance that is not removing a post.
LEMMA StepFacts ==
    ASSUME ~Hasty, Inv, InformedInv, NEW n \in Nodes, node[n].pc # "shift"
    PROVE  /\ node[n] \in Instance /\ FileType /\ hdr \in Nat
           /\ Removing(n) \in BOOLEAN
           /\ CanWrite(n) => FileTexts /\ ~Removing(n)
           /\ Informed(n, node[n], changed, hdr, gat, text, Removing(n))
<1>1. node[n] \in Instance /\ FileType /\ hdr \in Nat
  BY TypeFacts, SlotsFacts DEF FileType
<1>2. CanWrite(n) => FileTexts
  BY InvFacts DEF FileTexts, Inv, Records
<1>3. Removing(n) \in BOOLEAN /\ (CanWrite(n) => ~Removing(n))
  BY DEF Removing, CanWrite
<1>4. QED
  BY <1>1, <1>2, <1>3 DEF InformedInv

\* n becomes ne, and takes, keeps or closes the .SUB.
LEMMA InformedStep ==
    ASSUME ~Hasty, Inv, InformedInv, NEW n \in Nodes, NEW ne,
           node' = [node EXCEPT ![n] = ne], node[n].pc # "shift", ne.pc # "shift",
           lock' \in {lock, n, Nobody}, hdr' \in Nat, hdr <= hdr',
           \A k \in changed : k # n => k \in changed',
           \A r \in Record : Own(gat, text, r) => Own(gat', text', r),
           Informed(n, ne, changed', hdr', gat', text', Removing(n))
    PROVE  InformedInv'
<1>1. node'[n] = ne /\ \A k \in Nodes \ {n} : node'[k] = node[k]
  BY DEF Inv, TypeOK
<1>2. ASSUME NEW k \in Nodes, Removing(k)' PROVE Removing(k)
  <2>1. lock' \notin {k, Nobody} /\ node'[lock'].pc = "shift"
    BY <1>2 DEF Removing
  <2>2. lock' # n
    BY <1>1, <2>1
  <2>3. lock' = lock /\ lock \in Nodes \ {n}
    BY <2>1, <2>2 DEF Inv, TypeOK
  <2>4. QED
    BY <1>1, <2>1, <2>3 DEF Removing
<1>3. Informed(n, ne, changed', hdr', gat', text', Removing(n)')
  BY <1>2 DEF Informed
<1>4. ASSUME NEW k \in Nodes \ {n}, node[k].pc # "shift"
      PROVE  Informed(k, node[k], changed', hdr', gat', text', Removing(k)')
  <2>1. /\ node[k] \in Instance /\ hdr \in Nat
        /\ Informed(k, node[k], changed, hdr, gat, text, Removing(k))
    BY <1>4, StepFacts
  <2>2. k \in changed => k \in changed'
    OBVIOUS
  <2>3. QED
    BY <1>2, <2>1, <2>2, InformedStays
<1>5. QED
  BY <1>1, <1>3, <1>4 DEF InformedInv

\* The same when posts and texts stay as they are.
LEMMA InformedGoesOn ==
    ASSUME ~Hasty, Inv, InformedInv, NEW n \in Nodes, NEW ne,
           node' = [node EXCEPT ![n] = ne], node[n].pc # "shift", ne.pc # "shift",
           lock' \in {lock, n, Nobody}, hdr' = hdr, UNCHANGED dat,
           \A k \in changed : k # n => k \in changed',
           NEW nd, SameBelief(nd, ne),
           Informed(n, nd, changed', hdr, gat, text, Removing(n))
    PROVE  InformedInv'
<1>1. Informed(n, ne, changed', hdr', gat', text', Removing(n))
  BY SameBeliefInforms DEF dat
<1>2. /\ \A r \in Record : Own(gat, text, r) => Own(gat', text', r)
      /\ hdr' \in Nat /\ hdr <= hdr'
  BY StepFacts DEF dat
<1>3. QED
  BY <1>1, <1>2, InformedStep

\* The steps with get_post.
LEMMA LooksInformed ==
    ASSUME ~Hasty, Inv, InformedInv, NEW n \in Nodes, node[n].pc # "shift",
           NEW mn \in Slots
    PROVE  LET nd == Looks(n, node[n], mn) IN
           nd \in Instance /\ Keeps(node[n], nd)
           /\ Informed(n, nd, changed, hdr, gat, text, Removing(n))
BY StepFacts, LooksType, LooksInforms

LEMMA GetInformed ==
    ASSUME ~Hasty, Inv, InformedInv, NEW n \in Nodes, NEW mn \in Slots, Get(n, mn)
    PROVE  InformedInv'
<1>. DEFINE ne == Looks(n, node[n], mn)
<1>1. /\ node[n].pc = "idle" /\ node' = [node EXCEPT ![n] = ne]
      /\ UNCHANGED <<sub, lock, dat, changed>>
  BY DEF Get
<1>2. /\ Informed(n, ne, changed, hdr, gat, text, Removing(n))
      /\ ne \in Instance /\ Keeps(node[n], ne)
  BY <1>1, LooksInformed
<1>. HIDE DEF ne
<1>3. SameBelief(ne, ne) /\ ne.pc = "idle"
  BY <1>1, <1>2 DEF SameBelief, Keeps
<1>4. QED
  BY <1>1, <1>2, <1>3, InformedGoesOn DEF sub

LEMMA TrimInformed ==
    ASSUME ~Hasty, Inv, InformedInv, NEW n \in Nodes, Trim(n)
    PROVE  InformedInv'
<1>. DEFINE i == node[n].mn + 1
            nd == Looks(n, node[n], i)
<1>1. node[n].pc = "trim" /\ UNCHANGED <<sub, lock, dat, changed>>
  BY DEF Trim
<1>2. /\ node[n] \in Instance
      /\ Informed(n, node[n], changed, hdr, gat, text, Removing(n))
  BY <1>1, StepFacts
<1>3. ASSUME NEW f \in Instance, NEW ne, node' = [node EXCEPT ![n] = ne],
             Informed(n, f, changed, hdr, gat, text, Removing(n)),
             SameBelief(f, ne), ne.pc # "shift"
      PROVE  InformedInv'
  BY <1>1, <1>3, InformedGoesOn DEF sub
<1>4. ASSUME NEW f \in Instance, NEW k
      PROVE  SameBelief(f, Victim(f, k)) /\ Victim(f, k).pc = "delete"
  BY DEF Instance, Victim, SameBelief
<1>5. CASE node' = [node EXCEPT ![n].pc = "add"]
  <2>. DEFINE ne == [node[n] EXCEPT !.pc = "add"]
  <2>1. SameBelief(node[n], ne) /\ ne.pc = "add" /\ node' = [node EXCEPT ![n] = ne]
    BY <1>2, <1>5 DEF Instance, SameBelief
  <2>. HIDE DEF ne
  <2>2. QED
    BY <1>2, <1>3, <2>1
<1>6. CASE node' = [node EXCEPT ![n] = Victim(node[n], 1)]
  BY <1>2, <1>3, <1>4, <1>6
<1>7. CASE /\ i <= node[n].nummsgs
           /\ node' \in {[node EXCEPT ![n] = Victim(nd, i)],
                         [node EXCEPT ![n] = [nd EXCEPT !.mn = i]]}
  <2>1. i \in Slots
    <3>1. node[n].mn \in 0 .. MaxPosts /\ node[n].nummsgs \in 0 .. MaxPosts
      BY <1>2 DEF Instance
    <3>2. QED
      BY <1>7, <3>1, SlotsFacts
  <2>2. /\ nd \in Instance /\ Keeps(node[n], nd)
        /\ Informed(n, nd, changed, hdr, gat, text, Removing(n))
    BY <1>1, <2>1, LooksInformed
  <2>. HIDE DEF i, nd
  <2>3. CASE node' = [node EXCEPT ![n] = Victim(nd, i)]
    BY <1>3, <1>4, <2>2, <2>3
  <2>4. CASE node' = [node EXCEPT ![n] = [nd EXCEPT !.mn = i]]
    <3>. DEFINE ne == [nd EXCEPT !.mn = i]
    <3>1. SameBelief(nd, ne) /\ ne.pc = "trim"
      BY <1>1, <2>2 DEF Instance, SameBelief, Keeps
    <3>2. node' = [node EXCEPT ![n] = ne]
      BY <2>4
    <3>. HIDE DEF ne
    <3>3. QED
      BY <1>3, <2>2, <3>1, <3>2
  <2>5. QED
    BY <1>7, <2>3, <2>4
<1>8. QED
  BY <1>1, <1>5, <1>6, <1>7, StepFacts DEF Trim

LEMMA FindPostInformed ==
    ASSUME ~Hasty, Inv, InformedInv, NEW n \in Nodes, FindPost(n)
    PROVE  InformedInv'
<1>. DEFINE mn == node[n].mn
            nd == IF mn <= node[n].nummsgs THEN Looks(n, node[n], mn) ELSE node[n]
<1>1. /\ node[n].pc = "find" /\ UNCHANGED <<sub, dat, changed>>
      /\ lock' \in {lock, n, Nobody}
  BY DEF FindPost
<1>2. /\ node[n] \in Instance /\ mn \in Slots
      /\ Informed(n, node[n], changed, hdr, gat, text, Removing(n))
  BY <1>1, TypeFacts, StepFacts DEF Local
<1>3. nd \in Instance /\ Informed(n, nd, changed, hdr, gat, text, Removing(n))
  BY <1>1, <1>2, LooksInformed
<1>. HIDE DEF nd
<1>4. ASSUME NEW ne, node' = [node EXCEPT ![n] = ne], SameBelief(nd, ne), ne.pc # "shift"
      PROVE  InformedInv'
  BY <1>1, <1>3, <1>4, InformedGoesOn DEF sub
<1>5. CASE node' = [node EXCEPT ![n] = [nd EXCEPT !.pc = "delete"]]
  <2>. DEFINE ne == [nd EXCEPT !.pc = "delete"]
  <2>1. SameBelief(nd, ne) /\ ne.pc = "delete" /\ node' = [node EXCEPT ![n] = ne]
    BY <1>3, <1>5 DEF Instance, SameBelief
  <2>. HIDE DEF ne
  <2>2. QED
    BY <1>4, <2>1
<1>6. CASE node' = [node EXCEPT ![n] = [nd EXCEPT !.pc = "idle", !.mn = 0]]
  <2>. DEFINE ne == [nd EXCEPT !.pc = "idle", !.mn = 0]
  <2>1. SameBelief(nd, ne) /\ ne.pc = "idle" /\ node' = [node EXCEPT ![n] = ne]
    BY <1>3, <1>6 DEF Instance, SameBelief
  <2>. HIDE DEF ne
  <2>2. QED
    BY <1>4, <2>1
<1>7. QED
  BY <1>5, <1>6 DEF FindPost, nd

LEMMA ResynchInformed ==
    ASSUME ~Hasty, Inv, InformedInv, NEW n \in Nodes, Resynch(n)
    PROVE  InformedInv'
<1>. DEFINE nd == Resynched(n, node[n], node[n].mn)
<1>1. /\ node[n].pc = "find" /\ UNCHANGED <<sub, lock, dat>>
      /\ changed' = IF Hits(n, node[n], node[n].mn) THEN changed \ {n} ELSE changed
  BY DEF Resynch, ReadsStatusIf
<1>2. node[n] \in Instance /\ node[n].mn \in Slots
  BY <1>1, TypeFacts DEF Local
<1>3. nd \in Instance /\ Informed(n, nd, changed', hdr, gat, text, Removing(n))
  BY <1>1, <1>2, StepFacts, ResynchedType, ResynchedInforms
<1>4. PICK mn : node' = [node EXCEPT ![n] = [nd EXCEPT !.pc = "delete", !.mn = mn]]
  BY DEF Resynch
<1>. HIDE DEF nd
<1>. DEFINE ne == [nd EXCEPT !.pc = "delete", !.mn = mn]
<1>5. SameBelief(nd, ne) /\ ne.pc = "delete"
  BY <1>3 DEF Instance, SameBelief
<1>6. node' = [node EXCEPT ![n] = ne]
  BY <1>4
<1>. HIDE DEF ne
<1>7. QED
  BY <1>1, <1>3, <1>5, <1>6, InformedGoesOn DEF sub

\* When the .SUB stays busy the mark changes in the cache only.
LEMMA ToggleFailsInformed ==
    ASSUME ~Hasty, Inv, InformedInv, NEW n \in Nodes, NEW mn \in Slots, ToggleFails(n, mn)
    PROVE  InformedInv'
<1>. DEFINE nd == LookedTwice(n, node[n], mn)
            k == mn - nd.cache_start
            ne == [nd EXCEPT !.cache[k] = Toggled(@)]
<1>1. /\ node[n].pc = "idle" /\ UNCHANGED <<sub, lock, dat>>
      /\ changed' = IF Hits(n, node[n], mn) THEN changed \ {n} ELSE changed
  BY DEF ToggleFails, ReadsStatusIf
<1>2. /\ nd \in Instance /\ Informed(n, nd, changed', hdr, gat, text, Removing(n))
      /\ nd.pc = "idle"
  <2>1. /\ node[n] \in Instance /\ FileType /\ Removing(n) \in BOOLEAN
        /\ CanWrite(n) => FileTexts /\ ~Removing(n)
        /\ Informed(n, node[n], changed, hdr, gat, text, Removing(n))
    BY <1>1, StepFacts
  <2>2. nd \in Instance /\ Keeps(node[n], nd)
    BY <2>1, LookedTwiceType
  <2>3. Informed(n, nd, changed', hdr, gat, text, Removing(n))
    BY <1>1, <2>1, LookedTwiceInforms
  <2>. HIDE DEF nd
  <2>4. QED
    BY <1>1, <2>2, <2>3 DEF Keeps
<1>3. \/ node' = [node EXCEPT ![n] = nd]
      \/ InCache(nd, mn) /\ nd.cache[k] # NoRecord /\ node' = [node EXCEPT ![n] = ne]
  BY DEF ToggleFails, Cached
<1>. HIDE DEF nd
<1>4. ASSUME NEW f, node' = [node EXCEPT ![n] = f], f.pc = "idle",
             Informed(n, f, changed', hdr, gat, text, Removing(n))
      PROVE  InformedInv'
  BY <1>1, <1>4, InformedGoesOn DEF sub, SameBelief
<1>5. ASSUME InCache(nd, mn), nd.cache[k] # NoRecord
      PROVE  ne.pc = "idle" /\ Informed(n, ne, changed', hdr, gat, text, Removing(n))
  <2>1. k \in 0 .. CacheSize - 1
    BY <1>2, <1>5, SlotsFacts DEF InCache, Instance
  <2>. DEFINE q == Toggled(nd.cache[k])
  <2>2. nd.cache[k] \in Record
    BY <1>2, <1>5, <2>1 DEF Instance
  <2>3. q \in Record /\ q.msg = nd.cache[k].msg /\ q.at = nd.cache[k].at
    BY <2>2 DEF Toggled, Record
  <2>. HIDE DEF k, q
  <2>4. /\ ne.subchg = nd.subchg /\ ne.believe_cache = nd.believe_cache /\ ne.pc = nd.pc
        /\ ne.nummsgs = nd.nummsgs /\ ne.cache_start = nd.cache_start
        /\ ne.cache = [nd.cache EXCEPT ![k] = q]
    BY <1>2 DEF Instance, q
  <2>. HIDE DEF ne
  <2>5. Own(gat, text, nd.cache[k]) => Own(gat, text, q)
    BY <2>3 DEF Own
  <2>6. \A j \in 0 .. CacheSize - 1 :
          /\ nd.cache[j] \in Record /\ Own(gat, text, nd.cache[j])
          => ne.cache[j] \in Record /\ Own(gat, text, ne.cache[j])
    BY <1>2, <2>1, <2>3, <2>4, <2>5 DEF Instance
  <2>7. CachedTexts(nd, gat, text) => CachedTexts(ne, gat, text)
    BY <2>4, <2>6 DEF CachedTexts
  <2>8. QED
    BY <1>2, <2>4, <2>7 DEF Informed
<1>6. QED
  BY <1>2, <1>3, <1>4, <1>5

\* An instance that opens the .SUB knows what is in it.
LEMMA OpenSubInforms ==
    ASSUME NEW n, NEW nd \in Instance, FileType, NEW c, NEW g, NEW t
    PROVE  Informed(n, OpenSub(nd), c, hdr, g, t, FALSE)
<1>. DEFINE f == Forget(nd)
            ne == [f EXCEPT !.nummsgs = hdr]
<1>1. f \in Instance /\ ~f.believe_cache
  BY ForgetType
<1>. HIDE DEF f
<1>2. ~ne.believe_cache /\ ne.nummsgs = hdr
  BY <1>1 DEF Instance
<1>. HIDE DEF ne
<1>3. hdr <= hdr
  BY SlotsFacts DEF FileType
<1>4. Informed(n, ne, c, hdr, g, t, FALSE)
  BY <1>2, <1>3 DEF Informed, CachedTexts
<1>5. QED
  BY <1>4 DEF OpenSub, ne, f

\* n, which may write, opens the .SUB and goes on.
LEMMA OpensInformed ==
    ASSUME ~Hasty, Inv, InformedInv, NEW n \in Nodes, node[n].pc # "shift", CanWrite(n),
           UNCHANGED <<sub, dat>>, lock' \in {lock, n, Nobody},
           \A k \in changed : k # n => k \in changed',
           NEW ne, SameBelief(OpenSub(node[n]), ne), ne.pc # "shift",
           node' = [node EXCEPT ![n] = ne]
    PROVE  InformedInv'
<1>1. Removing(n) = FALSE /\ hdr' = hdr
  BY StepFacts DEF sub
<1>2. Informed(n, OpenSub(node[n]), changed', hdr, gat, text, FALSE)
  BY StepFacts, OpenSubInforms
<1>3. Informed(n, OpenSub(node[n]), changed', hdr, gat, text, Removing(n))
  BY <1>1, <1>2
<1>4. QED
  BY <1>1, <1>3, InformedGoesOn

LEMMA PostOpensInformed ==
    ASSUME ~Hasty, Inv, InformedInv, NEW n \in Nodes, PostOpens(n)
    PROVE  InformedInv'
<1>. DEFINE f == OpenSub(node[n])
            ne == [f EXCEPT !.pc = "trim"]
<1>1. /\ node[n].pc = "open" /\ CanWrite(n) /\ lock' = n
      /\ UNCHANGED <<sub, dat, changed>> /\ node' = [node EXCEPT ![n] = ne]
  BY DEF PostOpens, CanWrite
<1>2. f \in Instance
  BY <1>1, StepFacts, OpenSubType
<1>. HIDE DEF f
<1>3. SameBelief(f, ne) /\ ne.pc = "trim"
  BY <1>2 DEF Instance, SameBelief
<1>. HIDE DEF ne
<1>4. QED
  BY <1>1, <1>3, OpensInformed DEF f

LEMMA StartDeleteInformed ==
    ASSUME ~Hasty, Inv, InformedInv, NEW n \in Nodes, NEW mn \in Slots, StartDelete(n, mn)
    PROVE  InformedInv'
<1>. DEFINE begun(nd) == [nd EXCEPT !.pc = "find", !.mn = mn]
<1>1. /\ node[n].pc = "idle" /\ UNCHANGED <<sub, dat, changed>>
      /\ \/ CanWrite(n) /\ lock' = n /\ node' = [node EXCEPT ![n] = begun(OpenSub(node[n]))]
         \/ lock' = lock /\ node' = [node EXCEPT ![n] = begun(node[n])]
  BY DEF StartDelete, CanWrite
<1>2. ASSUME NEW nd \in Instance PROVE SameBelief(nd, begun(nd)) /\ begun(nd).pc = "find"
  BY DEF Instance, SameBelief
<1>3. OpenSub(node[n]) \in Instance /\ node[n] \in Instance
  BY <1>1, StepFacts, OpenSubType
<1>. HIDE DEF begun
<1>4. CASE CanWrite(n) /\ lock' = n /\ node' = [node EXCEPT ![n] = begun(OpenSub(node[n]))]
  BY <1>1, <1>2, <1>3, <1>4, OpensInformed
<1>5. CASE lock' = lock /\ node' = [node EXCEPT ![n] = begun(node[n])]
  BY <1>1, <1>2, <1>3, <1>5, StepFacts, InformedGoesOn DEF sub
<1>6. QED
  BY <1>1, <1>4, <1>5

LEMMA ReturnedBelief ==
    ASSUME NEW nd \in Instance
    PROVE  SameBelief(nd, Returned(nd)) /\ Returned(nd).pc # "shift"
BY DEF Instance, Returned, SameBelief

LEMMA DeleteNothingInformed ==
    ASSUME ~Hasty, Inv, InformedInv, NEW n \in Nodes, DeleteNothing(n)
    PROVE  InformedInv'
<1>. DEFINE f == Opened(n)
            nd == Noted(n, f)
<1>1. /\ node[n].pc = "delete" /\ CanWrite(n) /\ lock' \in {n, Nobody}
      /\ UNCHANGED <<sub, dat>> /\ changed' = changed \ {n}
      /\ node' = [node EXCEPT ![n] = Returned(nd)]
  BY DEF DeleteNothing, LockAfter, ReadsStatus
<1>2. /\ node[n] \in Instance /\ FileType /\ Removing(n) = FALSE
      /\ Informed(n, node[n], changed, hdr, gat, text, Removing(n))
  BY <1>1, StepFacts
<1>3. f \in Instance /\ Informed(n, f, changed, hdr, gat, text, Removing(n))
  <2>1. CASE lock = n
    BY <1>2, <2>1 DEF Opened
  <2>2. CASE lock # n
    <3>1. Informed(n, OpenSub(node[n]), changed, hdr, gat, text, FALSE)
      BY <1>2, OpenSubInforms
    <3>2. Informed(n, OpenSub(node[n]), changed, hdr, gat, text, Removing(n))
      BY <1>2, <3>1
    <3>3. QED
      BY <1>2, <2>2, <3>2, OpenSubType DEF Opened
  <2>3. QED
    BY <2>1, <2>2
<1>. HIDE DEF f
<1>4. nd \in Instance /\ Informed(n, nd, changed', hdr, gat, text, Removing(n))
  BY <1>3, NotedType, NotedInforms
<1>. HIDE DEF nd
<1>5. SameBelief(nd, Returned(nd)) /\ Returned(nd).pc # "shift"
  BY <1>4, ReturnedBelief
<1>6. QED
  BY <1>1, <1>4, <1>5, InformedGoesOn DEF sub

\* The steps that only change what n does next, or what it knows of the counters.
LEMMA SmallStepsInformed ==
    ASSUME ~Hasty, Inv, InformedInv, NEW n \in Nodes,
           PostOpenFails(n) \/ AddFails(n) \/ DeleteFails(n) \/ Stamp(n) \/ ReadStatus(n)
    PROVE  InformedInv'
<1>1. /\ node[n].pc # "shift" /\ UNCHANGED <<sub, lock, dat>>
      /\ \A k \in changed : k # n => k \in changed'
  <2>1. \A k \in changed : k \in Nodes
    BY DEF Inv, TypeOK
  <2>2. QED
    BY <2>1 DEF PostOpenFails, AddFails, DeleteFails, Stamp, ReadStatus, ReadsStatus, Counts
<1>2. /\ node[n] \in Instance
      /\ Informed(n, node[n], changed, hdr, gat, text, Removing(n))
  BY <1>1, StepFacts
<1>3. ASSUME NEW nd, Informed(n, nd, changed', hdr, gat, text, Removing(n)),
             NEW ne, node' = [node EXCEPT ![n] = ne], SameBelief(nd, ne), ne.pc # "shift"
      PROVE  InformedInv'
  BY <1>1, <1>3, InformedGoesOn DEF sub
<1>4. CASE PostOpenFails(n)
  <2>. DEFINE ne == [node[n] EXCEPT !.pc = "trim"]
  <2>1. SameBelief(node[n], ne) /\ ne.pc = "trim"
    BY <1>2 DEF Instance, SameBelief
  <2>2. node' = [node EXCEPT ![n] = ne] /\ changed' = changed
    BY <1>4 DEF PostOpenFails
  <2>. HIDE DEF ne
  <2>3. QED
    BY <1>2, <1>3, <2>1, <2>2
<1>5. CASE AddFails(n)
  <2>. DEFINE ne == [node[n] EXCEPT !.pc = "idle", !.p = NoRecord]
  <2>1. SameBelief(node[n], ne) /\ ne.pc = "idle"
    BY <1>2 DEF Instance, SameBelief
  <2>2. node' = [node EXCEPT ![n] = ne] /\ changed' = changed
    BY <1>5 DEF AddFails, Inv, TypeOK
  <2>. HIDE DEF ne
  <2>3. QED
    BY <1>2, <1>3, <2>1, <2>2
<1>6. CASE DeleteFails(n)
  <2>1. node' = [node EXCEPT ![n] = Returned(node[n])] /\ changed' = changed
    BY <1>6 DEF DeleteFails
  <2>2. QED
    BY <1>2, <1>3, <2>1, ReturnedBelief
<1>7. CASE Stamp(n) \/ ReadStatus(n)
  <2>. DEFINE nd == Noted(n, node[n])
              ne == IF Stamp(n) THEN [nd EXCEPT !.pc = "open"] ELSE nd
  <2>1. /\ nd \in Instance /\ Informed(n, nd, changed', hdr, gat, text, Removing(n))
        /\ nd.pc # "shift"
    BY <1>1, <1>2, NotedType, NotedInforms DEF Keeps
  <2>2. node' = [node EXCEPT ![n] = ne]
    BY <1>7 DEF Stamp, ReadStatus
  <2>. HIDE DEF nd
  <2>3. SameBelief(nd, ne) /\ ne.pc # "shift"
    BY <2>1 DEF Instance, SameBelief
  <2>. HIDE DEF ne
  <2>4. QED
    BY <1>3, <2>1, <2>2, <2>3
<1>8. QED
  BY <1>4, <1>5, <1>6, <1>7

\* A record keeps its text when its mark changes.
LEMMA ToggleNoDeleteInformed ==
    ASSUME ~Hasty, Inv, InformedInv, NEW n \in Nodes, NEW mn \in Slots,
           ToggleNoDelete(n, mn)
    PROVE  InformedInv'
<1>. DEFINE f == OpenSub(node[n])
            nd == Resynched(n, f, mn)
            i == Lands(n, f, mn)
            new == Toggled(Cached(nd, i))
            k == i - nd.cache_start
            ne == [nd EXCEPT !.cache[k] = new]
<1>1. /\ node[n].pc = "idle" /\ CanWrite(n) /\ lock' = lock /\ i \in 1 .. hdr
      /\ UNCHANGED <<hdr, dat>> /\ changed' = changed \ {n}
      /\ node' = [node EXCEPT ![n] = ne]
  BY DEF ToggleNoDelete, ReadsStatus, CanWrite
<1>2. /\ node[n] \in Instance /\ FileType /\ FileTexts /\ Removing(n) = FALSE
  BY <1>1, StepFacts
<1>3. /\ f \in Instance /\ Keeps(node[n], f) /\ f.nummsgs = hdr /\ Fresh(f, recs)
      /\ Informed(n, f, changed, hdr, gat, text, FALSE)
  BY <1>2, OpenSubType, OpenSubInforms
<1>4. nd \in Instance /\ Keeps(f, nd) /\ Cached(nd, i) = recs[i] /\ k \in 0 .. CacheSize - 1
  <2>. HIDE DEF f
  <2>1. nd \in Instance /\ Keeps(f, nd)
    BY <1>2, <1>3, ResynchedType
  <2>2. Cached(nd, i) = recs[i] /\ k \in 0 .. CacheSize - 1
    BY <1>1, <1>2, <1>3, FreshResynched
  <2>3. QED
    BY <2>1, <2>2
<1>5. Hits(n, f, mn)
  <2>. HIDE DEF f
  <2>1. SUFFICES ASSUME ~Hits(n, f, mn) PROVE FALSE
    OBVIOUS
  <2>2. i = mn
    BY <2>1 DEF Lands
  <2>3. GetPost(f, mn).nummsgs = hdr
    BY <1>2, <1>3, FreshPost
  <2>4. Reached(f, mn) = mn
    <3>1. hdr \in Nat /\ mn <= hdr /\ mn \in Nat
      BY <1>1, <1>2, <2>2, SlotsFacts DEF FileType
    <3>2. ~(mn > hdr)
      BY <3>1
    <3>3. QED
      BY <3>2 DEF Reached, Adjusted
  <2>5. QED
    BY <1>1, <2>1, <2>2, <2>3, <2>4 DEF Hits, Finds
<1>6. Informed(n, nd, changed', hdr, gat, text, FALSE)
  <2>. HIDE DEF f
  <2>1. changed' = IF Hits(n, f, mn) THEN changed \ {n} ELSE changed
    BY <1>1, <1>5
  <2>2. FALSE \in BOOLEAN /\ (CanWrite(n) => FileTexts /\ ~FALSE)
    BY <1>2
  <2>3. QED
    BY <1>2, <1>3, <2>1, <2>2, ResynchedInforms
<1>7. recs[i] \in Record /\ Own(gat, text, recs[i])
  BY <1>1, <1>2 DEF FileTexts
<1>8. nd.pc = "idle"
  BY <1>1, <1>3, <1>4 DEF Keeps
<1>. HIDE DEF f, nd, i, k
<1>9. new \in Record /\ Own(gat, text, new)
  BY <1>4, <1>7 DEF Record, Toggled, Own
<1>. HIDE DEF new
<1>10. /\ ne.subchg = nd.subchg /\ ne.believe_cache = nd.believe_cache /\ ne.pc = nd.pc
       /\ ne.nummsgs = nd.nummsgs /\ ne.cache_start = nd.cache_start
       /\ ne.cache = [nd.cache EXCEPT ![k] = new]
  BY <1>4 DEF Instance
<1>. HIDE DEF ne
<1>11. \A j \in 0 .. CacheSize - 1 :
         /\ nd.cache[j] \in Record /\ Own(gat, text, nd.cache[j])
         => ne.cache[j] \in Record /\ Own(gat, text, ne.cache[j])
  BY <1>4, <1>9, <1>10 DEF Instance
<1>12. CachedTexts(nd, gat, text) => CachedTexts(ne, gat, text)
  BY <1>10, <1>11 DEF CachedTexts
<1>13. Informed(n, ne, changed', hdr, gat, text, Removing(n))
  <2>1. Informed(n, ne, changed', hdr, gat, text, FALSE)
    BY <1>6, <1>10, <1>12 DEF Informed
  <2>2. QED
    BY <1>2, <2>1
<1>14. SameBelief(ne, ne) /\ ne.pc # "shift"
  BY <1>8, <1>10 DEF SameBelief
<1>15. QED
  BY <1>1, <1>13, <1>14, InformedGoesOn

LEMMA SelectInformed ==
    ASSUME ~Hasty, Inv, InformedInv, NEW n \in Nodes, Select(n)
    PROVE  InformedInv'
<1>. DEFINE nd == Noted(n, node[n])
<1>1. nd.pc = "idle" /\ UNCHANGED <<sub, lock, dat>> /\ changed' = changed \ {n}
  BY DEF Select, ReadsStatus
<1>2. /\ node[n] \in Instance /\ node[n].pc = "idle" /\ FileType /\ nd \in Instance
  BY <1>1, TypeFacts, NotedType DEF Keeps
<1>3. CASE IsCurrent(nd) /\ UNCHANGED node
  <2>1. n \notin changed
    BY <1>2, <1>3 DEF IsCurrent, Noted, Instance
  <2>2. node' = [node EXCEPT ![n] = node[n]] /\ changed' = changed
    BY <1>1, <1>3, <2>1 DEF Inv, TypeOK
  <2>3. SameBelief(node[n], node[n]) /\ node[n].pc # "shift"
    BY <1>2 DEF SameBelief
  <2>4. Informed(n, node[n], changed', hdr, gat, text, Removing(n))
    BY <2>2, <2>3, StepFacts
  <2>5. QED
    BY <1>1, <2>2, <2>3, <2>4, InformedGoesOn DEF sub
<1>4. CASE lock = Nobody /\ node' = [node EXCEPT ![n] = Scanned(nd, hdr)]
  <2>. DEFINE f == Forget(nd)
              ne == [f EXCEPT !.pc = "idle", !.curlsub = TRUE, !.subchg = 0,
                              !.last_msgnum = 0, !.nummsgs = hdr]
  <2>1. f \in Instance /\ ~f.believe_cache
    BY <1>2, ForgetType
  <2>2. Scanned(nd, hdr) = ne
    BY DEF Scanned
  <2>. HIDE DEF f, nd
  <2>3. ~ne.believe_cache /\ ne.pc = "idle" /\ ne.subchg = 0 /\ ne.nummsgs = hdr
    BY <2>1 DEF Instance
  <2>4. ~Removing(n)
    BY <1>4 DEF Removing
  <2>5. hdr <= hdr
    BY <1>2, SlotsFacts DEF FileType
  <2>6. node' = [node EXCEPT ![n] = ne]
    BY <1>4, <2>2
  <2>. HIDE DEF ne
  <2>7. Informed(n, ne, changed', hdr, gat, text, Removing(n))
    BY <2>3, <2>4, <2>5 DEF Informed, CachedTexts
  <2>8. SameBelief(ne, ne) /\ ne.pc # "shift"
    BY <2>3 DEF SameBelief
  <2>9. QED
    BY <1>1, <1>2, <2>6, <2>7, <2>8, InformedGoesOn DEF sub
<1>5. QED
  BY <1>3, <1>4 DEF Select

\* savefile writes over no text that an instance has cached.
LEMMA SaveInformed ==
    ASSUME ~Hasty, Inv, InformedInv, NEW n \in Nodes, NEW m \in Messages,
           NEW size \in 1 .. MaxSize, Save(n, m, size)
    PROVE  InformedInv'
<1>. DEFINE x == Least(Roomy(gat, size))
            A == Place(gat, size)
            nd == Noted(n, node[n])
            r == [msg |-> m, at |-> [section |-> x, sector |-> Least(A)],
                  no_delete |-> FALSE]
            ne == [nd EXCEPT !.pc = "stamp", !.p = r]
<1>1. /\ node[n].pc = "idle" /\ Roomy(gat, size) # {}
      /\ gat' = [gat EXCEPT ![x] = Link(@, A)] /\ text' = Written(text, x, A, m)
      /\ UNCHANGED <<sub, lock>> /\ changed' = Nodes \ {n}
      /\ node' = [node EXCEPT ![n] = ne]
  BY DEF Save, Counts, Written
<1>2. /\ gat \in [Sections -> Gat]
      /\ text \in [Sections -> [Sectors -> Messages \union {NoText}]]
      /\ changed \in SUBSET Nodes
  BY DEF Inv, TypeOK
<1>3. /\ x \in Sections /\ A \in SUBSET Sectors /\ \A s \in A : gat[x][s] = Unused
  <2>1. size \in Nat \ {0}
    BY BoardAssumption
  <2>2. QED
    BY <1>1, <1>2, <2>1, PlaceIsUnused
<1>. HIDE DEF x, A
<1>4. \A q \in Record : Own(gat, text, q) => Own(gat', text', q)
  BY <1>1, <1>2, <1>3, SaveKeepsText
<1>5. /\ nd \in Instance /\ hdr' = hdr /\ hdr \in Nat
      /\ Informed(n, nd, changed', hdr, gat, text, Removing(n))
  BY <1>1, StepFacts, NotedType, NotedInforms DEF sub
<1>. HIDE DEF nd, r
<1>6. SameBelief(nd, ne) /\ ne.pc = "stamp"
  BY <1>5 DEF Instance, SameBelief
<1>. HIDE DEF ne
<1>7. Informed(n, nd, changed', hdr', gat', text', Removing(n))
  <2>1. hdr' \in Nat /\ hdr <= hdr'
    BY <1>5
  <2>2. QED
    BY <1>4, <1>5, <2>1, InformedStays
<1>8. Informed(n, ne, changed', hdr', gat', text', Removing(n))
  BY <1>6, <1>7, SameBeliefInforms
<1>9. \A k \in changed : k # n => k \in changed'
  BY <1>1, <1>2
<1>10. /\ hdr' \in Nat /\ hdr <= hdr' /\ lock' \in {lock, n, Nobody}
       /\ node[n].pc # "shift" /\ ne.pc # "shift"
  BY <1>1, <1>5, <1>6
<1>11. QED
  BY <1>1, <1>4, <1>8, <1>9, <1>10, InformedStep

LEMMA AddInformed ==
    ASSUME ~Hasty, Inv, InformedInv, NEW n \in Nodes, Add(n)
    PROVE  InformedInv'
<1>. DEFINE f == Forget(node[n])
            ne == [f EXCEPT !.pc = "idle", !.nummsgs = hdr + 1, !.subchg = 0,
                            !.p = NoRecord]
<1>1. /\ node[n].pc = "add" /\ CanWrite(n) /\ lock' = Nobody /\ hdr' = hdr + 1
      /\ UNCHANGED dat /\ changed' = changed \ {n}
      /\ node' = [node EXCEPT ![n] = ne]
  BY DEF Add, Added, ReadsStatus
<1>2. /\ node[n] \in Instance /\ hdr \in Nat /\ ~Removing(n)
  BY <1>1, StepFacts
<1>3. f \in Instance /\ ~f.believe_cache
  BY <1>2, ForgetType
<1>. HIDE DEF f
<1>4. ~ne.believe_cache /\ ne.pc = "idle" /\ ne.subchg = 0 /\ ne.nummsgs = hdr + 1
  BY <1>3 DEF Instance
<1>. HIDE DEF ne
<1>5. hdr' \in Nat /\ hdr <= hdr' /\ ne.nummsgs <= hdr'
  BY <1>1, <1>2, <1>4
<1>6. Informed(n, ne, changed', hdr', gat', text', Removing(n))
  BY <1>2, <1>4, <1>5 DEF Informed, CachedTexts
<1>7. /\ \A k \in changed : k # n => k \in changed'
      /\ \A r \in Record : Own(gat, text, r) => Own(gat', text', r)
  BY <1>1 DEF dat
<1>8. QED
  BY <1>1, <1>4, <1>5, <1>6, <1>7, InformedStep

\* delete() announces the removal with the text, before the record goes.
LEMMA DeleteTextInformed ==
    ASSUME ~Hasty, Inv, InformedInv, NEW n \in Nodes, DeleteText(n)
    PROVE  InformedInv'
<1>. DEFINE nd == GetPost(Noted(n, Opened(n)), node[n].mn)
            ne == [nd EXCEPT !.pc = "shift", !.close_file = (lock # n)]
<1>1. /\ node[n].pc = "delete" /\ CanWrite(n) /\ changed' = Nodes \ {n}
      /\ node[n].mn \in 1 .. Noted(n, Opened(n)).nummsgs
      /\ node' = [node EXCEPT ![n] = ne]
  BY DEF DeleteText, Counts
<1>2. ne.pc = "shift"
  <2>1. Noted(n, Opened(n)) \in Instance /\ FileType
    BY <1>1, OpenedType, TypeFacts
  <2>2. node[n].mn \in Slots
    BY <1>1, <2>1, SlotsFacts DEF Instance
  <2>3. nd \in Instance
    BY <2>1, <2>2, GetPostType
  <2>. HIDE DEF nd
  <2>4. QED
    BY <2>3 DEF Instance
<1>. HIDE DEF ne
<1>3. node'[n].pc = "shift" /\ \A k \in Nodes \ {n} : node'[k] = node[k]
  BY <1>1, <1>2 DEF Inv, TypeOK
<1>4. \A k \in Nodes \ {n} : k \in changed'
  BY <1>1
<1>5. QED
  BY <1>3, <1>4 DEF InformedInv, Informed

\* Who was not told before the record goes is told already or will be.
LEMMA ShiftInformed ==
    ASSUME ~Hasty, Inv, InformedInv, NEW n \in Nodes, Shift(n)
    PROVE  InformedInv'
<1>. DEFINE f == Forget(node[n])
            g == [f EXCEPT !.nummsgs = hdr - 1]
            ne == Returned(g)
<1>1. /\ node[n].pc = "shift" /\ hdr' = hdr - 1 /\ lock' \in {n, Nobody}
      /\ changed' = changed /\ node' = [node EXCEPT ![n] = ne]
  BY DEF Shift, LockAfter
<1>2. /\ node[n] \in Instance /\ lock = n /\ hdr - 1 \in 0 .. MaxPosts
  BY <1>1, TypeFacts, SlotsFacts DEF Local, FileType
<1>3. f \in Instance /\ ~f.believe_cache
  BY <1>2, ForgetType
<1>. HIDE DEF f
<1>4. g \in Instance /\ ~g.believe_cache /\ g.nummsgs = hdr - 1
  BY <1>2, <1>3 DEF Instance
<1>. HIDE DEF g
<1>5. ~ne.believe_cache /\ ne.nummsgs = hdr'
  BY <1>1, <1>4, ReturnedBelief DEF SameBelief
<1>6. node'[n] = ne /\ \A k \in Nodes \ {n} : node'[k] = node[k]
  BY <1>1 DEF Inv, TypeOK
<1>. HIDE DEF ne
<1>7. Informed(n, ne, changed', hdr', gat', text', Removing(n)')
  <2>1. ~Removing(n)' /\ hdr' <= hdr'
    BY <1>1, <1>2, SlotsFacts DEF Removing
  <2>2. QED
    BY <1>5, <2>1 DEF Informed, CachedTexts
<1>8. ASSUME NEW k \in Nodes \ {n}, node[k].pc # "shift"
      PROVE  Informed(k, node[k], changed', hdr', gat', text', Removing(k)')
  <2>1. Removing(k)
    BY <1>1, <1>2, <1>8, TypeFacts DEF Removing
  <2>2. Informed(k, node[k], changed, hdr, gat, text, Removing(k))
    BY <1>8 DEF InformedInv
  <2>3. QED
    BY <1>1, <2>1, <2>2 DEF Informed
<1>9. QED
  BY <1>6, <1>7, <1>8 DEF InformedInv

LEMMA InitInformed == Init => InformedInv
<1>. SUFFICES ASSUME Init PROVE InformedInv
  OBVIOUS
<1>1. ASSUME NEW n \in Nodes
      PROVE  node[n].subchg = 0 /\ ~node[n].believe_cache /\ node[n].nummsgs = 0
  BY DEF Init
<1>2. hdr = 0 /\ \A n \in Nodes : ~Removing(n)
  BY DEF Init, Removing
<1>3. QED
  BY <1>1, <1>2 DEF InformedInv, Informed, CachedTexts

LEMMA NextInformed ==
    ASSUME ~Hasty, Inv, InformedInv, [Next]_vars
    PROVE  InformedInv'
<1>1. CASE UNCHANGED vars
  BY <1>1 DEF vars, InformedInv, Removing
<1>2. ASSUME NEW n \in Nodes, Work(n) PROVE InformedInv'
  <2>1. ~Create(n) /\ ~CreateGivesUp(n)
    BY TypeFacts DEF Create, CreateGivesUp, Local
  <2>2. QED
    BY <1>2, <2>1, SmallStepsInformed, PostOpensInformed, TrimInformed, AddInformed,
       ResynchInformed, FindPostInformed, DeleteTextInformed, DeleteNothingInformed,
       ShiftInformed
       DEF Work
<1>3. ASSUME NEW n \in Nodes, Begin(n) PROVE InformedInv'
  BY <1>3, SelectInformed, SmallStepsInformed, GetInformed, ToggleNoDeleteInformed,
     ToggleFailsInformed, StartDeleteInformed, SaveInformed
     DEF Begin
<1>4. QED
  BY <1>1, <1>2, <1>3 DEF Next

(* The change counters of STATUS.DAT and subchg are enough: however many     *)
(* instances work on the sub, one that believes its cache either has only   *)
(* posts in it that have their texts or is going to be told (get_status,    *)
(* get_post, delete(), iscan1).                                             *)
THEOREM StalenessIsAnnounced == ~Hasty => (Spec => []StaleIsAnnounced)
<1>1. SUFFICES ASSUME ~Hasty PROVE Spec => []StaleIsAnnounced
  OBVIOUS
<1>2. Inv /\ InformedInv => StaleIsAnnounced
  <2>. SUFFICES ASSUME Inv, InformedInv, NEW n \in Nodes, node[n].believe_cache,
                       node[n].pc # "shift", n \notin changed, node[n].subchg # 1,
                       NEW k \in DOMAIN node[n].cache,
                       node[n].cache_start + k \in 1 .. node[n].nummsgs
                PROVE  HasOwnText(node[n].cache[k])
    BY DEF StaleIsAnnounced
  <2>1. CachedTexts(node[n], gat, text)
    BY DEF InformedInv, Informed
  <2>2. k \in 0 .. CacheSize - 1
    BY TypeFacts DEF Instance
  <2>3. Own(gat, text, node[n].cache[k])
    BY <2>1, <2>2 DEF CachedTexts
  <2>4. QED
    BY <2>3 DEF Own, HasOwnText
<1>. DEFINE IInv == Inv /\ InformedInv
<1>3. Init => IInv
  BY InitInv, InitInformed
<1>4. IInv /\ [Next]_vars => IInv'
  BY <1>1, NextKeepsInv, NextInformed
<1>5. IInv => StaleIsAnnounced
  BY <1>2
<1>. HIDE DEF IInv
<1>6. QED
  BY <1>3, <1>4, <1>5, PTL DEF Spec

---------------------------------------------------------------------------
(* The instances together implement Board.  A record is removed from the   *)
(* board when delete() has freed its text, although the records behind it  *)
(* move down later.  Only post() has a record in hand, so that every step  *)
(* maps to one step of Board or to none.                                   *)

Outgoing == \E i \in 1 .. hdr : Removed(i)

BoardIs == IF Outgoing THEN RemoveAt(Posts, node[lock].mn) ELSE Posts

StateIs == [m \in Messages |-> StateOf(m)]

\* What StateOf says of m: somebody has it in hand; it is on the board.
InHands(m) == \E n \in Nodes : Holds(n) /\ node[n].p.msg = m
IsPosted(m) == \E i \in 1 .. hdr : ~Removed(i) /\ recs[i].msg = m

LEMMA StateOfIs ==
    ASSUME NEW m
    PROVE  /\ StateOf(m) = IF m \notin written THEN "unwritten"
                           ELSE IF InHands(m) THEN "written"
                           ELSE IF IsPosted(m) THEN "posted" ELSE "gone"
           /\ StateOf(m)' = IF m \notin written' THEN "unwritten"
                            ELSE IF InHands(m)' THEN "written"
                            ELSE IF IsPosted(m)' THEN "posted" ELSE "gone"
<1>1. /\ (\E n \in Nodes : \E r \in InHand(n) : r.msg = m) <=> InHands(m)
      /\ (\E n \in Nodes : \E r \in InHand(n) : r.msg = m)' <=> InHands(m)'
  BY DEF InHand, InHands, Holds
<1>2. /\ (\E r \in OnBoard : r.msg = m) <=> IsPosted(m)
      /\ (\E r \in OnBoard : r.msg = m)' <=> IsPosted(m)'
  BY DEF OnBoard, IsPosted
<1>3. QED
  BY <1>1, <1>2 DEF StateOf

LEMMA RemoveAtIs ==
    ASSUME NEW S, NEW h \in Nat, NEW s \in [1 .. h -> S], NEW i \in 1 .. h
    PROVE  \A t \in Seq(S) :
              /\ Len(t) = h - 1
              /\ \A j \in 1 .. Len(t) : t[j] = IF j < i THEN s[j] ELSE s[j + 1]
              => t = RemoveAt(s, i)
<1>. DEFINE u == RemoveAt(s, i)
<1>1. s \in Seq(S) /\ Len(s) = h
  OBVIOUS
<1>2. SubSeq(s, 1, i - 1) = [j \in 1 .. i - 1 |-> s[j]]
  BY <1>1
<1>3. SubSeq(s, i + 1, h) = [j \in 1 .. h - i |-> s[j + i]]
  BY <1>1
<1>4. u = [j \in 1 .. h - 1 |-> IF j < i THEN s[j] ELSE s[j + 1]]
  BY <1>1, <1>2, <1>3 DEF RemoveAt
<1>. HIDE DEF u
<1>5. ASSUME NEW t \in Seq(S), Len(t) = h - 1,
             \A j \in 1 .. Len(t) : t[j] = IF j < i THEN s[j] ELSE s[j + 1]
      PROVE  t = u
  <2>1. t \in [1 .. h - 1 -> S]
    BY <1>5
  <2>2. DOMAIN u = 1 .. h - 1 /\ \A j \in 1 .. h - 1 : t[j] = u[j]
    BY <1>4, <1>5
  <2>3. QED
    BY <1>4, <2>1, <2>2
<1>6. QED
  BY <1>5 DEF u

LEMMA AppendIs ==
    ASSUME NEW S, NEW h \in Nat, NEW s \in [1 .. h -> S], NEW e \in S,
           NEW t \in [1 .. h + 1 -> S], t[h + 1] = e,
           \A j \in 1 .. h : t[j] = s[j]
    PROVE  t = Append(s, e)
<1>. DEFINE u == Append(s, e)
<1>1. s \in Seq(S) /\ Len(s) = h
  OBVIOUS
<1>2. u \in Seq(S) /\ Len(u) = h + 1 /\ u[h + 1] = e
  BY <1>1
<1>3. \A j \in 1 .. h : u[j] = s[j]
  BY <1>1
<1>. HIDE DEF u
<1>4. u \in [1 .. h + 1 -> S]
  BY <1>2
<1>5. \A j \in 1 .. h + 1 : t[j] = u[j]
  BY <1>2, <1>3
<1>6. t = u
  BY <1>4, <1>5
<1>7. QED
  BY <1>6 DEF u

\* The three steps of Board that move a message on, as SubBoard sees them.
LEMMA BoardWrites ==
    ASSUME NEW m \in Messages, StateIs[m] = "unwritten",
           StateIs' = [StateIs EXCEPT ![m] = "written"], BoardIs' = BoardIs
    PROVE  B!Next
BY DEF B!Next, B!Write, B!Moves, BoardIs, StateIs, Outgoing

LEMMA BoardDrops ==
    ASSUME NEW m \in Messages, StateIs[m] = "written",
           StateIs' = [StateIs EXCEPT ![m] = "gone"], BoardIs' = BoardIs
    PROVE  B!Next
BY DEF B!Next, B!Drop, B!Moves, BoardIs, StateIs, Outgoing

LEMMA BoardPosts ==
    ASSUME NEW m \in Messages, StateIs[m] = "written",
           StateIs' = [StateIs EXCEPT ![m] = "posted"], BoardIs' = Append(BoardIs, m)
    PROVE  B!Next
BY DEF B!Next, B!Post, B!Moves, BoardIs, StateIs, Outgoing

LEMMA BoardDeletes ==
    ASSUME NEW i \in DOMAIN BoardIs, StateIs[BoardIs[i]] = "posted",
           StateIs' = [StateIs EXCEPT ![BoardIs[i]] = "gone"],
           BoardIs' = RemoveAt(BoardIs, i)
    PROVE  B!Next
BY DEF B!Next, B!Delete, B!Moves, BoardIs, StateIs, Outgoing, B!RemoveAt, RemoveAt

\* Only post() has a record in hand.
Posting(nd) == nd.pc \in {"stamp", "open", "trim", "add"} \/ nd.then = "add"

HandInv == \A n \in Nodes : Holds(n) => Posting(node[n])

\* A step that moves no message: n becomes ne.
Quiet(n, ne) ==
    /\ node' = [node EXCEPT ![n] = ne]
    /\ node[n].pc # "shift" /\ ne.pc # "shift"
    /\ ne.p = node[n].p /\ (Posting(node[n]) => Posting(ne))
    /\ lock' = lock \/ (CanWrite(n) /\ lock' \in {n, Nobody})
    /\ hdr' = hdr /\ written' = written
    /\ \A i \in 1 .. hdr : recs'[i].msg = recs[i].msg

\* Whoever is removing a post is not disturbed by n.
LEMMA RemovedStays ==
    ASSUME Inv, NEW n \in Nodes, NEW ne, node' = [node EXCEPT ![n] = ne],
           node[n].pc # "shift", ne.pc # "shift",
           lock' = lock \/ (CanWrite(n) /\ lock' \in {n, Nobody}), hdr' = hdr,
           \A i \in 1 .. hdr : recs'[i].msg = recs[i].msg
    PROVE  /\ \A i : Removed(i)' <=> Removed(i)
           /\ BoardIs' = BoardIs
           /\ \A m : IsPosted(m)' <=> IsPosted(m)
<1>1. node'[n] = ne /\ \A k \in Nodes \ {n} : node'[k] = node[k]
  BY DEF Inv, TypeOK
<1>2. ASSUME NEW i, Removed(i) PROVE Removed(i)' /\ lock' = lock /\ node'[lock] = node[lock]
  <2>1. lock \in Nodes \ {n} /\ lock # Nobody
    BY <1>2 DEF Removed, Inv, TypeOK
  <2>2. lock' = lock
    BY <2>1 DEF CanWrite
  <2>3. QED
    BY <1>1, <1>2, <2>1, <2>2 DEF Removed
<1>3. ASSUME NEW i, Removed(i)' PROVE Removed(i)
  <2>1. lock' # Nobody /\ node'[lock'].pc = "shift" /\ node'[lock'].mn = i
    BY <1>3 DEF Removed
  <2>2. lock' = lock /\ lock \in Nodes \ {n}
    BY <1>1, <2>1 DEF Inv, TypeOK
  <2>3. QED
    BY <1>1, <2>1, <2>2 DEF Removed
<1>4. Posts' = Posts
  BY DEF Posts
<1>5. BoardIs' = BoardIs
  <2>1. CASE Outgoing
    <3>1. Outgoing' /\ lock' = lock /\ node'[lock] = node[lock]
      BY <1>2, <2>1 DEF Outgoing
    <3>2. QED
      BY <1>4, <2>1, <3>1 DEF BoardIs
  <2>2. CASE ~Outgoing
    <3>1. ~Outgoing'
      BY <1>3, <2>2 DEF Outgoing
    <3>2. QED
      BY <1>4, <2>2, <3>1 DEF BoardIs
  <2>3. QED
    BY <2>1, <2>2
<1>6. \A m : IsPosted(m)' <=> IsPosted(m)
  BY <1>2, <1>3 DEF IsPosted
<1>7. QED
  BY <1>2, <1>3, <1>5, <1>6

\* A step of n that leaves what it has in hand leaves it to all.
LEMMA HandsStay ==
    ASSUME Inv, NEW n \in Nodes, NEW ne, node' = [node EXCEPT ![n] = ne],
           ne.p = node[n].p
    PROVE  \A m : InHands(m)' <=> InHands(m)
<1>1. node'[n] = ne /\ \A k \in Nodes \ {n} : node'[k] = node[k]
  BY DEF Inv, TypeOK
<1>2. \A k \in Nodes : node'[k].p = node[k].p
  BY <1>1
<1>3. QED
  BY <1>2 DEF InHands, Holds

LEMMA QuietBoard ==
    ASSUME Inv, HandInv, NEW n \in Nodes, NEW ne, Quiet(n, ne)
    PROVE  HandInv' /\ BoardIs' = BoardIs /\ StateIs' = StateIs
<1>1. BoardIs' = BoardIs /\ \A m : IsPosted(m)' <=> IsPosted(m)
  BY RemovedStays DEF Quiet
<1>2. node'[n] = ne /\ \A k \in Nodes \ {n} : node'[k] = node[k]
  BY DEF Quiet, Inv, TypeOK
<1>3. \A k \in Nodes : node'[k].p = node[k].p
  BY <1>2 DEF Quiet
<1>4. \A m : InHands(m)' <=> InHands(m)
  BY HandsStay DEF Quiet
<1>5. \A m \in Messages : StateOf(m)' = StateOf(m)
  BY <1>1, <1>4, StateOfIs DEF Quiet
<1>6. HandInv'
  BY <1>2, <1>3 DEF HandInv, Holds, Quiet
<1>7. QED
  BY <1>1, <1>5, <1>6 DEF StateIs

\* A step of n that has nothing in hand, or goes on posting.
LEMMA QuietGoesOn ==
    ASSUME NEW n \in Nodes, NEW ne, node' = [node EXCEPT ![n] = ne],
           node[n].pc # "shift", ne.pc # "shift", ne.p = node[n].p,
           Posting(node[n]) => Posting(ne),
           lock' = lock \/ (CanWrite(n) /\ lock' \in {n, Nobody}),
           UNCHANGED <<sub, written>>
    PROVE  \E nf : Quiet(n, nf)
BY DEF Quiet, sub

\* Only the steps of post(), and delete() on its behalf, have a record in hand.
LEMMA NotPosting ==
    ASSUME Inv, NEW n \in Nodes, node[n].pc \in {"idle", "create", "find"}
    PROVE  ~Posting(node[n])
BY TypeFacts DEF Local, Posting

LEMMA SelectQuiet ==
    ASSUME ~Hasty, Inv, NEW n \in Nodes, Select(n)
    PROVE  \E ne : Quiet(n, ne)
<1>. DEFINE nd == Noted(n, node[n])
<1>1. nd \in Instance /\ Keeps(node[n], nd) /\ hdr \in 0 .. MaxPosts
  BY TypeFacts, NotedType DEF FileType
<1>2. node[n].pc = "idle" /\ UNCHANGED <<sub, lock, written>>
  BY <1>1 DEF Select, Keeps
<1>3. ~Posting(node[n])
  BY <1>2, NotPosting
<1>. HIDE DEF nd
<1>4. CASE UNCHANGED node
  <2>1. node' = [node EXCEPT ![n] = node[n]]
    BY <1>4 DEF Inv, TypeOK
  <2>2. QED
    BY <1>2, <2>1, QuietGoesOn
<1>5. CASE node' = [node EXCEPT ![n] = Scanned(nd, hdr)]
  <2>1. Scanned(nd, hdr).pc = "idle" /\ Scanned(nd, hdr).p = node[n].p
    BY <1>1, ScannedType DEF Keeps
  <2>2. QED
    BY <1>2, <1>3, <1>5, <2>1, QuietGoesOn
<1>6. QED
  BY <1>4, <1>5 DEF Select, nd

LEMMA GetQuiet ==
    ASSUME Inv, NEW n \in Nodes, NEW mn \in Slots, Get(n, mn)
    PROVE  \E ne : Quiet(n, ne)
<1>. DEFINE ne == Looks(n, node[n], mn)
<1>1. Keeps(node[n], ne)
  BY TypeFacts, LooksType
<1>2. /\ node[n].pc = "idle" /\ node' = [node EXCEPT ![n] = ne]
      /\ UNCHANGED <<sub, lock, written>>
  BY DEF Get, Inv, TypeOK
<1>. HIDE DEF ne
<1>3. QED
  BY <1>1, <1>2, NotPosting, QuietGoesOn DEF Keeps

LEMMA ReadStatusQuiet ==
    ASSUME Inv, NEW n \in Nodes, ReadStatus(n)
    PROVE  \E ne : Quiet(n, ne)
<1>. DEFINE ne == Noted(n, node[n])
<1>1. Keeps(node[n], ne)
  BY TypeFacts, NotedType
<1>2. /\ node[n].pc = "idle" /\ node' = [node EXCEPT ![n] = ne]
      /\ UNCHANGED <<sub, lock, written>>
  BY DEF ReadStatus, Inv, TypeOK
<1>. HIDE DEF ne
<1>3. QED
  BY <1>1, <1>2, NotPosting, QuietGoesOn DEF Keeps

LEMMA StampQuiet ==
    ASSUME Inv, NEW n \in Nodes, Stamp(n)
    PROVE  \E ne : Quiet(n, ne)
<1>. DEFINE nd == Noted(n, node[n])
<1>1. nd \in Instance /\ Keeps(node[n], nd)
  BY TypeFacts, NotedType
<1>2. node[n].pc = "stamp" /\ UNCHANGED <<sub, lock, written>>
  BY DEF Stamp
<1>3. node' = [node EXCEPT ![n] = [nd EXCEPT !.pc = "open"]]
  BY DEF Stamp, Inv, TypeOK
<1>. HIDE DEF nd
<1>. DEFINE ne == [nd EXCEPT !.pc = "open"]
<1>4. ne.p = node[n].p /\ ne.pc = "open"
  BY <1>1 DEF Instance, Keeps
<1>. HIDE DEF ne
<1>5. Posting(ne)
  BY <1>4 DEF Posting
<1>6. QED
  BY <1>2, <1>3, <1>4, <1>5, QuietGoesOn DEF ne

LEMMA PostOpensQuiet ==
    ASSUME Inv, NEW n \in Nodes, PostOpens(n) \/ PostOpenFails(n)
    PROVE  \E ne : Quiet(n, ne)
<1>1. node[n] \in Instance /\ FileType
  BY TypeFacts
<1>2. /\ node[n].pc = "open" /\ UNCHANGED <<sub, written>>
      /\ lock' = lock \/ (CanWrite(n) /\ lock' \in {n, Nobody})
  BY DEF PostOpens, PostOpenFails, CanWrite
<1>3. PICK f \in {node[n], OpenSub(node[n])} :
         node' = [node EXCEPT ![n] = [f EXCEPT !.pc = "trim"]]
  BY DEF PostOpens, PostOpenFails, Inv, TypeOK
<1>4. f \in Instance /\ Keeps(node[n], f)
  BY <1>1, OpenSubType DEF Keeps
<1>. DEFINE ne == [f EXCEPT !.pc = "trim"]
<1>5. ne.p = node[n].p /\ ne.pc = "trim"
  BY <1>4 DEF Instance, Keeps
<1>. HIDE DEF ne
<1>6. Posting(ne)
  BY <1>5 DEF Posting
<1>7. QED
  BY <1>2, <1>3, <1>5, <1>6, QuietGoesOn DEF ne

LEMMA TrimQuiet ==
    ASSUME Inv, NEW n \in Nodes, Trim(n)
    PROVE  \E ne : Quiet(n, ne)
<1>. DEFINE i == node[n].mn + 1
            nd == Looks(n, node[n], i)
<1>1. node[n] \in Instance
  BY TypeFacts
<1>2. node[n].pc = "trim" /\ UNCHANGED <<sub, lock, written>>
  BY DEF Trim
<1>3. ASSUME NEW ne, node' = [node EXCEPT ![n] = ne], ne.p = node[n].p,
             ne.pc \in {"trim", "add"} \/ (ne.pc = "delete" /\ ne.then = "add")
      PROVE  \E nf : Quiet(n, nf)
  <2>1. Posting(ne)
    BY <1>3 DEF Posting
  <2>2. QED
    BY <1>2, <1>3, <2>1, QuietGoesOn
<1>4. ASSUME NEW f \in Instance, NEW k
      PROVE  /\ Victim(f, k).p = f.p
             /\ Victim(f, k).pc = "delete" /\ Victim(f, k).then = "add"
  BY DEF Victim, Instance
<1>5. CASE node' = [node EXCEPT ![n].pc = "add"]
  <2>. DEFINE ne == [node[n] EXCEPT !.pc = "add"]
  <2>1. ne.pc = "add" /\ ne.p = node[n].p
    BY <1>1 DEF Instance
  <2>2. node' = [node EXCEPT ![n] = ne]
    BY <1>5
  <2>. HIDE DEF ne
  <2>3. QED
    BY <1>3, <2>1, <2>2
<1>6. CASE node' = [node EXCEPT ![n] = Victim(node[n], 1)]
  BY <1>1, <1>3, <1>4, <1>6
<1>7. CASE /\ i <= node[n].nummsgs
           /\ node' \in {[node EXCEPT ![n] = Victim(nd, i)],
                         [node EXCEPT ![n] = [nd EXCEPT !.mn = i]]}
  <2>1. i \in Slots
    <3>1. node[n].mn \in 0 .. MaxPosts /\ node[n].nummsgs \in 0 .. MaxPosts
      BY <1>1 DEF Instance
    <3>2. QED
      BY <1>7, <3>1, SlotsFacts
  <2>2. nd \in Instance /\ Keeps(node[n], nd)
    BY <2>1, LooksFacts
  <2>. HIDE DEF i, nd
  <2>3. CASE node' = [node EXCEPT ![n] = Victim(nd, i)]
    BY <1>3, <1>4, <2>2, <2>3 DEF Keeps
  <2>4. CASE node' = [node EXCEPT ![n] = [nd EXCEPT !.mn = i]]
    <3>. DEFINE ne == [nd EXCEPT !.mn = i]
    <3>1. ne.pc = "trim" /\ ne.p = node[n].p
      BY <1>2, <2>2 DEF Instance, Keeps
    <3>2. node' = [node EXCEPT ![n] = ne]
      BY <2>4
    <3>. HIDE DEF ne
    <3>3. QED
      BY <1>3, <3>1, <3>2
  <2>5. QED
    BY <1>7, <2>3, <2>4
<1>8. QED
  BY <1>1, <1>5, <1>6, <1>7 DEF Trim

LEMMA StartDeleteQuiet ==
    ASSUME Inv, NEW n \in Nodes, NEW mn \in Slots, StartDelete(n, mn)
    PROVE  \E ne : Quiet(n, ne)
<1>1. node[n] \in Instance /\ FileType
  BY TypeFacts
<1>2. /\ node[n].pc = "idle" /\ UNCHANGED <<sub, written>>
      /\ lock' = lock \/ (CanWrite(n) /\ lock' \in {n, Nobody})
  BY DEF StartDelete, CanWrite
<1>3. PICK f \in {node[n], OpenSub(node[n])} :
         node' = [node EXCEPT ![n] = [f EXCEPT !.pc = "find", !.mn = mn]]
  BY DEF StartDelete, Inv, TypeOK
<1>4. f \in Instance /\ Keeps(node[n], f)
  BY <1>1, OpenSubType DEF Keeps
<1>. DEFINE ne == [f EXCEPT !.pc = "find", !.mn = mn]
<1>5. ne.p = node[n].p /\ ne.pc = "find"
  BY <1>4 DEF Instance, Keeps
<1>. HIDE DEF ne
<1>6. QED
  BY <1>2, <1>3, <1>5, NotPosting, QuietGoesOn DEF ne

LEMMA ResynchQuiet ==
    ASSUME Inv, NEW n \in Nodes, Resynch(n)
    PROVE  \E ne : Quiet(n, ne)
<1>. DEFINE nd == Resynched(n, node[n], node[n].mn)
<1>1. /\ node[n] \in Instance /\ FileType /\ Local(n, node[n], lock, hdr, recs)
  BY TypeFacts
<1>2. node[n].pc = "find" /\ UNCHANGED <<sub, lock, written>>
  BY DEF Resynch
<1>3. nd \in Instance /\ Keeps(node[n], nd)
  BY <1>1, <1>2, ResynchedType DEF Local
<1>4. PICK mn : node' = [node EXCEPT ![n] = [nd EXCEPT !.pc = "delete", !.mn = mn]]
  BY DEF Resynch
<1>. HIDE DEF nd
<1>. DEFINE ne == [nd EXCEPT !.pc = "delete", !.mn = mn]
<1>5. ne.p = node[n].p /\ ne.pc = "delete"
  BY <1>3 DEF Instance, Keeps
<1>. HIDE DEF ne
<1>6. QED
  BY <1>2, <1>4, <1>5, NotPosting, QuietGoesOn DEF ne

LEMMA FindPostQuiet ==
    ASSUME Inv, NEW n \in Nodes, FindPost(n)
    PROVE  \E ne : Quiet(n, ne)
<1>. DEFINE mn == node[n].mn
            nd == IF mn <= node[n].nummsgs THEN Looks(n, node[n], mn) ELSE node[n]
<1>1. node[n] \in Instance /\ Local(n, node[n], lock, hdr, recs)
  BY TypeFacts
<1>2. /\ node[n].pc = "find" /\ UNCHANGED <<sub, written>>
      /\ lock' = lock \/ (CanWrite(n) /\ lock' \in {n, Nobody})
  BY DEF FindPost, CanWrite
<1>3. nd \in Instance /\ Keeps(node[n], nd)
  BY <1>1, <1>2, LooksFacts DEF Keeps, Local
<1>4. node' \in {[node EXCEPT ![n] = [nd EXCEPT !.pc = "delete"]],
                 [node EXCEPT ![n] = [nd EXCEPT !.pc = "idle", !.mn = 0]]}
  BY DEF FindPost
<1>. HIDE DEF nd
<1>5. PICK ne \in {[nd EXCEPT !.pc = "delete"], [nd EXCEPT !.pc = "idle", !.mn = 0]} :
         node' = [node EXCEPT ![n] = ne]
  BY <1>4
<1>6. ne.p = node[n].p /\ ne.pc # "shift"
  BY <1>3, <1>5 DEF Instance, Keeps
<1>7. QED
  BY <1>2, <1>5, <1>6, NotPosting, QuietGoesOn

LEMMA ReturnedQuiet ==
    ASSUME Inv, NEW n \in Nodes, NEW nd \in Instance, Keeps(node[n], nd),
           node[n].pc = "delete", node' = [node EXCEPT ![n] = Returned(nd)],
           lock' = lock \/ (CanWrite(n) /\ lock' \in {n, Nobody}),
           UNCHANGED <<sub, written>>
    PROVE  \E ne : Quiet(n, ne)
<1>. DEFINE ne == Returned(nd)
<1>1. /\ ne.pc = IF nd.then = "add" THEN "add" ELSE "idle"
      /\ ne.p = nd.p
  BY ReturnedType
<1>. HIDE DEF ne
<1>2. ne.p = node[n].p /\ ne.pc # "shift" /\ (Posting(node[n]) => Posting(ne))
  BY <1>1 DEF Keeps, Posting
<1>3. QED
  BY <1>2, QuietGoesOn DEF ne

LEMMA DeleteNothingQuiet ==
    ASSUME Inv, NEW n \in Nodes, DeleteNothing(n) \/ DeleteFails(n)
    PROVE  \E ne : Quiet(n, ne)
<1>1. node[n].pc = "delete" /\ UNCHANGED <<sub, written>>
  BY DEF DeleteNothing, DeleteFails
<1>2. CASE DeleteNothing(n)
  <2>. DEFINE nd == Noted(n, Opened(n))
  <2>1. CanWrite(n) /\ lock' \in {n, Nobody} /\ node' = [node EXCEPT ![n] = Returned(nd)]
    BY <1>2 DEF DeleteNothing, LockAfter
  <2>2. nd \in Instance /\ Keeps(node[n], nd)
    BY <1>1, <2>1, OpenedType
  <2>. HIDE DEF nd
  <2>3. QED
    BY <1>1, <2>1, <2>2, ReturnedQuiet
<1>3. CASE DeleteFails(n)
  <2>1. lock' = lock /\ node' = [node EXCEPT ![n] = Returned(node[n])]
    BY <1>3 DEF DeleteFails
  <2>2. node[n] \in Instance /\ Keeps(node[n], node[n])
    BY TypeFacts DEF Keeps
  <2>3. QED
    BY <1>1, <2>1, <2>2, ReturnedQuiet
<1>4. QED
  BY <1>2, <1>3

LEMMA ToggleFailsQuiet ==
    ASSUME Inv, NEW n \in Nodes, NEW mn \in Slots, ToggleFails(n, mn)
    PROVE  \E ne : Quiet(n, ne)
<1>. DEFINE nd == LookedTwice(n, node[n], mn)
<1>1. node[n].pc = "idle" /\ UNCHANGED <<sub, lock, written>>
  BY DEF ToggleFails
<1>2. nd \in Instance /\ Keeps(node[n], nd)
  BY TypeFacts, LookedTwiceType
<1>3. \E c : node' = [node EXCEPT ![n] = [nd EXCEPT !.cache = c]]
  <2>1. nd = [nd EXCEPT !.cache = nd.cache]
    BY <1>2 DEF Instance
  <2>2. \/ node' = [node EXCEPT ![n] = nd]
        \/ \E c : node' = [node EXCEPT ![n] = [nd EXCEPT !.cache = c]]
    BY DEF ToggleFails
  <2>. HIDE DEF nd
  <2>3. QED
    BY <2>1, <2>2
<1>. HIDE DEF nd
<1>4. PICK c : node' = [node EXCEPT ![n] = [nd EXCEPT !.cache = c]]
  BY <1>3
<1>. DEFINE ne == [nd EXCEPT !.cache = c]
<1>5. ne.p = node[n].p /\ ne.pc = "idle"
  BY <1>1, <1>2 DEF Instance, Keeps
<1>. HIDE DEF ne
<1>6. QED
  BY <1>1, <1>4, <1>5, NotPosting, QuietGoesOn DEF ne

LEMMA ToggleNoDeleteQuiet ==
    ASSUME Inv, NEW n \in Nodes, NEW mn \in Slots, ToggleNoDelete(n, mn)
    PROVE  \E ne : Quiet(n, ne)
<1>. DEFINE f == OpenSub(node[n])
            nd == Resynched(n, f, mn)
            i == Lands(n, f, mn)
            new == Toggled(Cached(nd, i))
            k == i - nd.cache_start
            ne == [nd EXCEPT !.cache[k] = new]
<1>1. /\ node[n] \in Instance /\ FileType
  BY TypeFacts
<1>2. /\ node[n].pc = "idle" /\ lock = Nobody /\ lock' = lock /\ i \in 1 .. hdr
      /\ UNCHANGED <<hdr, written>>
      /\ recs' = [recs EXCEPT ![i] = new] /\ node' = [node EXCEPT ![n] = ne]
  BY DEF ToggleNoDelete
<1>3. f \in Instance /\ Keeps(node[n], f) /\ f.nummsgs = hdr /\ Fresh(f, recs)
  BY <1>1, OpenSubType
<1>4. nd \in Instance /\ Keeps(f, nd)
  BY <1>1, <1>3, ResynchedType
<1>5. Cached(nd, i) = recs[i]
  <2>1. CanWrite(n)
    BY <1>2 DEF CanWrite
  <2>2. QED
    BY <1>1, <1>2, <1>3, <2>1, FreshResynched
<1>. HIDE DEF f, nd, i, k
<1>6. recs[i] \in Record
  BY <1>2 DEF Inv, Records
<1>7. new.msg = recs[i].msg
  BY <1>5, <1>6 DEF Record, Toggled
<1>. HIDE DEF new
<1>8. ne.pc = "idle" /\ ne.p = node[n].p
  BY <1>2, <1>3, <1>4 DEF Instance, Keeps
<1>. HIDE DEF ne
<1>9. \A j \in 1 .. hdr : recs'[j].msg = recs[j].msg
  <2>1. recs \in [Slots -> Record \union {NoRecord}] /\ 1 .. hdr \subseteq Slots
    BY <1>1, SlotsFacts DEF FileType
  <2>2. QED
    BY <1>2, <1>7, <2>1
<1>10. Quiet(n, ne)
  BY <1>2, <1>8, <1>9, NotPosting DEF Quiet
<1>11. QED
  BY <1>10

\* What becomes of m when n alone changes what it has in hand.
OthersHave(n, m) == \E k \in Nodes \ {n} : Holds(k) /\ node[k].p.msg = m

LEMMA HandsOf ==
    ASSUME Inv, NEW n \in Nodes, NEW ne, node' = [node EXCEPT ![n] = ne],
           NEW m
    PROVE  /\ InHands(m) <=> (Holds(n) /\ node[n].p.msg = m) \/ OthersHave(n, m)
           /\ InHands(m)' <=> (ne.p # NoRecord /\ ne.p.msg = m) \/ OthersHave(n, m)
<1>1. node'[n] = ne /\ \A k \in Nodes \ {n} : node'[k] = node[k]
  BY DEF Inv, TypeOK
<1>2. (Holds(n)' <=> ne.p # NoRecord) /\ \A k \in Nodes \ {n} : Holds(k)' <=> Holds(k)
  BY <1>1 DEF Holds
<1>3. QED
  BY <1>1, <1>2 DEF InHands, OthersHave

\* Nobody has come to have a record in hand but to post it.
LEMMA HandInvStays ==
    ASSUME Inv, HandInv, NEW n \in Nodes, NEW ne, node' = [node EXCEPT ![n] = ne],
           ne.p # NoRecord => Posting(ne)
    PROVE  HandInv'
<1>1. node'[n] = ne /\ \A k \in Nodes \ {n} : node'[k] = node[k]
  BY DEF Inv, TypeOK
<1>2. QED
  BY <1>1 DEF HandInv, Holds

\* One message changes its state, all others keep theirs.
LEMMA OneMoves ==
    ASSUME NEW m \in Messages, NEW to, StateOf(m)' = to,
           \A q \in Messages \ {m} : StateOf(q)' = StateOf(q)
    PROVE  StateIs' = [StateIs EXCEPT ![m] = to]
BY DEF StateIs

LEMMA SaveIsWrite ==
    ASSUME ~Hasty, Inv, HandInv, NEW n \in Nodes, NEW m \in Messages,
           NEW size \in 1 .. MaxSize, Save(n, m, size)
    PROVE  HandInv' /\ B!Next
<1>. DEFINE x == Least(Roomy(gat, size))
            r == [msg |-> m, at |-> [section |-> x, sector |-> Least(Place(gat, size))],
                  no_delete |-> FALSE]
            nd == Noted(n, node[n])
            ne == [nd EXCEPT !.pc = "stamp", !.p = r]
<1>1. nd \in Instance /\ r # NoRecord /\ r.msg = m
  <2>1. r \in Record
    <3>1. size \in Nat \ {0} /\ gat \in [Sections -> Gat] /\ Roomy(gat, size) # {}
      BY BoardAssumption DEF Inv, TypeOK, Save
    <3>2. x \in Sections /\ Place(gat, size) \in SUBSET Sectors /\ Place(gat, size) # {}
      BY <3>1, PlaceIsUnused
    <3>3. Least(Place(gat, size)) \in Sectors
      BY <3>2, SectorsFinite, LeastExists
    <3>. HIDE DEF x
    <3>4. QED
      BY <3>2, <3>3 DEF Record, Address
  <2>2. QED
    BY <2>1, TypeFacts, NotedType, RecordAssumption
<1>2. /\ node[n].pc = "idle" /\ m \notin written /\ written' = written \union {m}
      /\ UNCHANGED <<sub, lock>>
  BY DEF Save
<1>3. node' = [node EXCEPT ![n] = ne]
  BY DEF Save
<1>4. ~Holds(n)
  BY <1>2, NotPosting DEF HandInv
<1>. HIDE DEF r, nd
<1>5. ne.pc = "stamp" /\ ne.p = r
  BY <1>1 DEF Instance
<1>. HIDE DEF ne
<1>6. \A q : InHands(q)' <=> q = m \/ InHands(q)
  BY <1>1, <1>3, <1>4, <1>5, HandsOf
<1>6a. HandInv'
  BY <1>3, <1>5, HandInvStays DEF Posting
<1>7. BoardIs' = BoardIs /\ \A q : IsPosted(q)' <=> IsPosted(q)
  BY <1>2, <1>3, <1>5, RemovedStays DEF sub
<1>8. StateOf(m) = "unwritten" /\ StateOf(m)' = "written"
  BY <1>2, <1>6, StateOfIs
<1>9. \A q \in Messages \ {m} : StateOf(q)' = StateOf(q)
  BY <1>2, <1>6, <1>7, StateOfIs
<1>10. QED
  BY <1>6a, <1>7, <1>8, <1>9, OneMoves, BoardWrites DEF StateIs

LEMMA AddFailsIsDrop ==
    ASSUME ~Hasty, Inv, HandInv, NEW n \in Nodes, AddFails(n)
    PROVE  HandInv' /\ B!Next
<1>. DEFINE ne == [node[n] EXCEPT !.pc = "idle", !.p = NoRecord]
<1>1. node[n] \in Instance /\ Local(n, node[n], lock, hdr, recs)
  BY TypeFacts
<1>2. /\ node[n].pc = "add" /\ UNCHANGED <<sub, lock, written>>
      /\ node' = [node EXCEPT ![n] = ne]
  BY DEF AddFails, Inv, TypeOK
<1>3. PICK m \in Messages : Holds(n) /\ node[n].p.msg = m
  BY <1>1, <1>2, RecordAssumption DEF Local, Holds, Record
<1>4. ne.pc = "idle" /\ ne.p = NoRecord
  BY <1>1 DEF Instance
<1>. HIDE DEF ne
<1>5. m \in written /\ ~IsPosted(m)
      /\ ~OthersHave(n, m)
  BY <1>3 DEF Inv, Distinct, IsPosted, OthersHave
<1>6. \A q : InHands(q)' <=> q # m /\ InHands(q)
  BY <1>2, <1>3, <1>4, <1>5, HandsOf
<1>6a. HandInv'
  BY <1>2, <1>4, HandInvStays
<1>7. BoardIs' = BoardIs /\ \A q : IsPosted(q)' <=> IsPosted(q)
  BY <1>2, <1>4, RemovedStays DEF sub
<1>8. InHands(m)
  BY <1>3 DEF InHands
<1>9. StateOf(m) = "written" /\ StateOf(m)' = "gone"
  BY <1>2, <1>5, <1>6, <1>7, <1>8, StateOfIs
<1>10. \A q \in Messages \ {m} : StateOf(q)' = StateOf(q)
  BY <1>2, <1>6, <1>7, StateOfIs
<1>11. QED
  BY <1>3, <1>6a, <1>7, <1>9, <1>10, OneMoves, BoardDrops DEF StateIs

LEMMA AddIsPost ==
    ASSUME ~Hasty, Inv, HandInv, NEW n \in Nodes, Add(n)
    PROVE  HandInv' /\ B!Next
<1>. DEFINE p == node[n].p
            ne == Added(node[n], hdr + 1)
<1>1. /\ node[n] \in Instance /\ Local(n, node[n], lock, hdr, recs) /\ hdr \in Nat
      /\ recs \in [Slots -> Record \union {NoRecord}]
  BY TypeFacts DEF FileType
<1>2. /\ node[n].pc = "add" /\ CanWrite(n) /\ hdr < MaxPosts /\ hdr' = hdr + 1
      /\ recs' = [recs EXCEPT ![hdr + 1] = p] /\ lock' = Nobody
      /\ written' = written /\ node' = [node EXCEPT ![n] = ne]
  BY DEF Add
<1>3. PICK m \in Messages : Holds(n) /\ node[n].p.msg = m
  BY <1>1, <1>2, RecordAssumption DEF Local, Holds, Record
<1>4. ne.p = NoRecord
  <2>. DEFINE f == Forget(node[n])
  <2>1. f \in Instance
    BY <1>1, ForgetType
  <2>2. ne = [f EXCEPT !.pc = "idle", !.nummsgs = hdr + 1, !.subchg = 0,
                       !.p = NoRecord]
    BY DEF Added
  <2>. HIDE DEF f
  <2>3. QED
    BY <2>1, <2>2 DEF Instance
<1>. HIDE DEF ne
<1>5. m \in written /\ ~IsPosted(m)
      /\ ~OthersHave(n, m)
  BY <1>3 DEF Inv, Distinct, IsPosted, OthersHave
<1>6. \A q : InHands(q)' <=> q # m /\ InHands(q)
  BY <1>2, <1>3, <1>4, <1>5, HandsOf
<1>6a. HandInv'
  BY <1>2, <1>4, HandInvStays
<1>7. ~Outgoing /\ ~Outgoing' /\ (\A i : ~Removed(i)) /\ (\A i : ~Removed(i)')
  BY <1>2 DEF CanWrite, Outgoing, Removed
<1>8. recs'[hdr + 1] = p /\ \A i \in 1 .. hdr : recs'[i] = recs[i]
  BY <1>1, <1>2, SlotsFacts
<1>9. BoardIs' = Append(BoardIs, m)
  <2>1. Posts \in [1 .. hdr -> Messages]
    BY DEF Posts, Inv, Records, Record
  <2>2. \A j \in 1 .. hdr + 1 :
          recs'[j].msg = IF j = hdr + 1 THEN m ELSE Posts[j]
    BY <1>1, <1>3, <1>8 DEF Posts
  <2>3. Posts' = [j \in 1 .. hdr + 1 |-> recs'[j].msg]
    BY <1>2 DEF Posts
  <2>4. /\ Posts' \in [1 .. hdr + 1 -> Messages] /\ Posts'[hdr + 1] = m
        /\ \A j \in 1 .. hdr : Posts'[j] = Posts[j]
    BY <1>1, <2>1, <2>2, <2>3
  <2>5. Posts' = Append(Posts, m)
    BY <1>1, <2>1, <2>4, AppendIs
  <2>6. QED
    BY <1>7, <2>5 DEF BoardIs
<1>10. \A q : IsPosted(q)' <=> q = m \/ IsPosted(q)
  <2>1. ASSUME NEW q, IsPosted(q)' PROVE q = m \/ IsPosted(q)
    <3>1. PICK i \in 1 .. hdr + 1 : recs'[i].msg = q
      BY <1>2, <2>1 DEF IsPosted
    <3>2. i = hdr + 1 \/ i \in 1 .. hdr
      BY <1>1
    <3>3. QED
      BY <1>3, <1>7, <1>8, <3>1, <3>2 DEF IsPosted
  <2>2. IsPosted(m)'
    <3>1. hdr + 1 \in 1 .. hdr'
      BY <1>1, <1>2
    <3>2. QED
      BY <1>3, <1>7, <1>8, <3>1 DEF IsPosted
  <2>3. ASSUME NEW q, IsPosted(q) PROVE IsPosted(q)'
    BY <1>1, <1>2, <1>7, <1>8, <2>3 DEF IsPosted
  <2>4. QED
    BY <2>1, <2>2, <2>3
<1>11. InHands(m)
  BY <1>3 DEF InHands
<1>12. StateOf(m) = "written" /\ StateOf(m)' = "posted"
  BY <1>2, <1>5, <1>6, <1>10, <1>11, StateOfIs
<1>13. \A q \in Messages \ {m} : StateOf(q)' = StateOf(q)
  BY <1>2, <1>6, <1>10, StateOfIs
<1>14. QED
  BY <1>3, <1>6a, <1>9, <1>12, <1>13, OneMoves, BoardPosts DEF StateIs

LEMMA DeleteTextIsDelete ==
    ASSUME ~Hasty, Inv, HandInv, NEW n \in Nodes, DeleteText(n)
    PROVE  HandInv' /\ B!Next
<1>. DEFINE mn == node[n].mn
            f == Noted(n, Opened(n))
            nd == GetPost(f, mn)
            ne == [nd EXCEPT !.pc = "shift", !.close_file = (lock # n)]
<1>1. /\ node[n] \in Instance /\ FileType /\ Nobody # n
  BY TypeFacts
<1>2. /\ node[n].pc = "delete" /\ CanWrite(n) /\ mn \in 1 .. f.nummsgs /\ lock' = n
      /\ UNCHANGED <<sub, written>> /\ node' = [node EXCEPT ![n] = ne]
  BY DEF DeleteText
<1>3. f \in Instance /\ Keeps(node[n], f) /\ f.nummsgs = hdr
  BY <1>2, OpenedType
<1>. HIDE DEF f
<1>4. mn \in 1 .. hdr /\ mn \in Slots /\ hdr \in Nat
  BY <1>1, <1>2, <1>3, SlotsFacts DEF FileType
<1>4a. PICK m \in Messages : recs[mn].msg = m
  BY <1>4 DEF Inv, Records, Record
<1>5. nd \in Instance /\ Keeps(f, nd)
  BY <1>1, <1>3, <1>4, GetPostType
<1>. HIDE DEF nd
<1>6. /\ ne.pc = "shift" /\ ne.p = node[n].p /\ ne.then = node[n].then /\ ne.mn = mn
  BY <1>3, <1>5 DEF Instance, Keeps
<1>. HIDE DEF ne
<1>7. m \in written /\ (\A k \in Nodes : Holds(k) => node[k].p.msg # m)
      /\ \A i \in 1 .. hdr : recs[i].msg = m => i = mn
  BY <1>4, <1>4a DEF Inv, Distinct
<1>8. Holds(n) => Posting(ne)
  BY <1>2, <1>6 DEF HandInv, Posting
<1>9. node'[n] = ne
  BY <1>2 DEF Inv, TypeOK
<1>10. \A q : InHands(q)' <=> InHands(q)
  BY <1>2, <1>6, HandsStay
<1>10a. HandInv'
  BY <1>2, <1>6, <1>8, HandInvStays DEF Holds
<1>11. /\ \A i \in 1 .. hdr : ~Removed(i)
       /\ \A i : Removed(i)' <=> i = mn
  BY <1>1, <1>2, <1>6, <1>9, InvFacts DEF Removed
<1>12. ~Outgoing /\ Outgoing' /\ Posts' = Posts
  BY <1>2, <1>4, <1>11 DEF Outgoing, Posts, sub
<1>13. BoardIs = Posts /\ BoardIs' = RemoveAt(Posts, mn)
  BY <1>2, <1>6, <1>9, <1>12 DEF BoardIs
<1>14. IsPosted(m) /\ \A q : IsPosted(q)' <=> q # m /\ IsPosted(q)
  BY <1>2, <1>4, <1>4a, <1>7, <1>11 DEF IsPosted, sub
<1>15. mn \in DOMAIN Posts /\ Posts[mn] = m
  BY <1>4, <1>4a DEF Posts
<1>16. ~InHands(m)
  BY <1>7 DEF InHands
<1>. HIDE DEF mn
<1>17. StateOf(m) = "posted" /\ StateOf(m)' = "gone"
  BY <1>2, <1>7, <1>10, <1>14, <1>16, StateOfIs
<1>18. \A q \in Messages \ {m} : StateOf(q)' = StateOf(q)
  BY <1>2, <1>10, <1>14, StateOfIs
<1>19. StateIs' = [StateIs EXCEPT ![m] = "gone"] /\ StateIs[m] = "posted"
  BY <1>7, <1>17, <1>18, OneMoves DEF StateIs
<1>20. QED
  BY <1>10a, <1>13, <1>15, <1>19, BoardDeletes

LEMMA ShiftStutters ==
    ASSUME ~Hasty, Inv, HandInv, NEW n \in Nodes, Shift(n)
    PROVE  HandInv' /\ BoardIs' = BoardIs /\ StateIs' = StateIs
<1>. DEFINE mn == node[n].mn
            f == Forget(node[n])
            g == [f EXCEPT !.nummsgs = hdr - 1]
            ne == Returned(g)
            from(i) == IF i < mn THEN i ELSE i + 1
<1>1. /\ node[n] \in Instance /\ Local(n, node[n], lock, hdr, recs) /\ Nobody # n
      /\ hdr \in 0 .. MaxPosts /\ recs \in [Slots -> Record \union {NoRecord}]
  BY TypeFacts DEF FileType
<1>2. /\ node[n].pc = "shift" /\ hdr' = hdr - 1 /\ lock' = LockAfter(n)
      /\ recs' = [i \in Slots |->
                    IF i \in mn .. node[n].nummsgs - 1 THEN recs[i + 1] ELSE recs[i]]
      /\ written' = written /\ node' = [node EXCEPT ![n] = ne]
  BY DEF Shift
<1>3. lock = n /\ mn \in 1 .. hdr /\ node[n].nummsgs = hdr
  BY <1>1, <1>2 DEF Local
<1>4. f \in Instance /\ Keeps(node[n], f)
  BY <1>1, ForgetType
<1>. HIDE DEF f
<1>5. g \in Instance /\ g.p = node[n].p /\ g.then = node[n].then
  <2>1. hdr - 1 \in 0 .. MaxPosts
    BY <1>1, <1>3, SlotsFacts
  <2>2. QED
    BY <1>4, <2>1 DEF Instance, Keeps
<1>. HIDE DEF g
<1>6. /\ ne.pc = IF node[n].then = "add" THEN "add" ELSE "idle"
      /\ ne.p = node[n].p
  BY <1>5, ReturnedType
<1>. HIDE DEF ne
<1>7. Holds(n) => Posting(ne)
  BY <1>2, <1>6 DEF HandInv, Posting
<1>8. \A q : InHands(q)' <=> InHands(q)
  BY <1>2, <1>6, HandsStay
<1>8a. HandInv'
  BY <1>2, <1>6, <1>7, HandInvStays DEF Holds
<1>9. node'[n] = ne
  BY <1>2 DEF Inv, TypeOK
<1>10. (\A i : Removed(i) <=> i = mn) /\ (\A i : ~Removed(i)')
  BY <1>1, <1>2, <1>3, <1>6, <1>9 DEF Removed, LockAfter
<1>. HIDE DEF mn
<1>11. \A i \in 1 .. hdr' : /\ from(i) \in 1 .. hdr /\ from(i) # mn
                            /\ recs'[i] = recs[from(i)]
  BY <1>1, <1>2, <1>3, SlotsFacts
<1>12. BoardIs' = BoardIs
  <2>1. Outgoing /\ ~Outgoing' /\ BoardIs = RemoveAt(Posts, mn)
    BY <1>3, <1>10 DEF Outgoing, BoardIs, mn
  <2>2. Posts \in [1 .. hdr -> Messages] /\ hdr \in Nat
    BY <1>1 DEF Posts, Inv, Records, Record
  <2>3. ASSUME NEW j \in 1 .. hdr'
        PROVE  recs'[j].msg = IF j < mn THEN Posts[j] ELSE Posts[j + 1]
    <3>1. recs'[j] = recs[from(j)] /\ from(j) \in 1 .. hdr
      BY <1>11
    <3>2. QED
      BY <3>1 DEF Posts, from
  <2>4. Posts' = [j \in 1 .. hdr' |-> recs'[j].msg]
    BY DEF Posts
  <2>5. hdr' \in Nat /\ hdr' = hdr - 1 /\ mn \in 1 .. hdr
    BY <1>2, <1>3, <2>2 DEF mn
  <2>6. /\ Posts' \in [1 .. hdr' -> Messages]
        /\ \A j \in 1 .. hdr' : Posts'[j] = IF j < mn THEN Posts[j] ELSE Posts[j + 1]
    <3>1. \A j \in 1 .. hdr' : j \in 1 .. hdr /\ j + 1 \in 1 .. hdr
      BY <2>2, <2>5
    <3>2. \A j \in 1 .. hdr' : recs'[j].msg \in Messages
      BY <2>2, <2>3, <3>1
    <3>3. QED
      BY <2>3, <2>4, <3>2
  <2>7. Posts' = RemoveAt(Posts, mn)
    <3>1. Posts' \in Seq(Messages) /\ Len(Posts') = hdr - 1
      BY <2>5, <2>6
    <3>2. \A j \in 1 .. Len(Posts') :
             Posts'[j] = IF j < mn THEN Posts[j] ELSE Posts[j + 1]
      BY <2>5, <2>6, <3>1
    <3>3. QED
      BY <2>2, <2>5, <3>1, <3>2, RemoveAtIs
  <2>8. QED
    BY <2>1, <2>7 DEF BoardIs
<1>13. \A q : IsPosted(q)' <=> IsPosted(q)
  <2>1. ASSUME NEW q, IsPosted(q)' PROVE IsPosted(q)
    BY <1>10, <1>11, <2>1 DEF IsPosted
  <2>2. ASSUME NEW q, IsPosted(q) PROVE IsPosted(q)'
    <3>1. PICK i \in 1 .. hdr : i # mn /\ recs[i].msg = q
      BY <1>10, <2>2 DEF IsPosted
    <3>. DEFINE j == IF i < mn THEN i ELSE i - 1
    <3>2. j \in 1 .. hdr' /\ from(j) = i
      BY <1>1, <1>2, <1>3, <3>1
    <3>3. recs'[j].msg = q
      BY <1>11, <3>1, <3>2
    <3>4. QED
      BY <1>10, <3>2, <3>3 DEF IsPosted
  <2>3. QED
    BY <2>1, <2>2
<1>14. \A q \in Messages : StateOf(q)' = StateOf(q)
  BY <1>2, <1>8, <1>13, StateOfIs
<1>15. QED
  BY <1>8a, <1>12, <1>14 DEF StateIs

LEMMA InitIsBoard == Init => HandInv /\ B!Init
<1>. SUFFICES ASSUME Init PROVE HandInv /\ B!Init
  OBVIOUS
<1>1. \A n \in Nodes : ~Holds(n)
  BY DEF Init, Holds
<1>2. hdr = 0 /\ written = {} /\ lock = Nobody
  BY DEF Init
<1>3. Posts = <<>> /\ ~\E i \in 1 .. hdr : Removed(i)
  BY <1>2 DEF Posts, Removed
<1>4. \A m : StateOf(m) = "unwritten"
  BY <1>2 DEF StateOf
<1>5. QED
  BY <1>1, <1>3, <1>4 DEF B!Init, HandInv

LEMMA StepIsBoardStep ==
    ASSUME ~Hasty, Inv, HandInv, [Next]_vars
    PROVE  HandInv' /\ ((BoardIs' = BoardIs /\ StateIs' = StateIs) \/ B!Next)
<1>1. CASE UNCHANGED vars
  <2>1. HandInv'
    BY <1>1 DEF vars, HandInv, Holds
  <2>2. (\A i : Removed(i)' <=> Removed(i)) /\ Posts' = Posts
    BY <1>1 DEF vars, Removed, Posts
  <2>3. BoardIs' = BoardIs
    BY <1>1, <2>2 DEF vars, BoardIs, Outgoing
  <2>4. \A m : (InHands(m)' <=> InHands(m)) /\ (IsPosted(m)' <=> IsPosted(m))
    BY <1>1, <2>2 DEF vars, InHands, IsPosted, Holds
  <2>5. \A m \in Messages : StateOf(m)' = StateOf(m)
    BY <1>1, <2>4, StateOfIs DEF vars
  <2>6. QED
    BY <2>1, <2>3, <2>5 DEF StateIs
<1>2. ASSUME NEW n \in Nodes, \E ne : Quiet(n, ne)
      PROVE  HandInv' /\ BoardIs' = BoardIs /\ StateIs' = StateIs
  BY <1>2, QuietBoard
<1>3. ASSUME NEW n \in Nodes, Work(n)
      PROVE  HandInv' /\ ((BoardIs' = BoardIs /\ StateIs' = StateIs) \/ B!Next)
  <2>1. ~Create(n) /\ ~CreateGivesUp(n)
    BY TypeFacts DEF Create, CreateGivesUp, Local
  <2>2. CASE Add(n) \/ AddFails(n) \/ DeleteText(n)
    BY <2>2, AddIsPost, AddFailsIsDrop, DeleteTextIsDelete
  <2>3. CASE Shift(n)
    BY <2>3, ShiftStutters
  <2>4. CASE \E ne : Quiet(n, ne)
    BY <1>2, <2>4
  <2>5. QED
    BY <1>3, <2>1, <2>2, <2>3, <2>4, StampQuiet, PostOpensQuiet, TrimQuiet,
       ResynchQuiet, FindPostQuiet, DeleteNothingQuiet
       DEF Work
<1>4. ASSUME NEW n \in Nodes, Begin(n)
      PROVE  HandInv' /\ ((BoardIs' = BoardIs /\ StateIs' = StateIs) \/ B!Next)
  <2>1. CASE \E m \in Messages, size \in 1 .. MaxSize : Save(n, m, size)
    BY <2>1, SaveIsWrite
  <2>2. CASE \E ne : Quiet(n, ne)
    BY <1>2, <2>2
  <2>3. QED
    BY <1>4, <2>1, <2>2, SelectQuiet, ReadStatusQuiet, GetQuiet, StartDeleteQuiet,
       ToggleNoDeleteQuiet, ToggleFailsQuiet
       DEF Begin
<1>5. QED
  BY <1>1, <1>3, <1>4 DEF Next

(* The instances together are a message board: whatever they do at the same *)
(* time, no post is lost, repeated, moved or brought back (post, add_post,  *)
(* delete, iscan1, get_post); a message that was written is posted once or  *)
(* dropped by the instance that gives up.                                   *)
THEOREM InstancesAreOneBoard == ~Hasty => (Spec => IsBoard)
<1>1. SUFFICES ASSUME ~Hasty PROVE Spec => IsBoard
  OBVIOUS
<1>. DEFINE IInv == Inv /\ HandInv
<1>2. Init => IInv /\ B!Init
  BY InitInv, InitIsBoard
<1>3. IInv /\ [Next]_vars => IInv' /\ [B!Next]_<<BoardIs, StateIs>>
  BY <1>1, NextKeepsInv, StepIsBoardStep
<1>. HIDE DEF IInv
<1>4. QED
  BY <1>2, <1>3, PTL DEF Spec, IsBoard, B!Spec, BoardIs, StateIs, Outgoing
=============================================================================
