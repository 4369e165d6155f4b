---------------------------- MODULE Nmbm_proofs ----------------------------
(***************************************************************************)
(* Proofs about Nmbm: as long as no bad block is passed over when a spare  *)
(* one is taken, no physical block serves twice, and at rest the flash     *)
(* records the mapping, whatever blocks fail and whenever power is lost.   *)
(* If the main table is not rewritten in place while there is no backup    *)
(* either, the flash never turns to an older mapping, and what was written *)
(* stays where every table says it is.  The argument is where valid tables *)
(* can be on flash at each step of their writers (IInv), what they record  *)
(* then (StoredInv), and what the blocks they name hold (DataInv).         *)
(***************************************************************************)
EXTENDS Nmbm, FiniteSetTheorems, WellFoundedInduction, TLAPS

StKinds == {"good", "bad", "remap"}
States  == [Blocks -> StKinds]
Maps    == [Logic -> {-1} \cup Blocks]
Saved   == [kind : {"table"}, wc : Nat, st : States, map : Maps]

Tos == Writes \cup Wipes \cup {"off", "failed", "done", "idle", "erase"}
Ops == {"none", "load", "create", "created", "erase", "lost", "full"}

Ni == [st : States, map : Maps, data : Nat, main : Nat, backup : Nat, mapBa : Nat,
       top : Nat, wc : Nat, dirty : BOOLEAN, prot : BOOLEAN, cache : Saved \cup {Erased},
       to : Tos, at : Int, from : Int, limit : Int, ok : BOOLEAN, op : Ops,
       lb : Logic, pb : Int]

----------------------------------------------------------------------------
(* The inductive invariant, of a flash f whose blocks o are marked bad.      *)

\* The blocks with a table a search accepts
Live(f, o) == {b \in Blocks : f[b].kind = "table" /\ b \notin o}

\* A block that someone who knows the states in t does not use
Bad(t, d, o) == d \in o \/ t.st[d] # "good"

Avoids(map, S) == \A lb \in Logic : map[lb] \notin S
OneToOne(map)  == \A l, k \in Logic : l # k /\ map[l] >= 0 => map[l] # map[k]
\* A mapping whose spare blocks are all above t
Placed(map, t) == OneToOne(map) /\ Avoids(map, Mgmt..t) /\ Avoids(map, {Sig})

(* On flash: at most two live tables, each where it can be loaded from; the  *)
(* newest maps nothing up to the other; blocks below both are bad.           *)
TablesLoadable(f, o) ==
  \A b \in Live(f, o) :
    /\ b \in Mgmt..Sig - 2 /\ f[b] \in Saved /\ Placed(f[b].map, b + 1)
    /\ \A c \in Live(f, o) : f[b].st[c] = "good"
AtMostTwo(f, o) == \A b, c, d \in Live(f, o) : b < c => d = b \/ d = c
BelowBoth(f, o) ==
  \A b, c \in Live(f, o) :
    b < c => \A d \in Mgmt..b - 1 : Bad(f[b], d, o) /\ Bad(f[c], d, o)
NewestClear(f, o) ==
  \A b \in Live(f, o) : (\A c \in Live(f, o) : f[c].wc <= f[b].wc) =>
    \A c \in Live(f, o) : Avoids(f[b].map, Mgmt..c + 1)
SameAge(f, o) ==
  \A b, c \in Live(f, o) : f[b].wc = f[c].wc => f[b].map = f[c].map
NewerKnowsMore(f, o) ==
  \A b, c \in Live(f, o) : f[b].wc <= f[c].wc =>
    \A d \in Blocks : Bad(f[b], d, o) => Bad(f[c], d, o)

Flash(f, o) ==
  /\ DOMAIN f = Blocks
  /\ TablesLoadable(f, o) /\ AtMostTwo(f, o) /\ BelowBoth(f, o)
  /\ NewestClear(f, o) /\ SameAge(f, o) /\ NewerKnowsMore(f, o)

(* The instance n in RAM: its mapping and that of the table it writes are    *)
(* above top, and it knows at least as many bad blocks as any live table.    *)
Core(n, f, o) ==
  /\ n.cache \in Saved /\ n.cache.wc = n.wc
  /\ Placed(n.map, n.top) /\ Placed(n.cache.map, n.top)
  /\ Mgmt <= n.mapBa /\ n.mapBa <= n.top /\ n.top <= Sig - 1
  /\ \A b \in Live(f, o) : b < n.top
  /\ \A d \in Blocks : Bad(n.cache, d, o) => Bad(n, d, o)
  /\ \A b \in Live(f, o), d \in Blocks : Bad(f[b], d, o) => Bad(n.cache, d, o)
  /\ \A d \in Mgmt..n.top : Bad(n, d, o) => Bad(n.cache, d, o)
  /\ \A b \in Live(f, o) : ~Bad(n, b, o)
  /\ \A b \in Live(f, o) : f[b].wc <= n.wc
  /\ \A b \in Live(f, o) : f[b].wc = n.wc =>
       f[b].map = n.cache.map /\ \A d \in Blocks : Bad(n.cache, d, o) => Bad(f[b], d, o)

\* No table is being written
Rest == {"done", "idle", "erase"}

(* The ranges the writers work in; there is no main table at rest only when  *)
(* none could be written.                                                    *)
Ranges(n) ==
  /\ n.main # 0 => Mgmt <= n.main /\ n.main < n.mapBa
  /\ n.backup # 0 => n.main # 0 /\ n.main < n.backup /\ n.backup < n.mapBa
  /\ n.to \in Writes \cup Wipes => n.at <= Sig
  /\ n.to \in {"backup", "oneBackup"} => n.backup # 0 /\ n.at >= n.backup /\ n.limit = n.top
  /\ n.to = "main" => /\ n.main # 0 /\ n.at >= n.main
                      /\ n.limit = IF n.backup = 0 THEN n.top ELSE n.backup
  /\ n.to = "oneMain" => n.backup # 0 /\ n.at >= n.main /\ n.limit = n.backup
  /\ n.to = "rebuild" => /\ n.main = 0 /\ n.mapBa = n.top /\ n.at >= Mgmt
                         /\ n.limit = n.top
  /\ n.to \in Rest /\ n.main = 0 => n.prot /\ n.mapBa = n.top
  /\ n.to = "second" => n.main # 0 /\ n.backup = 0 /\ n.at >= n.mapBa /\ n.limit = n.top
  /\ n.to = "wipe" => n.backup # 0 /\ n.at > n.main /\ n.limit <= n.backup
  /\ n.to = "front" => n.main # 0 /\ n.backup = 0 /\ n.at >= Mgmt /\ n.limit = n.main
  /\ n.to = "behind" => /\ n.main # 0 /\ n.backup = 0 /\ n.limit = n.top
                        /\ n.at >= n.mapBa /\ n.from >= n.mapBa /\ n.from <= Sig
  /\ n.to = "wipeBehind" => /\ n.main # 0 /\ n.backup = 0 /\ n.at >= n.mapBa
                            /\ n.mapBa <= n.limit /\ n.limit < n.top
  /\ n.to = "temp" => /\ n.backup # 0 /\ n.limit = n.top
                      /\ n.at >= n.mapBa /\ n.from >= n.mapBa /\ n.from <= Sig
  /\ n.to = "rescued" => /\ n.backup # 0 /\ n.at >= Mgmt
                         /\ n.limit = n.mapBa - 1 /\ n.backup < n.limit

(* Where the live tables L are while a writer works.                         *)
Held(n, L) ==
  /\ n.to \in {"backup", "oneBackup"} => n.main \in L /\ L \subseteq {n.main, n.backup}
  /\ n.to \in {"main", "oneMain"} =>
       /\ n.backup # 0 => n.backup \in L
       /\ L \subseteq {n.main, n.backup} \ {0}
  /\ n.to = "wipeBehind" => L = {n.main, n.limit}
  /\ n.to = "temp" => L = {n.backup}
  /\ n.to = "rescued" => n.limit \in L /\ L \subseteq {n.backup, n.limit}
  /\ n.to \in {"rebuild", "second", "wipe", "front", "behind"} \cup Rest =>
       L = {n.main, n.backup} \ {0}

(* The table in b knows every bad block the cache knows; the main one does   *)
(* below itself.                                                             *)
Near(n, b, f, o) == \A d \in Blocks : Bad(n.cache, d, o) => Bad(f[b], d, o)
NearBelow(n, f, o) == \A d \in Mgmt..n.main - 1 : Bad(n.cache, d, o) => Bad(f[n.main], d, o)
AllBad(n, d, f, o) ==
  /\ Bad(n, d, o) /\ Bad(n.cache, d, o)
  /\ \A b \in Live(f, o) : Bad(f[b], d, o)

(* The blocks a writer has passed, and those below the main table, are bad.  *)
Marks(n, f, o) ==
  /\ n.main # 0 /\ n.to \notin {"front", "temp", "rescued"} =>
       \A d \in Mgmt..n.main - 1 : AllBad(n, d, f, o)
  /\ n.to \in {"backup", "oneBackup"} => \A d \in n.backup..n.at - 1 : Bad(n, d, o)
  /\ n.to \in {"main", "oneMain"} => \A d \in n.main..n.at - 1 : Bad(n, d, o)
  /\ n.to \in {"rebuild", "front", "rescued"} => \A d \in Mgmt..n.at - 1 : Bad(n, d, o)
  /\ n.to \in {"temp", "rescued"} => \A d \in Mgmt..n.backup - 1 : Bad(n, d, o)
  /\ n.to \in {"main", "oneMain", "temp"} /\ n.backup # 0 => Near(n, n.backup, f, o)
  /\ n.to = "rescued" => Near(n, n.limit, f, o)
  /\ n.to = "front" => NearBelow(n, f, o)

On(n) == n.to \notin {"off", "failed"}

Ram(n, f, o) ==
  Core(n, f, o) /\ Ranges(n) /\ Held(n, Live(f, o)) /\ Marks(n, f, o)

IInv ==
  /\ ni \in Ni /\ oob \subseteq Blocks
  /\ Flash(flash, oob)
  /\ On(ni) => Ram(ni, flash, oob)

----------------------------------------------------------------------------
(* Least and greatest blocks                                                 *)

(* A set of naturals that is not empty has a least element.                  *)
LEMMA MinIs ==
  ASSUME NEW S \in SUBSET Nat, S # {}
  PROVE  Min(S) \in S /\ \A x \in S : Min(S) <= x
<1>1. \E x \in S : \A y \in S : ~(<<y, x>> \in OpToRel(<, Nat))
  BY NatLessThanWellFounded, WFMin, Zenon
<1>2. PICK m \in S : \A y \in S : ~(<<y, m>> \in OpToRel(<, Nat))
  BY <1>1
<1>3. \A y \in S : ~(y < m)
  BY <1>2 DEF OpToRel
<1>4. \E x \in S : \A y \in S : x <= y
  BY <1>3
<1> QED
  BY <1>4, Zenon DEF Min

(* A bounded one that is not empty has a greatest.                           *)
LEMMA MaxIs ==
  ASSUME NEW k \in Nat, NEW S \in SUBSET (0..k), S # {}
  PROVE  Max(S) \in S /\ \A x \in S : x <= Max(S)
<1> DEFINE T == {k - x : x \in S}
<1>1. T \in SUBSET Nat /\ T # {}
  <2>1. \A x \in S : x \in 0..k
    OBVIOUS
  <2>2. \A x \in S : k - x \in Nat
    BY <2>1
  <2> QED
    BY <2>2
<1>2. Min(T) \in T /\ \A x \in T : Min(T) <= x
  BY <1>1, MinIs
<1>3. PICK m \in S : Min(T) = k - m
  BY <1>2
<1>4. \A x \in S : k - m <= k - x
  BY <1>2, <1>3
<1>5. \A x \in S : m >= x
  BY <1>4
<1>6. Max(S) \in S /\ \A x \in S : Max(S) >= x
  BY <1>5, Zenon DEF Max
<1> QED
  BY <1>6

(* What nmbm_try_reserve_blocks finds lies in the range it was given.        *)
LEMMA ReservedIn ==
  ASSUME NEW n \in Ni, NEW b \in Nat, Reserved(n, b) # {}
  PROVE  Max(Reserved(n, b)) \in b..n.top - 2
<1>1. Reserved(n, b) \subseteq b..n.top - 2
  BY DEF Reserved, Good
<1>2. n.top \in Nat
  BY DEF Ni
<1>3. Reserved(n, b) \in SUBSET (0..n.top)
  BY <1>1, <1>2
<1> QED
  BY <1>1, <1>2, <1>3, MaxIs

----------------------------------------------------------------------------
(* What is written into a block                                              *)

(* Only a table has the kind of a table.                                     *)
LEMMA Contents ==
  /\ Erased.kind # "table" /\ Torn.kind # "table"
  /\ \A lb, v : Data(lb, v).kind # "table"
  /\ \A t \in Saved : t.kind = "table"
BY DEF Erased, Torn, Data, Saved

(* The table made of an instance holds its count, its states and its         *)
(* mapping.                                                                  *)
LEMMA TableType ==
  ASSUME NEW n \in Ni
  PROVE  /\ Table(n) \in Saved
         /\ Table(n).wc = n.wc /\ Table(n).st = n.st /\ Table(n).map = n.map
BY DEF Table, Saved, Ni

(* Blocks are numbered from 0; the management area starts above the first.   *)
LEMMA ConstTypes ==
  /\ Mgmt \in Nat /\ Sig \in Nat /\ 0 < Mgmt /\ Mgmt < Sig /\ Spare \in Nat
  /\ 0 \in Logic /\ Logic \subseteq Blocks /\ Blocks \subseteq Nat
BY GeometryAssumption DEF Logic, Blocks

----------------------------------------------------------------------------
(* More blocks are known to be bad and no table is written: whatever else    *)
(* the flash holds now, what it says of the live tables stays.               *)

Grown(n, f, o, m, g, p) ==
  /\ o \subseteq p /\ DOMAIN g = Blocks
  /\ Live(g, p) \subseteq Live(f, o)
  /\ \A b \in Live(g, p) : g[b] = f[b]
  /\ \A d \in Blocks : Bad(n, d, o) => Bad(m, d, p)
  /\ \A d \in (Mgmt..n.top) \cup Live(g, p) : Bad(m, d, p) => Bad(n, d, o) \/ d \in p

(* A state known to be bad stays so when more blocks are marked.             *)
LEMMA BadStays ==
  ASSUME NEW o, NEW p, o \subseteq p, NEW t, NEW d, Bad(t, d, o)
  PROVE  Bad(t, d, p)
BY DEF Bad

(* Losing live tables, down to one or none, keeps what the flash says.       *)
LEMMA FlashGrows ==
  ASSUME NEW f, NEW o, NEW g, NEW p, Flash(f, o), o \subseteq p, DOMAIN g = Blocks,
         Live(g, p) \subseteq Live(f, o), \A b \in Live(g, p) : g[b] = f[b],
         \A b \in Live(f, o) \ Live(g, p), c \in Live(g, p) : Live(g, p) = {c}
  PROVE  Flash(g, p)
<1> DEFINE L == Live(f, o)
           K == Live(g, p)
<1>1. K \subseteq L /\ \A b \in K : g[b] = f[b] /\ b \in Blocks
  BY DEF Live
<1>2. TablesLoadable(g, p)
  BY <1>1 DEF Flash, TablesLoadable
<1>3. AtMostTwo(g, p)
  BY <1>1 DEF Flash, AtMostTwo
<1>4. BelowBoth(g, p)
  BY <1>1 DEF Flash, BelowBoth, Bad
<1>5. SameAge(g, p)
  BY <1>1 DEF Flash, SameAge
<1>6. NewerKnowsMore(g, p)
  BY <1>1 DEF Flash, NewerKnowsMore, Bad
<1>7. NewestClear(g, p)
  <2> SUFFICES ASSUME NEW b \in K, \A c \in K : g[c].wc <= g[b].wc, NEW c \in K
               PROVE  Avoids(g[b].map, Mgmt..c + 1)
    BY DEF NewestClear
  <2>1. CASE K = L
    <3>1. \A x \in L : f[x].wc <= f[b].wc
      BY <2>1, <1>1
    <3>2. Avoids(f[b].map, Mgmt..c + 1)
      BY <3>1, <2>1, <1>1 DEF Flash, NewestClear
    <3> QED
      BY <3>2, <1>1
  <2>2. CASE K # L
    <3>1. PICK x \in L : x \notin K
      BY <2>2, <1>1
    <3>2. K = {c}
      BY <3>1
    <3>3. Placed(f[b].map, b + 1)
      BY <1>1 DEF Flash, TablesLoadable
    <3> QED
      BY <3>2, <3>3, <1>1 DEF Placed
  <2> QED
    BY <2>1, <2>2
<1> QED
  BY <1>2, <1>3, <1>4, <1>5, <1>6, <1>7 DEF Flash

(* What a flash says depends on its blocks only.                             *)
LEMMA FlashSame ==
  ASSUME NEW f, NEW o, NEW g, Flash(f, o), DOMAIN g = Blocks,
         \A b \in Blocks : g[b] = f[b]
  PROVE  Flash(g, o) /\ Live(g, o) = Live(f, o)
<1>1. Live(g, o) = Live(f, o) /\ \A b \in Live(g, o) : g[b] = f[b]
  BY DEF Live
<1>2. Flash(g, o)
  BY <1>1, FlashGrows
<1> QED
  BY <1>1, <1>2

(* One live table less leaves one at most.                                   *)
LEMMA OneLess ==
  ASSUME NEW f, NEW o, Flash(f, o), NEW K, K \subseteq Live(f, o),
         NEW b \in Live(f, o) \ K, NEW c \in K
  PROVE  K = {c}
<1>1. \A x \in Live(f, o) : x \in Int
  BY ConstTypes DEF Live
<1>2. \A x, y, z \in Live(f, o) : x < y => z = x \/ z = y
  BY DEF Flash, AtMostTwo
<1>3. ASSUME NEW x \in K, x # c
      PROVE  FALSE
  <2>1. b < c \/ c < b
    BY <1>1
  <2>2. x = b \/ x = c
    BY <1>2, <2>1
  <2> QED
    BY <2>2, <1>3
<1> QED
  BY <1>3

(* An instance that learns of bad blocks keeps what it knows.                *)
LEMMA CoreGrows ==
  ASSUME NEW n, NEW f, NEW o, NEW m, NEW g, NEW p,
         n.top \in Nat, Core(n, f, o), Grown(n, f, o, m, g, p),
         m.cache = n.cache, m.wc = n.wc, m.map = n.map, m.mapBa = n.mapBa, m.top = n.top
  PROVE  Core(m, g, p)
<1> DEFINE L == Live(f, o)
           K == Live(g, p)
<1>1. /\ K \subseteq L /\ \A b \in K : g[b] = f[b] /\ b \in Blocks /\ b \notin p
      /\ o \subseteq p
  BY DEF Grown, Live
<1>2. \A d \in Mgmt..n.top : d \in Blocks
  BY ConstTypes DEF Core, Blocks
<1>3. \A d \in Blocks : Bad(m.cache, d, p) => Bad(m, d, p)
  BY <1>1 DEF Core, Grown, Bad
<1>4. \A b \in K, d \in Blocks : Bad(g[b], d, p) => Bad(m.cache, d, p)
  BY <1>1 DEF Core, Bad
<1>5. \A d \in Mgmt..m.top : Bad(m, d, p) => Bad(m.cache, d, p)
  <2> SUFFICES ASSUME NEW d \in Mgmt..m.top, Bad(m, d, p)
               PROVE  Bad(m.cache, d, p)
    OBVIOUS
  <2>1. Bad(n, d, o) \/ d \in p
    BY DEF Grown
  <2>2. Bad(n, d, o) => Bad(n.cache, d, o)
    BY DEF Core
  <2> QED
    BY <2>1, <2>2, <1>1 DEF Bad
<1>6. \A b \in K : ~Bad(m, b, p)
  <2> SUFFICES ASSUME NEW b \in K, Bad(m, b, p)
               PROVE  FALSE
    OBVIOUS
  <2>1. Bad(n, b, o) \/ b \in p
    BY DEF Grown
  <2> QED
    BY <2>1, <1>1 DEF Core
<1>7. \A b \in K : g[b].wc <= m.wc
  BY <1>1 DEF Core
<1>8. \A b \in K : g[b].wc = m.wc =>
        g[b].map = m.cache.map /\ \A d \in Blocks : Bad(m.cache, d, p) => Bad(g[b], d, p)
  <2> SUFFICES ASSUME NEW b \in K, g[b].wc = m.wc
               PROVE  g[b].map = m.cache.map
                      /\ \A d \in Blocks : Bad(m.cache, d, p) => Bad(g[b], d, p)
    OBVIOUS
  <2>1. f[b].map = n.cache.map /\ \A d \in Blocks : Bad(n.cache, d, o) => Bad(f[b], d, o)
    BY <1>1 DEF Core
  <2> QED
    BY <2>1, <1>1 DEF Bad
<1>9. \A b \in K : b < m.top
  BY <1>1 DEF Core
<1> HIDE DEF K, L
<1> QED
  BY <1>3, <1>4, <1>5, <1>6, <1>7, <1>8, <1>9 DEF Core, K

(* So do the marks of the blocks a writer has passed.                        *)
LEMMA MarksGrow ==
  ASSUME NEW n \in Ni, NEW f, NEW o, NEW m \in Ni, NEW g, NEW p, Core(n, f, o), Grown(n, f, o, m, g, p), Ranges(n),
         Held(n, Live(g, p)), Marks(n, f, o),
         m.cache = n.cache, m.to = n.to, m.main = n.main, m.backup = n.backup,
         m.limit = n.limit, m.at <= Sig,
         \A d \in n.at..m.at - 1 : Bad(m, d, p)
  PROVE  Marks(m, g, p)
<1> DEFINE L == Live(f, o)
           K == Live(g, p)
           Know(d) == Bad(n, d, o) => Bad(m, d, p)
<1> n.main \in Nat /\ n.backup \in Nat /\ n.mapBa \in Nat /\ n.top \in Nat
    /\ n.at \in Int /\ m.at \in Int
  BY DEF Ni
<1>1. /\ K \subseteq L /\ \A b \in K : g[b] = f[b] /\ b \in Blocks
      /\ o \subseteq p /\ \A d \in Blocks : Know(d)
  BY DEF Grown, Live
<1>2. /\ \A d \in Mgmt..n.main - 1 : d \in Blocks
      /\ \A d \in Mgmt..n.backup - 1 : d \in Blocks
  BY ConstTypes DEF Core, Ranges, Blocks
<1>3. \A x \in Nat : \A d \in x..m.at - 1 : d \in Blocks /\ (d \in x..n.at - 1 \/ d \in n.at..m.at - 1)
  BY ConstTypes DEF Blocks
<1>4. ASSUME NEW x \in Nat, \A d \in x..n.at - 1 : Bad(n, d, o)
      PROVE  \A d \in x..m.at - 1 : Bad(m, d, p)
  BY <1>1, <1>3, <1>4
<1>5. ASSUME NEW d \in Blocks, AllBad(n, d, f, o)
      PROVE  AllBad(m, d, g, p)
  <2>1. Bad(m, d, p)
    BY <1>1, <1>5 DEF AllBad
  <2>2. Bad(m.cache, d, p)
    BY <1>1, <1>5 DEF AllBad, Bad
  <2>3. \A b \in K : Bad(g[b], d, p)
    BY <1>1, <1>5 DEF AllBad, Bad
  <2> QED
    BY <2>1, <2>2, <2>3 DEF AllBad
<1>6. ASSUME NEW b \in K, Near(n, b, f, o)
      PROVE  Near(m, b, g, p)
  BY <1>1, <1>6 DEF Near, Bad
<1>7. m.main # 0 /\ m.to \notin {"front", "temp", "rescued"} =>
        \A d \in Mgmt..m.main - 1 : AllBad(m, d, g, p)
  BY <1>2, <1>5 DEF Marks
<1>8. m.to \in {"backup", "oneBackup"} => \A d \in m.backup..m.at - 1 : Bad(m, d, p)
  BY <1>4 DEF Marks
<1>9. m.to \in {"main", "oneMain"} => \A d \in m.main..m.at - 1 : Bad(m, d, p)
  BY <1>4 DEF Marks
<1>10. m.to \in {"rebuild", "front", "rescued"} => \A d \in Mgmt..m.at - 1 : Bad(m, d, p)
  BY <1>4, ConstTypes DEF Marks
<1>11. m.to \in {"temp", "rescued"} => \A d \in Mgmt..m.backup - 1 : Bad(m, d, p)
  BY <1>1, <1>2 DEF Marks
<1>12. m.to \in {"main", "oneMain", "temp"} /\ m.backup # 0 => Near(m, m.backup, g, p)
  BY <1>6 DEF Marks, Held
<1>13. m.to = "rescued" => Near(m, m.limit, g, p)
  BY <1>6 DEF Marks, Held
<1>14. m.to = "front" => NearBelow(m, g, p)
  <2> SUFFICES ASSUME n.to = "front", NEW d \in Mgmt..n.main - 1, Bad(n.cache, d, p)
               PROVE  Bad(g[n.main], d, p)
    BY DEF NearBelow
  <2>1. NearBelow(n, f, o) /\ n.main \in K
    BY DEF Marks, Held, Ranges
  <2> QED
    BY <2>1, <1>1 DEF NearBelow, Bad
<1> QED
  BY <1>7, <1>8, <1>9, <1>10, <1>11, <1>12, <1>13, <1>14 DEF Marks

----------------------------------------------------------------------------
(* A table is written.                                                       *)

(* The table in the cache is written into a usable block c, which leaves at  *)
(* most one other live table, and the blocks below both are bad: flash and   *)
(* instance keep what they say.                                              *)
LEMMA TableWritten ==
  ASSUME NEW n \in Ni, NEW f, NEW o, NEW g, NEW x, NEW c \in Mgmt..n.top - 1,
         Flash(f, o), Core(n, f, o), ~Bad(n, c, o), DOMAIN g = Blocks, g[c] = n.cache,
         \A b \in Blocks \ {c} : g[b] = f[b],
         Live(f, o) \ {c} \subseteq {x},
         \A b \in Live(f, o) \ {c}, d \in Blocks :
           Mgmt <= d /\ d < b /\ d < c => Bad(n.cache, d, o) /\ Bad(f[b], d, o)
  PROVE  Flash(g, o) /\ Core(n, g, o) /\ Live(g, o) = Live(f, o) \cup {c}
<1> DEFINE L == Live(f, o)
           K == Live(g, o)
<1> n.top \in Nat /\ n.mapBa \in Nat /\ n.wc \in Nat
  BY DEF Ni
<1>1. /\ n.cache \in Saved /\ n.cache.wc = n.wc /\ Placed(n.cache.map, n.top)
      /\ n.top <= Sig - 1
      /\ \A b \in L : b < n.top /\ ~Bad(n, b, o) /\ f[b].wc <= n.wc
      /\ \A d \in Blocks : Bad(n.cache, d, o) => Bad(n, d, o)
      /\ \A b \in L, d \in Blocks : Bad(f[b], d, o) => Bad(n.cache, d, o)
      /\ \A b \in L : f[b].wc = n.wc =>
           f[b].map = n.cache.map /\ \A d \in Blocks : Bad(n.cache, d, o) => Bad(f[b], d, o)
  BY DEF Core
<1>2. c \in Blocks /\ c \notin o /\ c \in Nat
  BY <1>1, ConstTypes DEF Bad, Blocks
<1>3. K = L \cup {c}
  BY <1>1, <1>2, Contents DEF Live
<1>4. \A b \in K : b = c \/ (b \in L \ {c} /\ b = x /\ g[b] = f[b])
  BY <1>3 DEF Live
<1>5. \A b \in K : b \in Int /\ b \in Blocks /\ g[b].wc \in Int
  BY <1>1, <1>3, <1>4, ConstTypes DEF Live, Blocks, Flash, TablesLoadable, Saved
<1>6. \A b \in K : b + 1 <= n.top /\ ~Bad(n.cache, b, o)
  BY <1>1, <1>2, <1>4, <1>5
<1> HIDE DEF K
<1>7. TablesLoadable(g, o)
  <2> SUFFICES ASSUME NEW b \in K
               PROVE  /\ b \in Mgmt..Sig - 2 /\ g[b] \in Saved /\ Placed(g[b].map, b + 1)
                      /\ \A d \in K : g[b].st[d] = "good"
    BY DEF TablesLoadable, K
  <2>1. CASE b = c
    <3>1. c \in Mgmt..Sig - 2
      BY <1>1, <1>2, ConstTypes
    <3>2. Placed(n.cache.map, c + 1)
      BY <1>1, <1>2, ConstTypes DEF Placed, Avoids
    <3>3. \A d \in K : n.cache.st[d] = "good"
      BY <1>6 DEF Bad
    <3> QED
      BY <2>1, <3>1, <3>2, <3>3, <1>1
  <2>2. CASE b # c
    <3>1. b \in L /\ g[b] = f[b]
      BY <2>2, <1>4
    <3>2. \A d \in K : ~Bad(f[b], d, o)
      BY <1>1, <1>5, <1>6, <3>1
    <3>3. \A d \in K : f[b].st[d] = "good"
      BY <3>2 DEF Bad
    <3> QED
      BY <3>1, <3>3 DEF Flash, TablesLoadable
  <2> QED
    BY <2>1, <2>2
<1>8. AtMostTwo(g, o)
  <2> SUFFICES ASSUME NEW a \in K, NEW b \in K, NEW d \in K, a < b
               PROVE  d = a \/ d = b
    BY DEF AtMostTwo, K
  <2> QED
    BY <1>4, <1>5
<1>9. BelowBoth(g, o)
  <2> SUFFICES ASSUME NEW a \in K, NEW b \in K, a < b, NEW d \in Mgmt..a - 1
               PROVE  Bad(g[a], d, o) /\ Bad(g[b], d, o)
    BY DEF BelowBoth, K
  <2>1. d \in Blocks
    BY <1>5, ConstTypes DEF Blocks
  <2>2. CASE a = c
    <3>1. b \in L \ {c} /\ g[b] = f[b]
      BY <2>2, <1>4, <1>5
    <3> QED
      BY <2>1, <2>2, <3>1, <1>5, ConstTypes
  <2>3. CASE b = c
    <3>1. a \in L \ {c} /\ g[a] = f[a]
      BY <2>3, <1>4, <1>5
    <3> QED
      BY <2>1, <2>3, <3>1, <1>5, ConstTypes
  <2> QED
    BY <1>4, <1>5, <2>2, <2>3
<1>10. NewestClear(g, o)
  <2> SUFFICES ASSUME NEW b \in K, \A d \in K : g[d].wc <= g[b].wc, NEW e \in K
               PROVE  Avoids(g[b].map, Mgmt..e + 1)
    BY DEF NewestClear, K
  <2>1. c \in K
    BY <1>3
  <2>2. g[b].map = n.cache.map
    <3>1. CASE b = c
      BY <3>1
    <3>2. CASE b # c
      <4>1. b \in L /\ g[b] = f[b] /\ n.wc <= f[b].wc
        BY <3>2, <1>1, <1>4, <2>1
      <4>2. f[b].wc = n.wc
        BY <4>1, <1>1, <1>5
      <4> QED
        BY <4>1, <4>2, <1>1
    <3> QED
      BY <3>1, <3>2
  <2>3. \A d \in Mgmt..e + 1 : d \in Mgmt..n.top
    BY <1>5, <1>6, ConstTypes
  <2> QED
    BY <2>2, <2>3, <1>1 DEF Placed, Avoids
<1>11. SameAge(g, o)
  <2> SUFFICES ASSUME NEW a \in K, NEW b \in K, g[a].wc = g[b].wc
               PROVE  g[a].map = g[b].map
    BY DEF SameAge, K
  <2> QED
    BY <1>1, <1>4
<1>12. NewerKnowsMore(g, o)
  <2> SUFFICES ASSUME NEW a \in K, NEW b \in K, g[a].wc <= g[b].wc, NEW d \in Blocks,
                      Bad(g[a], d, o)
               PROVE  Bad(g[b], d, o)
    BY DEF NewerKnowsMore, K
  <2>1. CASE a = c /\ b # c
    <3>1. b \in L /\ g[b] = f[b] /\ n.wc <= f[b].wc
      BY <2>1, <1>1, <1>4
    <3>2. f[b].wc = n.wc
      BY <3>1, <1>1, <1>5
    <3> QED
      BY <2>1, <3>1, <3>2, <1>1
  <2>2. CASE a # c /\ b = c
    BY <2>2, <1>1, <1>4
  <2> QED
    BY <1>4, <2>1, <2>2
<1>13. Flash(g, o)
  BY <1>7, <1>8, <1>9, <1>10, <1>11, <1>12 DEF Flash
<1>14. Core(n, g, o)
  <2>1. \A b \in K : b < n.top /\ ~Bad(n, b, o) /\ g[b].wc <= n.wc
    BY <1>1, <1>4
  <2>2. \A b \in K, d \in Blocks : Bad(g[b], d, o) => Bad(n.cache, d, o)
    BY <1>1, <1>4
  <2>3. \A b \in K : g[b].wc = n.wc =>
          g[b].map = n.cache.map /\ \A d \in Blocks : Bad(n.cache, d, o) => Bad(g[b], d, o)
    BY <1>1, <1>4
  <2> QED
    BY <2>1, <2>2, <2>3 DEF Core, K
<1> QED
  BY <1>3, <1>13, <1>14 DEF K

----------------------------------------------------------------------------
(* A writer that has found the block c.                                      *)

WritesAt(n, f, o, c, g) ==
  /\ n \in Ni /\ o \subseteq Blocks /\ Flash(f, o) /\ Ram(n, f, o) /\ n.to \in Writes
  /\ c \in n.at..n.limit - 1 /\ ~Bad(n, c, o) /\ \A d \in n.at..c - 1 : Bad(n, d, o)
  /\ DOMAIN g = Blocks /\ g[c] = n.cache /\ \A b \in Blocks \ {c} : g[b] = f[b]

(* Where it is, and what it has passed.                                      *)
LEMMA WriterPlace ==
  ASSUME NEW n, NEW f, NEW o, NEW c, NEW g, WritesAt(n, f, o, c, g)
  PROVE  /\ c \in Mgmt..n.top - 1 /\ c \in Blocks
         /\ \A d \in Mgmt..n.top : d \in Blocks
         /\ \A b \in Live(f, o) : b \in Mgmt..n.top - 1 /\ ~Bad(n, b, o)
         /\ n.to \in {"backup", "oneBackup"} =>
              c >= n.backup /\ \A d \in n.backup..c - 1 : Bad(n, d, o)
         /\ n.to \in {"main", "oneMain"} =>
              c >= n.main /\ \A d \in n.main..c - 1 : Bad(n, d, o)
         /\ n.to \in {"rebuild", "front", "rescued"} => \A d \in Mgmt..c - 1 : Bad(n, d, o)
<1> /\ n.top \in Nat /\ n.mapBa \in Nat /\ n.main \in Nat /\ n.backup \in Nat
    /\ n.at \in Int /\ n.limit \in Int /\ c \in Int
  BY DEF WritesAt, Ni
<1>1. Mgmt <= n.mapBa /\ n.mapBa <= n.top /\ n.top <= Sig - 1
  BY DEF WritesAt, Ram, Core
<1>2. \A d \in Mgmt..n.top : d \in Blocks
  BY <1>1, ConstTypes DEF Blocks
<1>3. Ranges(n) /\ n.to \in Writes /\ c >= n.at /\ c < n.limit
  BY DEF WritesAt, Ram
<1>4. n.at >= Mgmt /\ n.limit <= n.top
  BY <1>1, <1>3, ConstTypes DEF Ranges, Writes
<1>5. \A b \in Live(f, o) : b \in Mgmt..n.top - 1 /\ ~Bad(n, b, o)
  BY ConstTypes DEF WritesAt, Flash, TablesLoadable, Ram, Core, Live, Blocks
<1>6. n.to \in {"backup", "oneBackup"} =>
        c >= n.backup /\ \A d \in n.backup..c - 1 : Bad(n, d, o)
  BY <1>3 DEF Ranges, WritesAt, Ram, Marks
<1>7. n.to \in {"main", "oneMain"} => c >= n.main /\ \A d \in n.main..c - 1 : Bad(n, d, o)
  BY <1>3 DEF Ranges, WritesAt, Ram, Marks
<1>8. n.to \in {"rebuild", "front", "rescued"} => \A d \in Mgmt..c - 1 : Bad(n, d, o)
  BY <1>3, ConstTypes DEF Ranges, WritesAt, Ram, Marks
<1>9. c \in Mgmt..n.top - 1 /\ c \in Blocks
  BY <1>1, <1>2, <1>3, <1>4, ConstTypes
<1> QED
  BY <1>2, <1>5, <1>6, <1>7, <1>8, <1>9

\* The live table its write leaves besides the new one
Other(n) ==
  CASE n.to \in {"backup", "oneBackup", "second", "behind"} -> n.main
    [] n.to \in {"main", "oneMain", "temp"} -> n.backup
    [] n.to = "front" -> n.main
    [] n.to = "rescued" -> n.limit
    [] OTHER -> 0

(* The table a writer leaves alone is the only other live one.               *)
LEMMA OtherLeft ==
  ASSUME NEW n, NEW f, NEW o, NEW c, NEW g, WritesAt(n, f, o, c, g)
  PROVE  /\ Live(f, o) \ {c} \subseteq {Other(n)}
         /\ \A d \in Mgmt..n.top : Mgmt <= d /\ d < Other(n) /\ d < c =>
              Bad(n.cache, d, o) /\ \A b \in Live(f, o) \ {c} : Bad(f[b], d, o)
<1> DEFINE L == Live(f, o)
           Known(d) == Bad(n.cache, d, o) /\ \A b \in L \ {c} : Bad(f[b], d, o)
<1> /\ n.top \in Nat /\ n.mapBa \in Nat /\ n.main \in Nat /\ n.backup \in Nat
    /\ n.at \in Int /\ n.limit \in Int
  BY DEF WritesAt, Ni
<1>1. /\ c \in Mgmt..n.top - 1
      /\ \A d \in Mgmt..n.top : d \in Blocks
      /\ \A b \in L : b \in Mgmt..n.top - 1 /\ ~Bad(n, b, o)
  BY WriterPlace
<1>2. /\ Ranges(n) /\ Held(n, L) /\ n.to \in Writes /\ c >= n.at /\ c < n.limit
      /\ Mgmt <= n.mapBa /\ n.mapBa <= n.top
  BY DEF WritesAt, Ram, Core
<1>3. \A d \in Mgmt..n.top : Bad(n, d, o) => Bad(n.cache, d, o)
  BY DEF WritesAt, Ram, Core
<1>4. ASSUME NEW d \in Mgmt..n.main - 1, n.main # 0, n.to \notin {"front", "temp", "rescued"}
      PROVE  Known(d)
  BY <1>4 DEF WritesAt, Ram, Marks, AllBad
<1>5. ASSUME NEW d \in Mgmt..n.top, Bad(n, d, o), NEW b, Near(n, b, f, o), L \ {c} \subseteq {b}
      PROVE  Known(d)
  BY <1>1, <1>3, <1>5 DEF Near
<1>6. CASE n.to \in {"backup", "oneBackup"}
  <2>1. n.backup \in n.backup..c - 1 \/ c = n.backup
    BY <1>6, <1>1, <1>2 DEF Ranges
  <2>2. L \ {c} \subseteq {n.main}
    BY <1>6, <1>1, <1>2, <2>1, WriterPlace DEF Held, Rest
  <2>3. Other(n) = n.main
    BY <1>6 DEF Other
  <2> QED
    BY <2>2, <2>3, <1>4, <1>6, <1>2 DEF Ranges
<1>7. CASE n.to \in {"main", "oneMain"}
  <2>1. n.main \in n.main..c - 1 \/ c = n.main
    BY <1>7, <1>1, WriterPlace
  <2>2. L \ {c} \subseteq {n.backup} \ {0}
    BY <1>7, <1>1, <1>2, <2>1, WriterPlace DEF Held, Rest
  <2>3. Other(n) = n.backup
    BY <1>7 DEF Other
  <2>4. ASSUME NEW d \in Mgmt..n.top, d < c, n.backup # 0
        PROVE  Known(d)
    <3>1. CASE d < n.main
      BY <3>1, <1>4, <1>7, <1>2, <2>4, ConstTypes DEF Ranges
    <3>2. CASE d >= n.main
      <4>1. d \in n.main..c - 1 /\ Bad(n, d, o)
        BY <3>2, <2>4, <1>7, <1>1, WriterPlace
      <4>2. Near(n, n.backup, f, o)
        BY <1>7, <2>4 DEF WritesAt, Ram, Marks
      <4> QED
        BY <4>1, <4>2, <2>2, <1>5
    <3> QED
      BY <3>1, <3>2, ConstTypes
  <2> QED
    BY <2>2, <2>3, <2>4, ConstTypes
<1>8. CASE n.to = "rebuild"
  BY <1>8, <1>2, ConstTypes DEF Other, Held, Ranges
<1>9. CASE n.to \in {"second", "behind"}
  <2>1. L = {n.main} /\ Other(n) = n.main /\ n.main # 0
    BY <1>9, <1>2 DEF Other, Held, Ranges
  <2> QED
    BY <2>1, <1>4, <1>9
<1>10. CASE n.to = "front"
  <2>1. L = {n.main} /\ Other(n) = n.main /\ NearBelow(n, f, o)
    BY <1>10, <1>2 DEF Other, Held, Ranges, WritesAt, Ram, Marks
  <2>2. \A d \in Mgmt..c - 1 : Bad(n, d, o)
    BY <1>10, WriterPlace
  <2>3. ASSUME NEW d \in Mgmt..n.top, d < n.main, d < c
        PROVE  Known(d)
    <3>1. d \in Mgmt..c - 1 /\ d \in Mgmt..n.main - 1
      BY <2>3, <1>1, ConstTypes
    <3>2. Bad(n.cache, d, o)
      BY <3>1, <2>2, <1>3
    <3> QED
      BY <3>1, <3>2, <2>1 DEF NearBelow
  <2> QED
    BY <2>1, <2>3
<1>11. CASE n.to = "temp"
  <2>1. L = {n.backup} /\ Other(n) = n.backup /\ Near(n, n.backup, f, o)
    BY <1>11, <1>2 DEF Other, Held, Ranges, WritesAt, Ram, Marks
  <2>2. \A d \in Mgmt..n.backup - 1 : Bad(n, d, o)
    BY <1>11 DEF WritesAt, Ram, Marks
  <2> QED
    BY <2>1, <2>2, <1>1, <1>5
<1>12. CASE n.to = "rescued"
  <2>1. L \subseteq {n.backup, n.limit} /\ Other(n) = n.limit /\ Near(n, n.limit, f, o)
    BY <1>12, <1>2 DEF Other, Held, WritesAt, Ram, Marks
  <2>2. \A d \in Mgmt..c - 1 : Bad(n, d, o)
    BY <1>12, WriterPlace
  <2>3. ~Bad(n, c, o) /\ \A d \in Mgmt..n.backup - 1 : Bad(n, d, o)
    BY <1>12 DEF WritesAt, Ram, Marks
  <2>4. c >= n.backup
    BY <2>3, <1>1
  <2>5. n.backup \in Mgmt..n.top
    BY <1>12, <1>2, ConstTypes DEF Ranges
  <2>6. L \ {c} \subseteq {n.limit}
    BY <2>1, <2>2, <2>4, <2>5, <1>1
  <2> QED
    BY <2>1, <2>2, <2>6, <1>1, <1>5
<1> QED
  BY <1>2, <1>6, <1>7, <1>8, <1>9, <1>10, <1>11, <1>12 DEF Writes

(* Writing a table keeps flash and instance, whatever writer is at work.     *)
LEMMA WriteTables ==
  ASSUME NEW n, NEW f, NEW o, NEW c, NEW g, WritesAt(n, f, o, c, g)
  PROVE  /\ Flash(g, o) /\ Core(n, g, o)
         /\ c \in Live(g, o) /\ Live(g, o) = Live(f, o) \cup {c}
         /\ Live(g, o) \subseteq {c, Other(n)}
<1>1. /\ c \in Mgmt..n.top - 1
      /\ Live(f, o) \ {c} \subseteq {Other(n)}
      /\ \A b \in Live(f, o) : b \in Mgmt..n.top - 1
  BY WriterPlace, OtherLeft
<1>2. n \in Ni /\ Flash(f, o) /\ Core(n, f, o) /\ ~Bad(n, c, o) /\ DOMAIN g = Blocks
      /\ g[c] = n.cache /\ \A b \in Blocks \ {c} : g[b] = f[b]
  BY DEF WritesAt, Ram
<1>3. \A b \in Live(f, o) \ {c}, d \in Blocks :
        Mgmt <= d /\ d < b /\ d < c => Bad(n.cache, d, o) /\ Bad(f[b], d, o)
  <2> SUFFICES ASSUME NEW b \in Live(f, o) \ {c}, NEW d \in Blocks,
                      Mgmt <= d, d < b, d < c
               PROVE  Bad(n.cache, d, o) /\ Bad(f[b], d, o)
    OBVIOUS
  <2>1. b = Other(n)
    BY <1>1
  <2>2. d \in Mgmt..n.top
    BY <1>1, <1>2, ConstTypes DEF Ni, Blocks
  <2> QED
    BY <2>1, <2>2, OtherLeft
<1> HIDE DEF Other
<1>4. Flash(g, o) /\ Core(n, g, o) /\ Live(g, o) = Live(f, o) \cup {c}
  BY <1>1, <1>2, <1>3, TableWritten
<1> QED
  BY <1>1, <1>4

(* The blocks below the new table are bad, or below the main one as before.  *)
LEMMA WriteLows ==
  ASSUME NEW n, NEW f, NEW o, NEW c, NEW g, WritesAt(n, f, o, c, g)
  PROVE  /\ n.to \in {"main", "oneMain", "rebuild", "front", "rescued"} =>
              \A d \in Mgmt..c - 1 : AllBad(n, d, g, o)
         /\ n.to \in {"backup", "oneBackup", "second", "behind"} =>
              \A d \in Mgmt..n.main - 1 : AllBad(n, d, g, o)
<1> /\ n.top \in Nat /\ n.mapBa \in Nat /\ n.main \in Nat /\ n.backup \in Nat
    /\ n.at \in Int /\ n.limit \in Int
  BY DEF WritesAt, Ni
<1>1. /\ c \in Mgmt..n.top - 1
      /\ Live(f, o) \ {c} \subseteq {Other(n)}
      /\ \A b \in Live(f, o) : b \in Mgmt..n.top - 1
      /\ \A d \in Mgmt..n.top : d \in Blocks
  BY WriterPlace, OtherLeft
<1>2. /\ Live(g, o) = Live(f, o) \cup {c} /\ g[c] = n.cache
      /\ \A b \in Live(f, o) \ {c} : g[b] = f[b]
  <2>1. Live(g, o) = Live(f, o) \cup {c}
    BY WriteTables
  <2> QED
    BY <2>1 DEF WritesAt, Live
<1>3. /\ Ranges(n) /\ Held(n, Live(f, o)) /\ Mgmt <= n.mapBa /\ n.mapBa <= n.top
      /\ c >= n.at /\ c < n.limit
      /\ \A d \in Mgmt..n.top : Bad(n, d, o) => Bad(n.cache, d, o)
  BY <1>1 DEF WritesAt, Ram, Core
<1>4. ASSUME n.to \in {"main", "oneMain", "rebuild", "front", "rescued"}, NEW d \in Mgmt..c - 1
      PROVE  AllBad(n, d, g, o)
  <2>1. d \in Mgmt..n.top
    BY <1>1, ConstTypes
  <2>2. Bad(n, d, o)
    <3>1. CASE n.to \in {"main", "oneMain"} /\ d < n.main
      BY <3>1, <1>4, <1>3, ConstTypes DEF WritesAt, Ram, Marks, AllBad, Ranges
    <3>2. CASE n.to \in {"main", "oneMain"} /\ d >= n.main
      BY <3>2, <1>4, WriterPlace, ConstTypes
    <3>3. CASE n.to \notin {"main", "oneMain"}
      BY <3>3, <1>4, WriterPlace
    <3> QED
      BY <3>1, <3>2, <3>3, ConstTypes
  <2>3. \A b \in Live(f, o) \ {c} : d < b
    <3>1. \A b \in Live(f, o) \ {c} : b # 0 /\ b = Other(n)
      BY <1>1, ConstTypes
    <3>2. Other(n) = 0 \/ c < Other(n)
      BY <1>4, <1>3 DEF Other, Ranges
    <3>3. \A b \in Live(f, o) \ {c} : c < b
      BY <3>1, <3>2
    <3> QED
      BY <3>3, <1>1, ConstTypes
  <2>4. \A b \in Live(f, o) \ {c} : Bad(f[b], d, o)
    BY <2>1, <2>3, <1>1, OtherLeft, ConstTypes
  <2>5. \A b \in Live(g, o) : Bad(g[b], d, o)
    BY <2>1, <2>2, <2>4, <1>2, <1>3
  <2> QED
    BY <2>1, <2>2, <2>5, <1>3 DEF AllBad
<1>5. ASSUME n.to \in {"backup", "oneBackup", "second", "behind"}, NEW d \in Mgmt..n.main - 1
      PROVE  AllBad(n, d, g, o)
  <2>1. n.main # 0 /\ AllBad(n, d, f, o)
    BY <1>5, <1>3 DEF WritesAt, Ram, Marks, Ranges
  <2> QED
    BY <2>1, <1>2 DEF AllBad
<1> QED
  BY <1>4, <1>5

----------------------------------------------------------------------------
(* What the writers do when the table is in block c.                         *)

SameTables(n, m) ==
  /\ m.st = n.st /\ m.map = n.map /\ m.cache = n.cache /\ m.wc = n.wc /\ m.top = n.top

(* What an instance knows does not depend on where its tables are.           *)
LEMMA CoreMoves ==
  ASSUME NEW n, NEW m, NEW f, NEW o, Core(n, f, o), SameTables(n, m),
         Mgmt <= m.mapBa, m.mapBa <= m.top
  PROVE  Core(m, f, o)
BY DEF Core, SameTables, Bad

(* Nor does what it knows of a single block.                                 *)
LEMMA AllBadMoves ==
  ASSUME NEW n, NEW m, NEW d, NEW f, NEW o, SameTables(n, m), AllBad(n, d, f, o)
  PROVE  AllBad(m, d, f, o)
BY DEF AllBad, SameTables, Bad

(* Starting a writer sets its range and nothing else.                        *)
LEMMA WriteFields ==
  ASSUME NEW n \in Ni, NEW t \in Tos, NEW a \in Int, NEW l \in Int
  PROVE  LET m == Write(n, t, a, l)
         IN  /\ m \in Ni /\ SameTables(n, m)
             /\ m.to = t /\ m.at = a /\ m.from = a /\ m.limit = l
             /\ m.main = n.main /\ m.backup = n.backup /\ m.mapBa = n.mapBa
             /\ m.op = n.op /\ m.dirty = n.dirty /\ m.prot = n.prot
             /\ m.lb = n.lb /\ m.pb = n.pb /\ m.data = n.data
BY DEF Write, Ni, SameTables

(* Ending one sets its result and nothing else.                              *)
LEMMA DoneFields ==
  ASSUME NEW n \in Ni, NEW k \in BOOLEAN
  PROVE  LET m == Done(n, k)
         IN  /\ m \in Ni /\ SameTables(n, m) /\ m.to = "done" /\ m.ok = k
             /\ m.main = n.main /\ m.backup = n.backup /\ m.mapBa = n.mapBa
             /\ m.op = n.op /\ m.dirty = n.dirty /\ m.prot = n.prot
             /\ m.lb = n.lb /\ m.pb = n.pb /\ m.data = n.data
BY DEF Done, Ni, SameTables, Tos

\* Where the tables are: main in x, backup in y, the spare blocks from z on
Located(n, m, x, y, z) ==
  /\ m \in Ni /\ SameTables(n, m) /\ m.main = x /\ m.backup = y /\ m.mapBa = z
  /\ m.op = n.op /\ m.prot = n.prot /\ m.lb = n.lb /\ m.pb = n.pb /\ m.data = n.data

(* Starting a writer moves no table.                                         *)
LEMMA WriteLocated ==
  ASSUME NEW n \in Ni, NEW k, NEW x, NEW y, NEW z, Located(n, k, x, y, z),
         NEW t \in Tos, NEW a \in Int, NEW l \in Int
  PROVE  LET m == Write(k, t, a, l)
         IN  Located(n, m, x, y, z) /\ m.to = t /\ m.at = a /\ m.from = a /\ m.limit = l
<1> k \in Ni
  BY DEF Located
<1> HIDE DEF Ni
<1> QED
  BY WriteFields DEF Located, SameTables

(* Ending one moves no table.                                                *)
LEMMA DoneLocated ==
  ASSUME NEW n \in Ni, NEW k, NEW x, NEW y, NEW z, Located(n, k, x, y, z), NEW b \in BOOLEAN
  PROVE  LET m == Done(k, b)
         IN  Located(n, m, x, y, z) /\ m.to = "done" /\ m.ok = b
<1> k \in Ni
  BY DEF Located
<1> QED
  BY DoneFields DEF Located, SameTables

(* What each writer goes on with once it has written its table in block c.   *)
LEMMA WrittenFields ==
  ASSUME NEW n \in Ni, NEW c \in Nat, n.to \in Writes
  PROVE  LET m == Written(n, c)
         IN  /\ n.to = "backup" =>
                  /\ Located(n, m, n.main, c, c + 1)
                  /\ m.to = "main" /\ m.at = n.main /\ m.limit = IF c = 0 THEN n.top ELSE c
             /\ n.to = "main" =>
                  /\ Located(n, m, c, n.backup, IF n.backup = 0 THEN c + 1 ELSE n.mapBa)
                  /\ m.to = "done"
             /\ n.to = "rebuild" =>
                  /\ Located(n, m, c, n.backup, c + 1)
                  /\ \/ m.to = "done"
                     \/ m.to = "second" /\ m.at \in c + 1..n.top - 2 /\ m.limit = n.top
             /\ n.to = "second" =>
                  /\ Located(n, m, n.main, c, c + 1)
                  /\ m.to = "wipe" /\ m.at = n.main + 1 /\ m.limit = c
             /\ n.to = "front" =>
                  /\ Located(n, m, c, n.main, n.mapBa)
                  /\ m.to = "wipe" /\ m.at = c + 1 /\ m.limit = n.main
             /\ n.to = "behind" =>
                  /\ Located(n, m, n.main, n.backup, n.mapBa)
                  /\ m.to = "wipeBehind" /\ m.at = n.mapBa /\ m.limit = c
             /\ n.to = "temp" =>
                  /\ Located(n, m, n.main, n.backup, c + 1)
                  /\ m.to = "rescued" /\ m.at = Mgmt /\ m.limit = c
             /\ n.to = "rescued" /\ n.limit \in Nat =>
                  Located(n, m, c, n.limit, n.mapBa) /\ m.to = "done"
             /\ n.to = "oneMain" => Located(n, m, c, n.backup, n.mapBa) /\ m.to = "done"
             /\ n.to = "oneBackup" => Located(n, m, n.main, c, c + 1) /\ m.to = "done"
<1> DEFINE backupAt == [n EXCEPT !.backup = c, !.mapBa = c + 1]
           after == [n EXCEPT !.main = c, !.mapBa = c + 1, !.dirty = FALSE]
           front == [n EXCEPT !.main = c, !.backup = n.main, !.dirty = FALSE]
<1> DEFINE m == Written(n, c)
<1> n.main \in Nat /\ n.backup \in Nat /\ n.mapBa \in Nat /\ n.top \in Nat
    /\ n.limit \in Int /\ c + 1 \in Nat
  BY DEF Ni
<1>0. {"main", "second", "wipe", "wipeBehind", "rescued", "done"} \subseteq Tos /\ Mgmt \in Nat
  BY ConstTypes DEF Tos, Writes, Wipes
<1>1. CASE n.to = "backup"
  <2>1. Written(n, c) = WriteMain(Clean(backupAt))
    BY <1>1 DEF Written
  <2>2. Located(n, Clean(backupAt), n.main, c, c + 1)
    BY DEF Located, SameTables, Clean, Ni
    <2> HIDE DEF backupAt
  <2>3. /\ Located(n, m, n.main, c, c + 1)
        /\ m.to = "main" /\ m.at = n.main /\ m.limit = IF c = 0 THEN n.top ELSE c
    <3>1. WriteMain(Clean(backupAt)) = Write(Clean(backupAt), "main", n.main, IF c = 0 THEN n.top ELSE c)
      BY <2>2 DEF WriteMain, Located, SameTables
    <3> QED
      BY <1>0, <2>1, <2>2, <3>1, WriteLocated
  <2> QED
    BY <1>1, <2>3
<1>2. CASE n.to = "main"
  <2> DEFINE k == IF n.backup = 0 THEN after ELSE [after EXCEPT !.mapBa = n.mapBa]
  <2>1. Written(n, c) = Done(k, TRUE)
    BY <1>2 DEF Written
  <2>2. Located(n, k, c, n.backup, IF n.backup = 0 THEN c + 1 ELSE n.mapBa)
    BY DEF Located, SameTables, Ni
  <2> HIDE DEF k
    <2>3. /\ Located(n, m, c, n.backup, IF n.backup = 0 THEN c + 1 ELSE n.mapBa)
        /\ m.to = "done"
    BY <2>1, <2>2, DoneLocated
  <2> QED
    BY <1>2, <2>3
<1>3. CASE n.to = "rebuild"
  <2> DEFINE R == Reserved(after, c + 1)
  <2>1. Written(n, c) = IF R = {} THEN Done(after, TRUE) ELSE Write(after, "second", Max(R), n.top)
    BY <1>3 DEF Written
  <2>2. Located(n, after, c, n.backup, c + 1)
    BY DEF Located, SameTables, Ni
  <2> HIDE DEF after
  <2>3. R # {} => Max(R) \in c + 1..n.top - 2
    BY <2>2, ReservedIn DEF Located, SameTables
  <2> HIDE DEF R
  <2>4. Max(R) \in c + 1..n.top - 2 => Max(R) \in Int
    OBVIOUS
    <2>5. CASE R = {}
    BY <1>3, <2>1, <2>2, <2>5, DoneLocated
  <2>6. CASE R # {}
    <3>1. /\ Located(n, m, c, n.backup, c + 1)
          /\ m.to = "second" /\ m.at = Max(R) /\ m.limit = n.top
      <4>1. m = Write(after, "second", Max(R), n.top)
        BY <2>1, <2>6
      <4>2. Max(R) \in Int /\ n.top \in Int /\ "second" \in Tos
        BY <1>0, <2>3, <2>4, <2>6
      <4> QED
        BY <4>1, <4>2, <2>2, WriteLocated
    <3> QED
      BY <1>3, <2>3, <2>6, <3>1
  <2> QED
    BY <2>5, <2>6
<1>4. CASE n.to = "second"
  <2>1. Written(n, c) = Write(backupAt, "wipe", n.main + 1, c)
    BY <1>4 DEF Written
  <2>2. Located(n, backupAt, n.main, c, c + 1)
    BY DEF Located, SameTables, Ni
    <2> HIDE DEF backupAt
  <2>3. Located(n, m, n.main, c, c + 1) /\ m.to = "wipe" /\ m.at = n.main + 1 /\ m.limit = c
    BY <1>0, <2>1, <2>2, WriteLocated
  <2> QED
    BY <1>4, <2>3
<1>5. CASE n.to = "front"
  <2>1. Written(n, c) = Write(front, "wipe", c + 1, n.main)
    BY <1>5 DEF Written
  <2>2. Located(n, front, c, n.main, n.mapBa)
    BY DEF Located, SameTables, Ni
    <2> HIDE DEF front
  <2>3. Located(n, m, c, n.main, n.mapBa) /\ m.to = "wipe" /\ m.at = c + 1 /\ m.limit = n.main
    BY <1>0, <2>1, <2>2, WriteLocated
  <2> QED
    BY <1>5, <2>3
<1>6. CASE n.to = "behind"
  <2>1. Written(n, c) = Write(n, "wipeBehind", n.mapBa, c)
    BY <1>6 DEF Written
  <2> QED
    BY <1>0, <1>6, <2>1, WriteFields DEF Located, SameTables
<1>7. CASE n.to = "temp"
  <2> DEFINE k == [n EXCEPT !.mapBa = c + 1]
  <2>1. Written(n, c) = Write(k, "rescued", Mgmt, c)
    BY <1>7 DEF Written
  <2>2. Located(n, k, n.main, n.backup, c + 1)
    BY DEF Located, SameTables, Ni
  <2> HIDE DEF k
    <2>3. Located(n, m, n.main, n.backup, c + 1) /\ m.to = "rescued" /\ m.at = Mgmt /\ m.limit = c
    BY <1>0, <2>1, <2>2, WriteLocated
  <2> QED
    BY <1>7, <2>3
<1>8. CASE n.to = "rescued" /\ n.limit \in Nat
  <2> DEFINE k == Clean([n EXCEPT !.main = c, !.backup = n.limit])
  <2>1. Written(n, c) = Done(k, TRUE)
    BY <1>8 DEF Written
  <2>2. Located(n, k, c, n.limit, n.mapBa)
    BY <1>8 DEF Located, SameTables, Ni, Clean
  <2> HIDE DEF k
    <2>3. Located(n, m, c, n.limit, n.mapBa) /\ m.to = "done"
    BY <2>1, <2>2, DoneLocated
  <2> QED
    BY <1>8, <2>3
<1>9. CASE n.to = "oneMain"
  <2> DEFINE k == Clean([n EXCEPT !.main = c])
  <2>1. Written(n, c) = Done(k, TRUE)
    BY <1>9 DEF Written
  <2>2. Located(n, k, c, n.backup, n.mapBa)
    BY <1>9 DEF Located, SameTables, Ni, Clean
  <2> HIDE DEF k
    <2>3. Located(n, m, c, n.backup, n.mapBa) /\ m.to = "done"
    BY <2>1, <2>2, DoneLocated
  <2> QED
    BY <1>9, <2>3
<1>10. CASE n.to = "oneBackup"
  <2>1. Written(n, c) = Done(Clean(backupAt), TRUE)
    BY <1>10 DEF Written
  <2>2. Located(n, Clean(backupAt), n.main, c, c + 1)
    BY DEF Located, SameTables, Clean, Ni
    <2> HIDE DEF backupAt
  <2>3. Located(n, m, n.main, c, c + 1) /\ m.to = "done"
    BY <2>1, <2>2, DoneLocated
  <2> QED
    BY <1>10, <2>3
<1>11. CASE n.to = "rescued" /\ n.limit \notin Nat
  BY <1>11
<1> QED
  BY <1>1, <1>2, <1>3, <1>4, <1>5, <1>6, <1>7, <1>8, <1>9, <1>10, <1>11 DEF Writes

(* A writer whose table is in block c leaves flash and instance as they must *)
(* be.                                                                       *)
LEMMA WriteStep ==
  ASSUME NEW n, NEW f, NEW o, NEW c, NEW g, WritesAt(n, f, o, c, g)
  PROVE  Written(n, c) \in Ni /\ Ram(Written(n, c), g, o)
<1> DEFINE m == Written(n, c)
           L == Live(f, o)
           K == Live(g, o)
<1>1. /\ n \in Ni /\ n.to \in Writes /\ Ranges(n) /\ Held(n, L) /\ g[c] = n.cache
      /\ Mgmt <= n.mapBa /\ n.mapBa <= n.top
      /\ c \in n.at..n.limit - 1
  BY DEF WritesAt, Ram, Core
<1> /\ n.top \in Nat /\ n.mapBa \in Nat /\ n.main \in Nat /\ n.backup \in Nat
    /\ n.at \in Int /\ n.limit \in Int
  BY <1>1 DEF Ni
<1>2. /\ c \in Mgmt..n.top - 1 /\ c \in Nat /\ c # 0
      /\ c + 1 \in Nat /\ Mgmt <= c + 1 /\ c + 1 <= n.top
      /\ Mgmt \in Nat /\ Sig \in Nat /\ n.top < Sig
  <2>1. c \in Mgmt..n.top - 1 /\ n.top <= Sig - 1
    BY WriterPlace DEF WritesAt, Ram, Core
  <2> QED
    BY <2>1, ConstTypes
<1>3. Core(n, g, o) /\ c \in K /\ K = L \cup {c} /\ K \subseteq {c, Other(n)} /\ 0 \notin K
  <2>1. Core(n, g, o) /\ c \in K /\ K = L \cup {c} /\ K \subseteq {c, Other(n)} /\ Flash(g, o)
    BY WriteTables
  <2>2. 0 \notin K
    BY <2>1, ConstTypes DEF Flash, TablesLoadable
  <2> QED
    BY <2>1, <2>2
<1>4. ASSUME NEW x, NEW y, NEW z \in Nat, Located(n, m, x, y, z), Mgmt <= z, z <= n.top
      PROVE  /\ m \in Ni /\ Core(m, g, o)
             /\ m.main = x /\ m.backup = y /\ m.mapBa = z /\ m.top = n.top
             /\ \A d : AllBad(n, d, g, o) => AllBad(m, d, g, o)
             /\ Near(m, c, g, o)
             /\ \A d : Bad(m, d, o) <=> Bad(n, d, o)
  <2>1. SameTables(n, m) /\ m \in Ni /\ m.main = x /\ m.backup = y /\ m.mapBa = z /\ m.top = n.top
    BY <1>4 DEF Located, SameTables
  <2>2. Core(m, g, o)
    BY <1>3, <1>4, <2>1, CoreMoves
  <2>3. \A d : AllBad(n, d, g, o) => AllBad(m, d, g, o)
    BY <2>1, AllBadMoves
  <2>4. Near(m, c, g, o)
    BY <1>1, <2>1 DEF Near, SameTables
  <2>5. \A d : Bad(m, d, o) <=> Bad(n, d, o)
    BY <2>1 DEF Bad, SameTables
  <2> QED
    BY <2>1, <2>2, <2>3, <2>4, <2>5
<1> HIDE DEF m, K, L
<1>5. CASE n.to = "backup"
  <2>1. Located(n, m, n.main, c, c + 1) /\ m.to = "main" /\ m.at = n.main /\ m.limit = c
    BY <1>1, <1>2, <1>5, WrittenFields DEF m
  <2>2. /\ m \in Ni /\ Core(m, g, o) /\ m.top = n.top
        /\ m.main = n.main /\ m.backup = c /\ m.mapBa = c + 1
        /\ \A d : AllBad(n, d, g, o) => AllBad(m, d, g, o)
        /\ Near(m, c, g, o)
    BY <1>2, <1>4, <2>1
  <2>3. n.main # 0 /\ Mgmt <= n.main /\ n.main < c /\ K \subseteq {n.main, c}
    BY <1>1, <1>2, <1>3, <1>5 DEF Ranges, Other
  <2>4. \A d \in Mgmt..n.main - 1 : AllBad(m, d, g, o)
    BY <1>5, <2>2, WriteLows
  <2>5. Ranges(m)
    BY <1>2, <2>1, <2>2, <2>3 DEF Ranges, Rest, Writes, Wipes
  <2>6. Held(m, K)
    BY <1>2, <1>3, <2>1, <2>2, <2>3 DEF Held, Rest
  <2>7. Marks(m, g, o)
    BY <1>2, <2>1, <2>2, <2>3, <2>4 DEF Marks
  <2> QED
    BY <2>2, <2>5, <2>6, <2>7 DEF Ram, m, K
<1>6. CASE n.to = "oneMain" \/ (n.to = "main" /\ n.backup # 0)
  <2>1. Located(n, m, c, n.backup, n.mapBa) /\ m.to = "done"
    BY <1>1, <1>2, <1>6, WrittenFields DEF m
  <2>2. /\ m \in Ni /\ Core(m, g, o) /\ m.top = n.top
        /\ m.main = c /\ m.backup = n.backup /\ m.mapBa = n.mapBa
        /\ \A d : AllBad(n, d, g, o) => AllBad(m, d, g, o)
    BY <1>1, <1>4, <2>1
  <2>3. n.backup # 0 /\ n.backup \in L /\ c < n.backup /\ n.backup < n.mapBa
    BY <1>1, <1>2, <1>6 DEF Ranges, Held, Rest
  <2>4. K = {c, n.backup}
    BY <1>3, <1>6, <2>3 DEF Other
  <2>5. \A d \in Mgmt..c - 1 : AllBad(m, d, g, o)
    BY <1>6, <2>2, WriteLows
  <2>6. Ranges(m)
    BY <1>2, <2>1, <2>2, <2>3 DEF Ranges, Rest, Writes, Wipes
  <2>7. Held(m, K)
    BY <1>2, <2>1, <2>2, <2>3, <2>4 DEF Held, Rest
  <2>8. Marks(m, g, o)
    BY <2>1, <2>2, <2>5 DEF Marks
  <2> QED
    BY <2>2, <2>6, <2>7, <2>8 DEF Ram, m, K
<1>7. CASE n.to = "main" /\ n.backup = 0
  <2>1. Located(n, m, c, 0, c + 1) /\ m.to = "done"
    BY <1>1, <1>2, <1>7, WrittenFields DEF m
  <2>2. /\ m \in Ni /\ Core(m, g, o) /\ m.top = n.top
        /\ m.main = c /\ m.backup = 0 /\ m.mapBa = c + 1
        /\ \A d : AllBad(n, d, g, o) => AllBad(m, d, g, o)
    BY <1>2, <1>4, <2>1
  <2>3. K = {c}
    BY <1>3, <1>7 DEF Other
  <2>4. \A d \in Mgmt..c - 1 : AllBad(m, d, g, o)
    BY <1>7, <2>2, WriteLows
  <2>5. Ranges(m)
    BY <1>2, <2>1, <2>2 DEF Ranges, Rest, Writes, Wipes
  <2>6. Held(m, K)
    BY <1>2, <2>1, <2>2, <2>3 DEF Held, Rest
  <2>7. Marks(m, g, o)
    BY <2>1, <2>2, <2>4 DEF Marks
  <2> QED
    BY <2>2, <2>5, <2>6, <2>7 DEF Ram, m, K
<1>8. CASE n.to = "rebuild"
  <2>0. n.backup = 0
    BY <1>1, <1>8 DEF Ranges, Rest, Writes, Wipes
  <2>1. /\ Located(n, m, c, 0, c + 1)
        /\ \/ m.to = "done"
           \/ m.to = "second" /\ m.at \in c + 1..n.top - 2 /\ m.limit = n.top
    BY <1>1, <1>2, <1>8, <2>0, WrittenFields DEF m
  <2>2. /\ m \in Ni /\ Core(m, g, o) /\ m.top = n.top
        /\ m.main = c /\ m.backup = 0 /\ m.mapBa = c + 1
       
        /\ \A d : AllBad(n, d, g, o) => AllBad(m, d, g, o)
    BY <1>2, <1>4, <2>1
  <2>3. K = {c}
    BY <1>3, <1>8 DEF Other
  <2>4. \A d \in Mgmt..c - 1 : AllBad(m, d, g, o)
    BY <1>8, <2>2, WriteLows
  <2>5. Ranges(m)
    BY <1>2, <2>1, <2>2 DEF Ranges, Rest, Writes, Wipes
  <2>6. Held(m, K)
    BY <1>2, <2>1, <2>2, <2>3 DEF Held, Rest
  <2>7. Marks(m, g, o)
    BY <2>1, <2>2, <2>4 DEF Marks
  <2> QED
    BY <2>2, <2>5, <2>6, <2>7 DEF Ram, m, K
<1>9. CASE n.to \in {"second", "oneBackup"}
  <2>1. /\ Located(n, m, n.main, c, c + 1)
        /\ \/ m.to = "done"
           \/ m.to = "wipe" /\ m.at = n.main + 1 /\ m.limit = c
    BY <1>1, <1>2, <1>9, WrittenFields DEF m
  <2>2. /\ m \in Ni /\ Core(m, g, o) /\ m.top = n.top
        /\ m.main = n.main /\ m.backup = c /\ m.mapBa = c + 1
        /\ \A d : AllBad(n, d, g, o) => AllBad(m, d, g, o)
    BY <1>2, <1>4, <2>1
  <2>3. n.main # 0 /\ Mgmt <= n.main /\ n.main < c /\ n.main \in L
    BY <1>1, <1>2, <1>9 DEF Ranges, Held, Rest
  <2>4. K = {n.main, c}
    BY <1>3, <1>9, <2>3 DEF Other
  <2>5. \A d \in Mgmt..n.main - 1 : AllBad(m, d, g, o)
    BY <1>9, <2>2, WriteLows
  <2>6. Ranges(m)
    BY <1>2, <2>1, <2>2, <2>3 DEF Ranges, Rest, Writes, Wipes
  <2>7. Held(m, K)
    BY <1>2, <2>1, <2>2, <2>3, <2>4 DEF Held, Rest
  <2>8. Marks(m, g, o)
    BY <2>1, <2>2, <2>5 DEF Marks
  <2> QED
    BY <2>2, <2>6, <2>7, <2>8 DEF Ram, m, K
<1>10. CASE n.to = "front"
  <2>1. /\ Located(n, m, c, n.main, n.mapBa)
        /\ m.to = "wipe" /\ m.at = c + 1 /\ m.limit = n.main
    BY <1>1, <1>2, <1>10, WrittenFields DEF m
  <2>2. /\ m \in Ni /\ Core(m, g, o) /\ m.top = n.top
        /\ m.main = c /\ m.backup = n.main /\ m.mapBa = n.mapBa
        /\ \A d : AllBad(n, d, g, o) => AllBad(m, d, g, o)
    BY <1>1, <1>4, <2>1
  <2>3. n.main # 0 /\ c < n.main /\ n.main < n.mapBa /\ n.main \in L
    BY <1>1, <1>2, <1>10 DEF Ranges, Held, Rest
  <2>4. K = {c, n.main}
    BY <1>3, <1>10, <2>3 DEF Other
  <2>5. \A d \in Mgmt..c - 1 : AllBad(m, d, g, o)
    BY <1>10, <2>2, WriteLows
  <2>6. Ranges(m)
    BY <1>2, <2>1, <2>2, <2>3 DEF Ranges, Rest, Writes, Wipes
  <2>7. Held(m, K)
    BY <1>2, <2>1, <2>2, <2>3, <2>4 DEF Held, Rest
  <2>8. Marks(m, g, o)
    BY <2>1, <2>2, <2>5 DEF Marks
  <2> QED
    BY <2>2, <2>6, <2>7, <2>8 DEF Ram, m, K
<1>11. CASE n.to = "behind"
  <2>1. /\ Located(n, m, n.main, n.backup, n.mapBa)
        /\ m.to = "wipeBehind" /\ m.at = n.mapBa /\ m.limit = c
    BY <1>1, <1>2, <1>11, WrittenFields DEF m
  <2>2. /\ m \in Ni /\ Core(m, g, o) /\ m.top = n.top
        /\ m.main = n.main /\ m.backup = n.backup
        /\ m.mapBa = n.mapBa
        /\ \A d : AllBad(n, d, g, o) => AllBad(m, d, g, o)
    BY <1>1, <1>4, <2>1
  <2>3. n.main # 0 /\ n.backup = 0 /\ n.mapBa <= c /\ c < n.top /\ n.main \in L
    BY <1>1, <1>2, <1>11 DEF Ranges, Held, Rest
  <2>4. K = {n.main, c}
    BY <1>3, <1>11, <2>3 DEF Other
  <2>5. \A d \in Mgmt..n.main - 1 : AllBad(m, d, g, o)
    BY <1>11, <2>2, WriteLows
  <2>6. Ranges(m)
    BY <1>1, <1>2, <2>1, <2>2, <2>3 DEF Ranges, Rest, Writes, Wipes
  <2>7. Held(m, K)
    BY <1>2, <2>1, <2>2, <2>3, <2>4 DEF Held, Rest
  <2>8. Marks(m, g, o)
    BY <2>1, <2>2, <2>3, <2>5 DEF Marks
  <2> QED
    BY <2>2, <2>6, <2>7, <2>8 DEF Ram, m, K
<1>12. CASE n.to = "temp"
  <2>1. /\ Located(n, m, n.main, n.backup, c + 1)
        /\ m.to = "rescued" /\ m.at = Mgmt /\ m.limit = c
    BY <1>1, <1>2, <1>12, WrittenFields DEF m
  <2>2. /\ m \in Ni /\ Core(m, g, o) /\ m.top = n.top
        /\ m.main = n.main /\ m.backup = n.backup
        /\ m.mapBa = c + 1 /\ Near(m, c, g, o)
        /\ \A d : Bad(m, d, o) <=> Bad(n, d, o)
    BY <1>2, <1>4, <2>1
  <2>3. /\ n.main # 0 /\ Mgmt <= n.main /\ n.main < n.backup /\ n.backup < c /\ n.backup # 0
        /\ K \subseteq {n.backup, c}
    BY <1>1, <1>2, <1>3, <1>12 DEF Ranges, Other
  <2>4. \A d \in Mgmt..n.backup - 1 : Bad(m, d, o)
    BY <1>12, <2>2 DEF WritesAt, Ram, Marks
  <2>5. Ranges(m)
    BY <1>2, <2>1, <2>2, <2>3, ConstTypes DEF Ranges, Rest, Writes, Wipes
  <2>6. Held(m, K)
    BY <1>3, <2>1, <2>2, <2>3 DEF Held, Rest
  <2>7. Marks(m, g, o)
    BY <2>1, <2>2, <2>4, ConstTypes DEF Marks
  <2> QED
    BY <2>2, <2>5, <2>6, <2>7 DEF Ram, m, K
<1>13. CASE n.to = "rescued"
  <2>0. /\ n.limit \in Nat /\ n.limit = n.mapBa - 1 /\ n.limit \in L /\ c < n.limit
        /\ n.limit # 0
    BY <1>1, <1>2, <1>13 DEF Ranges, Held, Rest
  <2>1. Located(n, m, c, n.limit, n.mapBa) /\ m.to = "done"
    BY <1>1, <1>2, <1>13, <2>0, WrittenFields DEF m
  <2>2. /\ m \in Ni /\ Core(m, g, o) /\ m.top = n.top
        /\ m.main = c /\ m.backup = n.limit /\ m.mapBa = n.mapBa
        /\ \A d : AllBad(n, d, g, o) => AllBad(m, d, g, o)
    BY <1>1, <1>4, <2>1
  <2>4. K = {c, n.limit}
    BY <1>3, <1>13, <2>0 DEF Other
  <2>5. \A d \in Mgmt..c - 1 : AllBad(m, d, g, o)
    BY <1>13, <2>2, WriteLows
  <2>6. Ranges(m)
    BY <1>2, <2>0, <2>1, <2>2 DEF Ranges, Rest, Writes, Wipes
  <2>7. Held(m, K)
    BY <1>2, <2>0, <2>1, <2>2, <2>4 DEF Held, Rest
  <2>8. Marks(m, g, o)
    BY <2>1, <2>2, <2>5 DEF Marks
  <2> QED
    BY <2>2, <2>6, <2>7, <2>8 DEF Ram, m, K
<1> QED
  BY <1>1, <1>5, <1>6, <1>7, <1>8, <1>9, <1>10, <1>11, <1>12, <1>13 DEF Writes

----------------------------------------------------------------------------
(* The blocks an operation tries.                                            *)

(* A writer or a wipe works in the management area below the mapped blocks.  *)
LEMMA WorkRange ==
  ASSUME NEW n \in Ni, NEW f, NEW o, Core(n, f, o), Ranges(n), n.to \in Writes \cup Wipes
  PROVE  n.at \in Mgmt..Sig /\ n.limit <= n.top /\ n.top <= Sig - 1
<1> /\ n.top \in Nat /\ n.mapBa \in Nat /\ n.main \in Nat /\ n.backup \in Nat
    /\ n.at \in Int /\ n.limit \in Int
  BY DEF Ni
<1>1. Mgmt <= n.mapBa /\ n.mapBa <= n.top /\ n.top <= Sig - 1
  BY DEF Core
<1>2. n.at >= Mgmt /\ n.limit <= n.top
  BY <1>1, ConstTypes DEF Ranges, Rest, Writes, Wipes
<1> QED
  BY <1>1, <1>2, ConstTypes DEF Ranges

(* It tries the first block that is neither marked nor known to be bad.      *)
LEMMA UsableIs ==
  ASSUME IInv, On(ni), ni.to \in Writes \cup Wipes, Usable # {}
  PROVE  /\ Min(Usable) \in ni.at..ni.limit - 1 /\ Min(Usable) \in Mgmt..ni.top - 1
         /\ Min(Usable) \in Blocks /\ ~Bad(ni, Min(Usable), oob)
         /\ \A d \in ni.at..Min(Usable) - 1 : Bad(ni, d, oob)
<1> /\ ni.top \in Nat /\ ni.at \in Int /\ ni.limit \in Int
  BY DEF IInv, Ni
<1>1. ni.at \in Mgmt..Sig /\ ni.limit <= ni.top /\ ni.top <= Sig - 1
  BY WorkRange DEF IInv, Ram
<1>2. Usable \in SUBSET Nat
  BY <1>1, ConstTypes DEF Usable, Good
<1>3. Min(Usable) \in Usable /\ \A d \in Usable : Min(Usable) <= d
  BY <1>2, MinIs
<1>4. Min(Usable) \in ni.at..ni.limit - 1 /\ ~Bad(ni, Min(Usable), oob)
  BY <1>3 DEF Usable, Good, Bad
<1>5. ASSUME NEW d \in ni.at..Min(Usable) - 1
      PROVE  Bad(ni, d, oob)
  <2>1. d \in ni.at..ni.limit - 1 /\ d \notin Usable
    BY <1>1, <1>3, <1>4
  <2> QED
    BY <2>1 DEF Usable, Good, Bad
<1> QED
  BY <1>1, <1>4, <1>5, ConstTypes DEF Blocks

(* When it finds none, all its blocks are bad.                               *)
LEMMA UsableNone ==
  ASSUME Usable = {}
  PROVE  \A d \in ni.at..ni.limit - 1 : Bad(ni, d, oob)
BY DEF Usable, Good, Bad

(* What it passes over it notes; what it knows to be bad stays the same.     *)
LEMMA PassedSame ==
  ASSUME ni \in Ni, NEW c \in Int
  PROVE  LET m == Passed(c)
         IN  /\ m \in Ni /\ m.to = ni.to /\ m.main = ni.main /\ m.backup = ni.backup
             /\ m.mapBa = ni.mapBa /\ m.top = ni.top /\ m.at = ni.at /\ m.from = ni.from
             /\ m.limit = ni.limit /\ m.map = ni.map /\ m.cache = ni.cache /\ m.wc = ni.wc
             /\ m.op = ni.op /\ m.prot = ni.prot /\ m.lb = ni.lb /\ m.pb = ni.pb
             /\ m.data = ni.data /\ m.ok = ni.ok
             /\ \A d \in Blocks : Bad(m, d, oob) <=> Bad(ni, d, oob)
             /\ \A d \in Blocks : d \notin oob => m.st[d] = ni.st[d]
<1> DEFINE found == Good(ni, ni.at..c - 1) \cap oob
           s == [b \in Blocks |-> IF b \in found THEN "bad" ELSE ni.st[b]]
           k == (ni.dirty \/ found # {})
<1>1. ni.st \in States /\ s \in States /\ k \in BOOLEAN
  BY DEF Ni, States, StKinds
<1>2. \A d \in Blocks : s[d] = IF d \in found THEN "bad" ELSE ni.st[d]
  OBVIOUS
<1>3. \A d \in found : ni.st[d] = "good" /\ d \in oob
  BY DEF Good
<1>4. Passed(c) = [ni EXCEPT !.st = s, !.dirty = k]
  BY DEF Passed, Ni
<1> HIDE DEF s, k
<1>5. \A d \in Blocks : (d \in oob \/ s[d] # "good") <=> (d \in oob \/ ni.st[d] # "good")
  BY <1>2, <1>3
<1>6. Passed(c).st = s
  BY <1>4 DEF Ni
<1>7. \A d \in Blocks : d \notin oob => s[d] = ni.st[d]
  BY <1>2, <1>3
<1> HIDE DEF found
<1> QED
  BY <1>1, <1>4, <1>5, <1>6, <1>7 DEF Bad, Ni

(* Passing over bad blocks keeps the invariant of the instance.              *)
LEMMA PassedRam ==
  ASSUME IInv, On(ni), ni.to \in Writes \cup Wipes, NEW c \in Int
  PROVE  Passed(c) \in Ni /\ Ram(Passed(c), flash, oob)
<1> DEFINE m == Passed(c)
<1>1. /\ m \in Ni /\ m.to = ni.to /\ m.main = ni.main /\ m.backup = ni.backup
      /\ m.mapBa = ni.mapBa /\ m.top = ni.top /\ m.at = ni.at /\ m.from = ni.from
      /\ m.limit = ni.limit /\ m.map = ni.map /\ m.cache = ni.cache /\ m.wc = ni.wc
      /\ m.prot = ni.prot
      /\ \A d \in Blocks : Bad(m, d, oob) <=> Bad(ni, d, oob)
  BY PassedSame DEF IInv
<1> HIDE DEF m
<1>2. /\ ni \in Ni /\ Core(ni, flash, oob) /\ Ranges(ni) /\ Held(ni, Live(flash, oob))
      /\ Marks(ni, flash, oob) /\ DOMAIN flash = Blocks
  BY DEF IInv, Ram, Flash
<1> /\ ni.top \in Nat /\ ni.at \in Int
  BY <1>2 DEF Ni
<1>3. ni.at \in Mgmt..Sig /\ ni.limit <= ni.top /\ ni.top <= Sig - 1
  BY <1>2, WorkRange
<1>4. \A d \in (Mgmt..ni.top) \cup Live(flash, oob) : d \in Blocks
  BY <1>3, ConstTypes DEF Live, Blocks
<1>5. Grown(ni, flash, oob, m, flash, oob)
  BY <1>1, <1>2, <1>4 DEF Grown
<1>6. Core(m, flash, oob)
  BY <1>1, <1>2, <1>5, CoreGrows
<1>7. \A d \in ni.at..m.at - 1 : Bad(m, d, oob)
  BY <1>1
<1>8. m.at <= Sig
  BY <1>1, <1>3
<1>9. Marks(m, flash, oob)
  BY <1>1, <1>2, <1>5, <1>7, <1>8, MarksGrow
<1>10. Ranges(m) /\ Held(m, Live(flash, oob))
  BY <1>1, <1>2 DEF Ranges, Held, Rest
<1> QED
  BY <1>1, <1>6, <1>9, <1>10 DEF Ram, m

----------------------------------------------------------------------------
(* Steps on one block.                                                       *)

(* The block BlockWritten works on.                                          *)
LEMMA WrittenAt ==
  ASSUME IInv, BlockWritten
  PROVE  WritesAt(Passed(Min(Usable)), flash, oob, Min(Usable), flash')
<1> DEFINE c == Min(Usable)
           n == Passed(c)
<1>1. On(ni) /\ ni.to \in Writes
  BY DEF BlockWritten, On, Writes
<1>2. /\ c \in ni.at..ni.limit - 1 /\ c \in Mgmt..ni.top - 1
      /\ c \in Blocks /\ ~Bad(ni, c, oob)
      /\ \A d \in ni.at..c - 1 : Bad(ni, d, oob)
  BY <1>1, UsableIs DEF BlockWritten
<1>3. flash' = [flash EXCEPT ![c] = ni.cache]
  BY DEF BlockWritten
<1> HIDE DEF c
<1>4. c \in Int
  BY <1>2
<1>5. n \in Ni /\ Ram(n, flash, oob)
  BY <1>1, <1>4, PassedRam
<1>6. /\ n.to = ni.to /\ n.at = ni.at /\ n.limit = ni.limit /\ n.cache = ni.cache
      /\ \A d \in Blocks : Bad(n, d, oob) <=> Bad(ni, d, oob)
  BY <1>4, PassedSame DEF IInv
<1>7. ni.at \in Mgmt..Sig /\ ni.limit <= ni.top /\ ni.top <= Sig - 1 /\ ni.top \in Nat
  BY <1>1, WorkRange DEF IInv, Ram, Ni
<1> HIDE DEF n
<1>8. \A d \in ni.at..c - 1 : d \in Blocks
  BY <1>2, <1>7, ConstTypes DEF Blocks
<1>9. Flash(flash, oob) /\ oob \subseteq Blocks /\ DOMAIN flash = Blocks
  BY DEF IInv, Flash
<1>10. WritesAt(n, flash, oob, c, flash')
  BY <1>1, <1>2, <1>3, <1>5, <1>6, <1>8, <1>9 DEF WritesAt
<1> QED
  BY <1>10 DEF c, n

(* A table written into a block keeps the inductive invariant.               *)
LEMMA BlockWrittenStep ==
  ASSUME IInv, BlockWritten
  PROVE  IInv'
<1> DEFINE c == Min(Usable)
           n == Passed(c)
<1>1. ni' = Written(n, c) /\ oob' = oob
  BY DEF BlockWritten
<1>2. WritesAt(n, flash, oob, c, flash')
  BY WrittenAt
<1> HIDE DEF c, n
<1>3. Flash(flash', oob)
  BY <1>2, WriteTables
<1>4. Written(n, c) \in Ni /\ Ram(Written(n, c), flash', oob)
  BY <1>2, WriteStep
<1> QED
  BY <1>1, <1>3, <1>4 DEF IInv

Clears(f, o, c, g, p) ==
  /\ Flash(f, o) /\ c \in Blocks /\ DOMAIN g = Blocks
  /\ g[c].kind # "table" /\ \A b \in Blocks \ {c} : g[b] = f[b]
  /\ o \subseteq p /\ p \subseteq o \cup {c}

(* A block that is erased or torn holds no table any more.                   *)
LEMMA Cleared ==
  ASSUME NEW f, NEW o, NEW c, NEW g, NEW p, Clears(f, o, c, g, p)
  PROVE  /\ Live(g, p) = Live(f, o) \ {c} /\ Flash(g, p) /\ DOMAIN g = Blocks
         /\ \A b \in Live(g, p) : g[b] = f[b]
<1>1. /\ Flash(f, o) /\ c \in Blocks /\ DOMAIN f = Blocks /\ DOMAIN g = Blocks
      /\ \A b \in Blocks \ {c} : g[b] = f[b]
      /\ o \subseteq p /\ p \subseteq o \cup {c}
  BY DEF Clears, Flash
<1>2. g[c].kind # "table"
  BY DEF Clears
<1>3. Live(g, p) = Live(f, o) \ {c} /\ \A b \in Live(g, p) : g[b] = f[b]
  BY <1>1, <1>2 DEF Live
<1>4. ASSUME NEW b \in Live(f, o) \ Live(g, p), NEW d \in Live(g, p)
      PROVE  Live(g, p) = {d}
  BY <1>1, <1>3, OneLess
<1>5. Flash(g, p)
  BY <1>1, <1>3, <1>4, FlashGrows
<1> QED
  BY <1>1, <1>3, <1>5

\* nmbm_set_block_state changes one state and notes it
LEMMA SetStateFields ==
  ASSUME NEW n \in Ni, NEW c \in Blocks, NEW s \in StKinds
  PROVE  LET m == SetState(n, c, s)
         IN  /\ m \in Ni /\ m.to = n.to /\ m.main = n.main /\ m.backup = n.backup
             /\ m.mapBa = n.mapBa /\ m.top = n.top /\ m.at = n.at /\ m.from = n.from
             /\ m.limit = n.limit /\ m.map = n.map /\ m.cache = n.cache /\ m.wc = n.wc
             /\ m.op = n.op /\ m.prot = n.prot /\ m.lb = n.lb /\ m.pb = n.pb
             /\ m.data = n.data /\ m.ok = n.ok
             /\ \A d \in Blocks \ {c} : m.st[d] = n.st[d]
             /\ m.st[c] = s
<1> DEFINE k == (n.dirty \/ n.st[c] # s)
           t == [n.st EXCEPT ![c] = s]
<1>1. k \in BOOLEAN /\ t \in States /\ t[c] = s /\ \A d \in Blocks \ {c} : t[d] = n.st[d]
  BY DEF Ni, States
<1>2. SetState(n, c, s) = [n EXCEPT !.st = t, !.dirty = k]
  BY DEF SetState, Ni
<1> HIDE DEF k, t
<1> QED
  BY <1>1, <1>2 DEF Ni

(* The tables a writer or a wipe needs are not among the blocks it tries.    *)
LEMMA HeldKept ==
  ASSUME NEW n \in Ni, NEW f, NEW o, Core(n, f, o), Ranges(n), n.to \in Writes \cup Wipes,
         Held(n, Live(f, o)), NEW c \in n.at..n.limit - 1
  PROVE  Held(n, Live(f, o) \ {c})
<1> /\ n.top \in Nat /\ n.mapBa \in Nat /\ n.main \in Nat /\ n.backup \in Nat
    /\ n.at \in Int /\ n.limit \in Int
  BY DEF Ni
<1>1. c >= n.at /\ c < n.limit /\ c \in Int
  OBVIOUS
<1>2. n.to \in {"backup", "oneBackup"} => c # n.main
  BY <1>1 DEF Ranges
<1>3. n.to \in {"main", "oneMain"} /\ n.backup # 0 => c # n.backup
  BY <1>1 DEF Ranges
<1>4. n.to = "wipeBehind" => c # n.main /\ c # n.limit
  BY <1>1 DEF Ranges
<1>5. n.to = "temp" => c # n.backup
  BY <1>1 DEF Ranges
<1>6. n.to = "rescued" => c # n.limit
  BY <1>1
<1>7. n.to \in {"rebuild", "second", "wipe", "front", "behind"} =>
        c \notin {n.main, n.backup} \ {0}
  BY <1>1 DEF Ranges
<1> QED
  BY <1>2, <1>3, <1>4, <1>5, <1>6, <1>7 DEF Held, Rest, Writes, Wipes

(* A writer that goes on behind a block stays in its range.                  *)
LEMMA RangesOn ==
  ASSUME NEW n \in Ni, NEW m \in Ni, Ranges(n), m.to = n.to, m.main = n.main,
         m.backup = n.backup, m.mapBa = n.mapBa, m.top = n.top, m.from = n.from,
         m.limit = n.limit, m.prot = n.prot, m.at >= n.at, m.at <= Sig
  PROVE  Ranges(m)
<1> /\ n.main \in Nat /\ n.backup \in Nat /\ n.mapBa \in Nat /\ n.limit \in Int
    /\ n.at \in Int /\ m.at \in Int /\ n.from \in Int
  BY DEF Ni
<1>1. /\ m.main # 0 => Mgmt <= m.main /\ m.main < m.mapBa
      /\ m.backup # 0 => m.main # 0 /\ m.main < m.backup /\ m.backup < m.mapBa
      /\ m.to \in Writes \cup Wipes => m.at <= Sig
  BY DEF Ranges
<1>2. /\ m.to \in {"backup", "oneBackup"} =>
           m.backup # 0 /\ m.at >= m.backup /\ m.limit = m.top
      /\ m.to = "main" => /\ m.main # 0 /\ m.at >= m.main
                          /\ m.limit = IF m.backup = 0 THEN m.top ELSE m.backup
      /\ m.to = "oneMain" => m.backup # 0 /\ m.at >= m.main /\ m.limit = m.backup
      /\ m.to = "rebuild" => /\ m.main = 0 /\ m.mapBa = m.top /\ m.at >= Mgmt
                             /\ m.limit = m.top
      /\ m.to \in Rest /\ m.main = 0 => m.prot /\ m.mapBa = m.top
  BY ConstTypes DEF Ranges
<1>3. /\ m.to = "second" => m.main # 0 /\ m.backup = 0 /\ m.at >= m.mapBa /\ m.limit = m.top
      /\ m.to = "wipe" => m.backup # 0 /\ m.at > m.main /\ m.limit <= m.backup
      /\ m.to = "front" => m.main # 0 /\ m.backup = 0 /\ m.at >= Mgmt /\ m.limit = m.main
      /\ m.to = "behind" => /\ m.main # 0 /\ m.backup = 0 /\ m.limit = m.top
                            /\ m.at >= m.mapBa /\ m.from >= m.mapBa /\ m.from <= Sig
  BY ConstTypes DEF Ranges
<1>4. /\ m.to = "wipeBehind" => /\ m.main # 0 /\ m.backup = 0 /\ m.at >= m.mapBa
                                /\ m.mapBa <= m.limit /\ m.limit < m.top
      /\ m.to = "temp" => /\ m.backup # 0 /\ m.limit = m.top
                          /\ m.at >= m.mapBa /\ m.from >= m.mapBa /\ m.from <= Sig
      /\ m.to = "rescued" => /\ m.backup # 0 /\ m.at >= Mgmt
                             /\ m.limit = m.mapBa - 1 /\ m.backup < m.limit
  BY ConstTypes DEF Ranges
<1> QED
  BY <1>1, <1>2, <1>3, <1>4 DEF Ranges

(* A block that fails under a writer keeps the inductive invariant.          *)
LEMMA BlockFailsStep ==
  ASSUME IInv, BlockFails
  PROVE  IInv'
<1> DEFINE c == Min(Usable)
           n == Passed(c)
           m == [SetState(n, c, "bad") EXCEPT !.at = c + 1]
<1>1. On(ni) /\ ni.to \in Writes \cup Wipes
  BY DEF BlockFails, On, Writes, Wipes
<1>2. /\ c \in ni.at..ni.limit - 1 /\ c \in Mgmt..ni.top - 1
      /\ c \in Blocks /\ ~Bad(ni, c, oob)
      /\ \A d \in ni.at..c - 1 : Bad(ni, d, oob)
  BY <1>1, UsableIs DEF BlockFails
<1>3. /\ flash' = [flash EXCEPT ![c] = Torn] /\ oob' = oob \cup {c} /\ ni' = m
  BY DEF BlockFails
<1> HIDE DEF c
<1>4. c \in Int
  BY <1>2
<1>5. n \in Ni /\ Ram(n, flash, oob)
  BY <1>1, <1>4, PassedRam
<1>6. /\ n.to = ni.to /\ n.at = ni.at /\ n.limit = ni.limit /\ n.top = ni.top
      /\ \A d \in Blocks : Bad(n, d, oob) <=> Bad(ni, d, oob)
  BY <1>4, PassedSame DEF IInv
<1>7. ni.at \in Mgmt..Sig /\ ni.limit <= ni.top /\ ni.top <= Sig - 1 /\ ni.top \in Nat
  BY <1>1, WorkRange DEF IInv, Ram, Ni
<1> HIDE DEF n
<1>8. /\ m \in Ni /\ m.to = n.to /\ m.main = n.main /\ m.backup = n.backup
      /\ m.mapBa = n.mapBa /\ m.top = n.top /\ m.at = c + 1 /\ m.from = n.from
      /\ m.limit = n.limit /\ m.map = n.map /\ m.cache = n.cache /\ m.wc = n.wc
      /\ m.prot = n.prot
      /\ \A d \in Blocks \ {c} : m.st[d] = n.st[d]
      /\ m.st[c] = "bad"
  <2> DEFINE k == SetState(n, c, "bad")
  <2>1. /\ k \in Ni /\ k.to = n.to /\ k.main = n.main /\ k.backup = n.backup
        /\ k.mapBa = n.mapBa /\ k.top = n.top /\ k.from = n.from
        /\ k.limit = n.limit /\ k.map = n.map /\ k.cache = n.cache /\ k.wc = n.wc
        /\ k.prot = n.prot
        /\ \A d \in Blocks \ {c} : k.st[d] = n.st[d]
        /\ k.st[c] = "bad"
    BY <1>2, <1>5, SetStateFields DEF StKinds
  <2> HIDE DEF k
  <2>2. m = [k EXCEPT !.at = c + 1]
    BY DEF k
  <2>3. c + 1 \in Int
    BY <1>4
  <2> HIDE DEF m
  <2> QED
    BY <2>1, <2>2, <2>3 DEF Ni
<1> HIDE DEF m
<1>9. /\ Live(flash', oob') = Live(flash, oob) \ {c} /\ Flash(flash', oob')
      /\ DOMAIN flash' = Blocks /\ \A b \in Live(flash', oob') : flash'[b] = flash[b]
  <2>1. Flash(flash, oob) /\ DOMAIN flash = Blocks
    BY DEF IInv, Flash
  <2>2. /\ DOMAIN flash' = Blocks /\ flash'[c] \in {Erased, Torn}
        /\ \A b \in Blocks \ {c} : flash'[b] = flash[b]
    BY <1>2, <1>3, <2>1
  <2>3. Clears(flash, oob, c, flash', oob')
    BY <1>2, <1>3, <2>1, <2>2, Contents DEF Clears
  <2> QED
    BY <2>2, <2>3, Cleared
<1>10. Grown(n, flash, oob, m, flash', oob')
  <2>1. \A d \in Blocks : Bad(n, d, oob) => Bad(m, d, oob')
    BY <1>3, <1>8 DEF Bad
  <2>2. \A d \in Blocks : Bad(m, d, oob') => Bad(n, d, oob) \/ d \in oob'
    BY <1>3, <1>8 DEF Bad
  <2>3. \A d \in (Mgmt..n.top) \cup Live(flash', oob') : d \in Blocks
    BY <1>6, <1>7, ConstTypes DEF Live, Blocks
  <2> QED
    BY <1>3, <1>9, <2>1, <2>2, <2>3 DEF Grown
<1>11. Core(n, flash, oob) /\ Ranges(n) /\ Held(n, Live(flash, oob)) /\ Marks(n, flash, oob)
  BY <1>5 DEF Ram
<1>12. n.top \in Nat
  BY <1>6, <1>7
<1>13. Core(m, flash', oob')
  BY <1>8, <1>10, <1>11, <1>12, CoreGrows
<1>14. Held(n, Live(flash', oob'))
  BY <1>1, <1>2, <1>5, <1>6, <1>9, <1>11, HeldKept
<1>15. \A d \in n.at..m.at - 1 : Bad(m, d, oob')
  <2> SUFFICES ASSUME NEW d \in n.at..m.at - 1
               PROVE  Bad(m, d, oob')
    OBVIOUS
  <2>1. CASE d = c
    BY <2>1, <1>3 DEF Bad
  <2>2. CASE d # c
    <3>1. d \in ni.at..c - 1
      BY <2>2, <1>4, <1>6, <1>7, <1>8
    <3>2. Bad(n, d, oob) /\ d \in Blocks
      BY <3>1, <1>2, <1>6, <1>7, ConstTypes DEF Blocks
    <3> QED
      BY <3>2, <1>10 DEF Grown
  <2> QED
    BY <2>1, <2>2
<1>16. m.at <= Sig
  BY <1>2, <1>7, <1>8, ConstTypes
<1>17. Marks(m, flash', oob')
  BY <1>5, <1>8, <1>10, <1>11, <1>14, <1>15, <1>16, MarksGrow
<1>18. Held(m, Live(flash', oob'))
  BY <1>8, <1>14 DEF Held, Rest
<1> /\ n.main \in Nat /\ n.backup \in Nat /\ n.mapBa \in Nat /\ n.limit \in Int
    /\ n.at \in Int
  BY <1>5 DEF Ni
<1>19. Ranges(m)
  <2>1. m.at >= n.at /\ m.at <= Sig
    BY <1>2, <1>4, <1>6, <1>7, <1>8, ConstTypes
  <2> QED
    BY <1>5, <1>8, <1>11, <2>1, RangesOn
<1>20. oob' \subseteq Blocks
  BY <1>2, <1>3 DEF IInv
<1> QED
  BY <1>3, <1>8, <1>9, <1>13, <1>17, <1>18, <1>19, <1>20 DEF IInv, Ram

(* A block wiped keeps the inductive invariant.                              *)
LEMMA BlockWipedStep ==
  ASSUME IInv, BlockWiped
  PROVE  IInv'
<1> DEFINE c == Min(Usable)
           n == Passed(c)
           m == [n EXCEPT !.at = c + 1]
<1>1. On(ni) /\ ni.to \in Wipes /\ ni.to \in Writes \cup Wipes
  BY DEF BlockWiped, On, Wipes
<1>2. /\ c \in ni.at..ni.limit - 1 /\ c \in Mgmt..ni.top - 1
      /\ c \in Blocks /\ ~Bad(ni, c, oob)
  BY <1>1, UsableIs DEF BlockWiped
<1>3. /\ flash' = [flash EXCEPT ![c] = Erased] /\ oob' = oob /\ ni' = m
  BY DEF BlockWiped
<1> HIDE DEF c
<1>4. c \in Int
  BY <1>2
<1>5. n \in Ni /\ Ram(n, flash, oob)
  BY <1>1, <1>4, PassedRam
<1>6. /\ n.to = ni.to /\ n.at = ni.at /\ n.limit = ni.limit /\ n.top = ni.top
  BY <1>4, PassedSame DEF IInv
<1>7. ni.at \in Mgmt..Sig /\ ni.limit <= ni.top /\ ni.top <= Sig - 1 /\ ni.top \in Nat
  BY <1>1, WorkRange DEF IInv, Ram, Ni
<1> HIDE DEF n
<1>8. /\ m \in Ni /\ m.to = n.to /\ m.main = n.main /\ m.backup = n.backup
      /\ m.mapBa = n.mapBa /\ m.top = n.top /\ m.at = c + 1 /\ m.from = n.from
      /\ m.limit = n.limit /\ m.prot = n.prot /\ SameTables(n, m)
  BY <1>2, <1>4, <1>5 DEF Ni, SameTables
<1> HIDE DEF m
<1>9. /\ Live(flash', oob') = Live(flash, oob) \ {c} /\ Flash(flash', oob')
      /\ DOMAIN flash' = Blocks /\ \A b \in Live(flash', oob') : flash'[b] = flash[b]
  <2>1. Flash(flash, oob) /\ DOMAIN flash = Blocks
    BY DEF IInv, Flash
  <2>2. /\ DOMAIN flash' = Blocks /\ flash'[c] \in {Erased, Torn}
        /\ \A b \in Blocks \ {c} : flash'[b] = flash[b]
    BY <1>2, <1>3, <2>1
  <2>3. Clears(flash, oob, c, flash', oob')
    BY <1>2, <1>3, <2>1, <2>2, Contents DEF Clears
  <2> QED
    BY <2>2, <2>3, Cleared
<1>10. Grown(n, flash, oob, n, flash', oob')
  BY <1>3, <1>9 DEF Grown
<1>11. Core(n, flash, oob) /\ Ranges(n) /\ Held(n, Live(flash, oob)) /\ Marks(n, flash, oob)
  BY <1>5 DEF Ram
<1>12. n.top \in Nat /\ n.at <= Sig /\ \A d \in n.at..n.at - 1 : Bad(n, d, oob')
  BY <1>6, <1>7
<1>13. Core(n, flash', oob')
  BY <1>10, <1>11, <1>12, CoreGrows
<1>14. Held(n, Live(flash', oob'))
  BY <1>1, <1>2, <1>5, <1>6, <1>9, <1>11, HeldKept
<1>15. Marks(n, flash', oob')
  BY <1>5, <1>10, <1>11, <1>12, <1>14, MarksGrow
<1>16. Core(m, flash', oob')
  BY <1>8, <1>11, <1>13, CoreMoves DEF Core
<1>17. Marks(m, flash', oob')
  BY <1>1, <1>6, <1>8, <1>15, AllBadMoves DEF Marks, Wipes
<1>18. Held(m, Live(flash', oob'))
  BY <1>8, <1>14 DEF Held, Rest
<1> /\ n.main \in Nat /\ n.backup \in Nat /\ n.mapBa \in Nat /\ n.limit \in Int
    /\ n.at \in Int
  BY <1>5 DEF Ni
<1>19. Ranges(m)
  <2>1. m.at >= n.at /\ m.at <= Sig
    BY <1>2, <1>4, <1>6, <1>7, <1>8, ConstTypes
  <2> QED
    BY <1>5, <1>8, <1>11, <2>1, RangesOn
<1>20. oob' \subseteq Blocks
  BY <1>3 DEF IInv
<1> QED
  BY <1>3, <1>8, <1>9, <1>16, <1>17, <1>18, <1>19, <1>20 DEF IInv, Ram

----------------------------------------------------------------------------
(* A writer that has run out of blocks.                                      *)

(* What each writer goes on with once it has run out of blocks.              *)
LEMMA FullFields ==
  ASSUME NEW n \in Ni, n.to \in Writes
  PROVE  LET m == Full(n)
             lower == n.from - 1 >= n.mapBa
         IN  /\ n.to = "backup" =>
                  Located(n, m, n.main, 0, n.backup)
                  /\ m.to = "main" /\ m.at = n.main /\ m.limit = n.top
             /\ n.to = "main" /\ n.backup = 0 =>
                  Located(n, m, 0, 0, n.top)
                  /\ m.to = "rebuild" /\ m.at = Mgmt /\ m.limit = n.top
             /\ n.to = "main" /\ n.backup # 0 =>
                  \/ Located(n, m, n.backup, 0, n.mapBa) /\ m.to = "done"
                  \/ /\ Located(n, m, n.main, n.backup, n.mapBa)
                     /\ m.to = "temp" /\ m.at \in n.mapBa..n.top - 2 /\ m.from = m.at
                     /\ m.limit = n.top
             /\ n.to = "rebuild" =>
                  /\ m \in Ni /\ SameTables(n, m) /\ m.to = "done" /\ m.prot
                  /\ m.op = n.op /\ m.lb = n.lb /\ m.pb = n.pb /\ m.data = n.data
                  /\ m.main = n.main /\ m.backup = n.backup /\ m.mapBa = n.mapBa
             /\ n.to = "second" => Located(n, m, n.main, n.backup, n.mapBa) /\ m.to = "done"
             /\ n.to = "front" =>
                  /\ Located(n, m, n.main, n.backup, n.mapBa)
                  /\ \/ m.to = "done"
                     \/ /\ m.to = "behind" /\ m.at \in n.mapBa..n.top - 2 /\ m.from = m.at
                        /\ m.limit = n.top
             /\ n.to = "behind" =>
                  /\ Located(n, m, n.main, n.backup, n.mapBa)
                  /\ \/ m.to = "done"
                     \/ /\ lower /\ m.to = "behind" /\ m.at = n.from - 1 /\ m.from = m.at
                        /\ m.limit = n.limit
             /\ n.to = "temp" =>
                  \/ Located(n, m, n.backup, 0, n.mapBa) /\ m.to = "done"
                  \/ /\ Located(n, m, n.main, n.backup, n.mapBa)
                     /\ lower /\ m.to = "temp" /\ m.at = n.from - 1 /\ m.from = m.at
                     /\ m.limit = n.limit
             /\ n.to = "rescued" /\ n.limit \in Nat =>
                  Located(n, m, n.limit, 0, n.mapBa) /\ m.to = "done"
             /\ n.to = "oneMain" =>
                  Located(n, m, n.backup, 0, n.mapBa)
                  /\ m.to = "front" /\ m.at = Mgmt /\ m.limit = n.backup
             /\ n.to = "oneBackup" => Located(n, m, n.main, 0, n.backup) /\ m.to = "done"
<1> DEFINE gone == [n EXCEPT !.mapBa = n.backup, !.backup = 0]
           only == OnlyBackup(n)
           lower == n.from - 1 >= n.mapBa
           R == Reserved(n, n.mapBa)
           m == Full(n)
<1> /\ n.main \in Nat /\ n.backup \in Nat /\ n.mapBa \in Nat /\ n.top \in Nat
    /\ n.limit \in Int /\ n.from \in Int /\ n.main \in Int /\ n.backup \in Int
    /\ n.top \in Int /\ n.from - 1 \in Int
  BY DEF Ni
<1>1. /\ {"main", "rebuild", "temp", "front", "behind", "done"} \subseteq Tos
      /\ Mgmt \in Nat /\ Mgmt \in Int
  BY ConstTypes DEF Tos, Writes, Wipes
<1>2. Located(n, n, n.main, n.backup, n.mapBa)
  BY DEF Located, SameTables
<1>3. Located(n, gone, n.main, 0, n.backup)
  BY DEF Located, SameTables, Ni
<1>4. Located(n, only, n.backup, 0, n.mapBa)
  BY DEF Located, SameTables, Ni, OnlyBackup
<1>5. R # {} => Max(R) \in n.mapBa..n.top - 2
  BY ReservedIn
<1>6. R # {} => Max(R) \in Int
  BY <1>5
<1> HIDE DEF gone, only, R
<1>7. CASE n.to = "backup"
  <2>1. m = WriteMain(gone)
    BY <1>7 DEF Full, gone
  <2>2. WriteMain(gone) = Write(gone, "main", n.main, n.top)
    BY <1>3 DEF WriteMain, Located, SameTables
  <2>3. Located(n, m, n.main, 0, n.backup) /\ m.to = "main" /\ m.at = n.main /\ m.limit = n.top
    BY <2>1, <2>2, <1>1, <1>3, WriteLocated
  <2> QED
    BY <2>3, <1>7
<1>8. CASE n.to = "main" /\ n.backup = 0
  <2> DEFINE k == [n EXCEPT !.main = 0, !.backup = 0, !.mapBa = n.top]
  <2>1. m = Write(k, "rebuild", Mgmt, n.top)
    BY <1>8 DEF Full, Rebuild
  <2>2. Located(n, k, 0, 0, n.top)
    BY DEF Located, SameTables, Ni
  <2> HIDE DEF k
  <2>3. Located(n, m, 0, 0, n.top) /\ m.to = "rebuild" /\ m.at = Mgmt /\ m.limit = n.top
    BY <2>1, <2>2, <1>1, WriteLocated
  <2> QED
    BY <2>3, <1>8
<1>9. CASE n.to = "main" /\ n.backup # 0
  <2>1. m = IF R = {} THEN Done(only, TRUE) ELSE Write(n, "temp", Max(R), n.top)
    BY <1>9 DEF Full, RescueMain, only, R
  <2>2. CASE R = {}
    BY <2>1, <2>2, <1>4, <1>9, DoneLocated
  <2>3. CASE R # {}
    <3>1. m = Write(n, "temp", Max(R), n.top)
      BY <2>1, <2>3
    <3>2. /\ Located(n, m, n.main, n.backup, n.mapBa)
          /\ m.to = "temp" /\ m.at = Max(R) /\ m.from = Max(R) /\ m.limit = n.top
      BY <3>1, <2>3, <1>1, <1>2, <1>6, WriteLocated
    <3> QED
      BY <3>2, <2>3, <1>5, <1>9
  <2> QED
    BY <2>2, <2>3
<1>10. CASE n.to = "rebuild"
  <2>1. m = [n EXCEPT !.prot = TRUE, !.to = "done", !.ok = FALSE]
    BY <1>10 DEF Full, Done, Ni
  <2>2. "done" \in Tos
    BY <1>1
  <2> HIDE DEF m
  <2>3. /\ m \in Ni /\ m.to = "done" /\ m.prot
        /\ m.op = n.op /\ m.lb = n.lb /\ m.pb = n.pb /\ m.data = n.data
        /\ m.main = n.main /\ m.backup = n.backup /\ m.mapBa = n.mapBa
    BY <2>1, <2>2 DEF Ni
  <2>4. SameTables(n, m)
    BY <2>1 DEF SameTables, Ni
  <2> QED
    BY <2>3, <2>4, <1>10 DEF m
<1>11. CASE n.to = "second"
  <2>1. m = Done(n, TRUE)
    BY <1>11 DEF Full
  <2> QED
    BY <2>1, <1>2, <1>11, DoneLocated
<1>12. CASE n.to = "front"
  <2>1. m = IF R = {} THEN Done(n, FALSE) ELSE Write(n, "behind", Max(R), n.top)
    BY <1>12 DEF Full, R
  <2>2. CASE R = {}
    BY <2>1, <2>2, <1>2, <1>12, DoneLocated
  <2>3. CASE R # {}
    <3>1. m = Write(n, "behind", Max(R), n.top)
      BY <2>1, <2>3
    <3>2. /\ Located(n, m, n.main, n.backup, n.mapBa)
          /\ m.to = "behind" /\ m.at = Max(R) /\ m.from = Max(R) /\ m.limit = n.top
      BY <3>1, <2>3, <1>1, <1>2, <1>6, WriteLocated
    <3> QED
      BY <3>2, <2>3, <1>5, <1>12
  <2> QED
    BY <2>2, <2>3
<1>13. CASE n.to = "behind"
  <2>1. m = IF lower THEN Write(n, "behind", n.from - 1, n.limit) ELSE Done(n, FALSE)
    BY <1>13 DEF Full
  <2>2. CASE ~lower
    BY <2>1, <2>2, <1>2, <1>13, DoneLocated
  <2>3. CASE lower
    <3>1. m = Write(n, "behind", n.from - 1, n.limit)
      BY <2>1, <2>3
    <3>2. /\ Located(n, m, n.main, n.backup, n.mapBa)
          /\ m.to = "behind" /\ m.at = n.from - 1 /\ m.from = n.from - 1 /\ m.limit = n.limit
      BY <3>1, <1>1, <1>2, WriteLocated
    <3> QED
      BY <3>2, <2>3, <1>13
  <2> QED
    BY <2>2, <2>3
<1>14. CASE n.to = "temp"
  <2>1. m = IF lower THEN Write(n, "temp", n.from - 1, n.limit) ELSE Done(only, TRUE)
    BY <1>14 DEF Full, only
  <2>2. CASE ~lower
    BY <2>1, <2>2, <1>4, <1>14, DoneLocated
  <2>3. CASE lower
    <3>1. m = Write(n, "temp", n.from - 1, n.limit)
      BY <2>1, <2>3
    <3>2. /\ Located(n, m, n.main, n.backup, n.mapBa)
          /\ m.to = "temp" /\ m.at = n.from - 1 /\ m.from = n.from - 1 /\ m.limit = n.limit
      BY <3>1, <1>1, <1>2, WriteLocated
    <3> QED
      BY <3>2, <2>3, <1>14
  <2> QED
    BY <2>2, <2>3
<1>15. CASE n.to = "rescued" /\ n.limit \in Nat
  <2> DEFINE k == Clean([n EXCEPT !.main = n.limit, !.backup = 0])
  <2>1. m = Done(k, TRUE)
    BY <1>15 DEF Full
  <2>2. Located(n, k, n.limit, 0, n.mapBa)
    BY <1>15 DEF Located, SameTables, Ni, Clean
  <2> HIDE DEF k
  <2> QED
    BY <2>1, <2>2, <1>15, DoneLocated
<1>16. CASE n.to = "oneMain"
  <2>1. m = RescueSingle(only)
    BY <1>16 DEF Full, only
  <2>2. RescueSingle(only) = Write(only, "front", Mgmt, n.backup)
    BY <1>4 DEF RescueSingle, Located
  <2>3. Located(n, m, n.backup, 0, n.mapBa) /\ m.to = "front" /\ m.at = Mgmt /\ m.limit = n.backup
    BY <2>1, <2>2, <1>1, <1>4, WriteLocated
  <2> QED
    BY <2>3, <1>16
<1>17. CASE n.to = "oneBackup"
  <2>1. m = Done(gone, FALSE)
    BY <1>17 DEF Full, gone
  <2> QED
    BY <2>1, <1>3, <1>17, DoneLocated
<1>18. CASE n.to = "rescued" /\ n.limit \notin Nat
  BY <1>18
<1> QED
  BY <1>7, <1>8, <1>9, <1>10, <1>11, <1>12, <1>13, <1>14, <1>15, <1>16, <1>17, <1>18 DEF Writes

\* All blocks of the writer n are bad
RunsOut(n, f, o) ==
  /\ n \in Ni /\ Flash(f, o) /\ Ram(n, f, o) /\ n.to \in Writes
  /\ \A d \in n.at..n.limit - 1 : Bad(n, d, o)

(* The only live table, all blocks below which are known to be bad, may      *)
(* become the main one.                                                      *)
LEMMA AloneLow ==
  ASSUME NEW n, NEW f, NEW o, NEW x \in Nat, Core(n, f, o), n.top \in Nat, x <= n.top,
         Live(f, o) = {x}, Near(n, x, f, o), \A d \in Mgmt..x - 1 : Bad(n, d, o)
  PROVE  \A d \in Mgmt..x - 1 : AllBad(n, d, f, o)
<1>1. \A d \in Mgmt..x - 1 : d \in Mgmt..n.top /\ d \in Blocks
  BY ConstTypes DEF Core, Blocks
<1> QED
  BY <1>1 DEF AllBad, Core, Near

(* What is left on flash when a writer has run out of blocks.                *)
LEMMA RunsOutLeft ==
  ASSUME NEW n, NEW f, NEW o, RunsOut(n, f, o)
  PROVE  LET L == Live(f, o)
         IN  /\ n.to \in {"backup", "oneBackup"} => L = {n.main}
             /\ n.to = "main" /\ n.backup = 0 => L = {}
             /\ n.to \in {"main", "oneMain", "temp"} /\ n.backup # 0 =>
                  /\ L = {n.backup} /\ Near(n, n.backup, f, o)
                  /\ \A d \in Mgmt..n.backup - 1 : Bad(n, d, o) /\ AllBad(n, d, f, o)
             /\ n.to = "front" => \A d \in Mgmt..n.main - 1 : AllBad(n, d, f, o)
             /\ n.to = "rescued" =>
                  /\ L = {n.limit} /\ \A d \in Mgmt..n.limit - 1 : AllBad(n, d, f, o)
<1> DEFINE L == Live(f, o)
<1> /\ n.top \in Nat /\ n.mapBa \in Nat /\ n.main \in Nat /\ n.backup \in Nat
    /\ n.at \in Int /\ n.limit \in Int
  BY DEF RunsOut, Ni
<1>1. /\ Core(n, f, o) /\ Ranges(n) /\ Held(n, L) /\ Marks(n, f, o) /\ n.to \in Writes
      /\ \A d \in n.at..n.limit - 1 : Bad(n, d, o)
      /\ Mgmt <= n.mapBa /\ n.mapBa <= n.top
      /\ \A b \in L : ~Bad(n, b, o)
  BY DEF RunsOut, Ram, Core
<1>2. ASSUME NEW x \in Nat, \A d \in x..n.at - 1 : Bad(n, d, o)
      PROVE  \A d \in x..n.limit - 1 : Bad(n, d, o)
  <2> SUFFICES ASSUME NEW d \in x..n.limit - 1
               PROVE  Bad(n, d, o)
    OBVIOUS
  <2>1. d \in x..n.at - 1 \/ d \in n.at..n.limit - 1
    OBVIOUS
  <2> QED
    BY <2>1, <1>1, <1>2
<1>3. CASE n.to \in {"backup", "oneBackup"}
  <2>1. \A d \in n.backup..n.limit - 1 : Bad(n, d, o)
    BY <1>1, <1>2, <1>3 DEF Marks
  <2>2. n.backup \in n.backup..n.limit - 1
    BY <1>1, <1>3 DEF Ranges
  <2>3. L = {n.main}
    BY <2>1, <2>2, <1>1, <1>3 DEF Held, Rest
  <2> QED
    BY <2>3, <1>3
<1>4. ASSUME n.to \in {"main", "oneMain"}
      PROVE  /\ \A d \in n.main..n.limit - 1 : Bad(n, d, o)
             /\ n.main \in n.main..n.limit - 1 /\ n.main \notin L
  <2>1. \A d \in n.main..n.limit - 1 : Bad(n, d, o)
    BY <1>1, <1>2, <1>4 DEF Marks
  <2>2. n.main \in n.main..n.limit - 1
    BY <1>1, <1>4 DEF Ranges
  <2> QED
    BY <2>1, <2>2, <1>1
<1>5. CASE n.to = "main" /\ n.backup = 0
  <2>1. L = {}
    BY <1>1, <1>4, <1>5 DEF Held, Rest
  <2> QED
    BY <2>1, <1>5
<1>6. CASE n.to \in {"main", "oneMain", "temp"} /\ n.backup # 0
  <2>1. L = {n.backup}
    BY <1>1, <1>4, <1>6 DEF Held, Rest
  <2>2. Near(n, n.backup, f, o)
    BY <1>1, <1>6 DEF Marks
  <2>3. ASSUME NEW d \in Mgmt..n.backup - 1
        PROVE  Bad(n, d, o)
    <3>1. CASE n.to = "temp"
      BY <3>1, <1>1 DEF Marks
    <3>2. CASE n.to # "temp" /\ d < n.main
      <4>1. n.main # 0 /\ d \in Mgmt..n.main - 1
        BY <3>2, <1>1, <1>6, ConstTypes DEF Ranges
      <4> QED
        BY <4>1, <3>2, <1>1, <1>6 DEF Marks, AllBad
    <3>3. CASE n.to # "temp" /\ d >= n.main
      <4>1. n.limit = n.backup
        BY <3>3, <1>1, <1>6 DEF Ranges
      <4> QED
        BY <4>1, <3>3, <1>4, <1>6, ConstTypes
    <3> QED
      BY <3>1, <3>2, <3>3, ConstTypes
  <2>4. n.backup <= n.top
    BY <1>1, <1>6 DEF Ranges
  <2>5. \A d \in Mgmt..n.backup - 1 : AllBad(n, d, f, o)
    BY <2>1, <2>2, <2>3, <2>4, <1>1, AloneLow
  <2> QED
    BY <2>1, <2>2, <2>3, <2>5, <1>6
<1>7. CASE n.to = "front"
  <2>1. \A d \in Mgmt..n.main - 1 : Bad(n, d, o)
    BY <1>1, <1>2, <1>7, ConstTypes DEF Marks, Ranges
  <2>2. L = {n.main} /\ NearBelow(n, f, o) /\ n.main <= n.top
    BY <1>1, <1>7 DEF Held, Ranges, Marks
  <2>3. \A d \in Mgmt..n.main - 1 : AllBad(n, d, f, o)
    <3>1. \A d \in Mgmt..n.main - 1 : d \in Mgmt..n.top
      BY <2>2, ConstTypes
    <3>2. \A d \in Mgmt..n.main - 1 : Bad(n.cache, d, o)
      BY <3>1, <2>1, <1>1 DEF Core
    <3> QED
      BY <3>2, <2>1, <2>2 DEF AllBad, NearBelow
  <2> QED
    BY <2>3, <1>7
<1>8. CASE n.to = "rescued"
  <2>1. \A d \in Mgmt..n.limit - 1 : Bad(n, d, o)
    BY <1>1, <1>2, <1>8, ConstTypes DEF Marks
  <2>2. /\ n.limit \in L /\ L \subseteq {n.backup, n.limit} /\ Near(n, n.limit, f, o)
        /\ n.backup \in Mgmt..n.limit - 1 /\ n.limit <= n.top /\ n.limit \in Nat
    BY <1>1, <1>8, ConstTypes DEF Held, Marks, Ranges
  <2>3. L = {n.limit}
    BY <2>1, <2>2, <1>1
  <2>4. \A d \in Mgmt..n.limit - 1 : AllBad(n, d, f, o)
    BY <2>1, <2>2, <2>3, <1>1, AloneLow
  <2> QED
    BY <2>3, <2>4, <1>8
<1> QED
  BY <1>1, <1>3, <1>5, <1>6, <1>7, <1>8

(* A writer that runs out of blocks keeps the invariant of the instance.     *)
LEMMA FullStep ==
  ASSUME NEW n, NEW f, NEW o, RunsOut(n, f, o)
  PROVE  Full(n) \in Ni /\ Ram(Full(n), f, o)
<1> DEFINE m == Full(n)
           L == Live(f, o)
<1> /\ n.top \in Nat /\ n.mapBa \in Nat /\ n.main \in Nat /\ n.backup \in Nat
    /\ n.at \in Int /\ n.limit \in Int /\ n.from \in Int
  BY DEF RunsOut, Ni
<1>1. /\ n \in Ni /\ n.to \in Writes /\ Ranges(n) /\ Held(n, L) /\ Marks(n, f, o)
      /\ Core(n, f, o) /\ Mgmt <= n.mapBa /\ n.mapBa <= n.top
  BY DEF RunsOut, Ram, Core
<1>2. Mgmt \in Nat /\ Sig \in Nat /\ 0 < Mgmt /\ n.top < Sig
  BY <1>1, ConstTypes DEF Core
<1>3. ASSUME NEW x, NEW y, NEW z \in Nat, Located(n, m, x, y, z), Mgmt <= z, z <= n.top
      PROVE  /\ m \in Ni /\ Core(m, f, o) /\ m.top = n.top
             /\ m.main = x /\ m.backup = y /\ m.mapBa = z
             /\ \A d : AllBad(n, d, f, o) => AllBad(m, d, f, o)
             /\ \A b : Near(n, b, f, o) => Near(m, b, f, o)
             /\ \A d : Bad(m, d, o) <=> Bad(n, d, o)
  <2>1. SameTables(n, m) /\ m \in Ni /\ m.main = x /\ m.backup = y /\ m.mapBa = z /\ m.top = n.top
    BY <1>3 DEF Located, SameTables
  <2>2. Core(m, f, o)
    BY <1>1, <1>3, <2>1, CoreMoves
  <2>3. \A d : AllBad(n, d, f, o) => AllBad(m, d, f, o)
    BY <2>1, AllBadMoves
  <2>4. \A b : Near(n, b, f, o) => Near(m, b, f, o)
    BY <2>1 DEF Near, SameTables, Bad
  <2>5. \A d : Bad(m, d, o) <=> Bad(n, d, o)
    BY <2>1 DEF Bad, SameTables
  <2> QED
    BY <2>1, <2>2, <2>3, <2>4, <2>5
<1>4. \A d \in Mgmt..n.main - 1 :
        n.main # 0 /\ n.to \notin {"front", "temp", "rescued"} => AllBad(n, d, f, o)
  BY <1>1 DEF Marks
<1> HIDE DEF m, L
<1>5. CASE n.to \in {"backup", "oneBackup"}
  <2>1. /\ Located(n, m, n.main, 0, n.backup)
        /\ \/ m.to = "done"
           \/ m.to = "main" /\ m.at = n.main /\ m.limit = n.top
    BY <1>1, <1>5, FullFields DEF m
  <2>2. n.main # 0 /\ Mgmt <= n.main /\ n.main < n.backup /\ n.backup < n.mapBa
    BY <1>1, <1>5 DEF Ranges
  <2>3. /\ m \in Ni /\ Core(m, f, o) /\ m.top = n.top
        /\ m.main = n.main /\ m.backup = 0 /\ m.mapBa = n.backup
        /\ \A d \in Mgmt..n.main - 1 : AllBad(m, d, f, o)
    BY <1>1, <1>2, <1>3, <1>4, <1>5, <2>1, <2>2
  <2>4. L = {n.main}
    BY <1>5, RunsOutLeft DEF L
  <2>5. Ranges(m)
    BY <1>1, <1>2, <2>1, <2>2, <2>3 DEF Ranges, Rest, Writes, Wipes
  <2>6. Held(m, L)
    BY <2>1, <2>2, <2>3, <2>4 DEF Held, Rest
  <2>7. Marks(m, f, o)
    BY <2>1, <2>3 DEF Marks
  <2> QED
    BY <2>3, <2>5, <2>6, <2>7 DEF Ram, m, L
<1>6. CASE n.to = "main" /\ n.backup = 0
  <2>1. Located(n, m, 0, 0, n.top) /\ m.to = "rebuild" /\ m.at = Mgmt /\ m.limit = n.top
    BY <1>1, <1>6, FullFields DEF m
  <2>2. /\ m \in Ni /\ Core(m, f, o) /\ m.top = n.top
        /\ m.main = 0 /\ m.backup = 0 /\ m.mapBa = n.top
    BY <1>1, <1>2, <1>3, <2>1
  <2>3. L = {}
    BY <1>6, RunsOutLeft DEF L
  <2>4. Ranges(m)
    BY <1>1, <1>2, <2>1, <2>2 DEF Ranges, Rest, Writes, Wipes
  <2>5. Held(m, L)
    BY <2>1, <2>2, <2>3 DEF Held, Rest
  <2>6. Marks(m, f, o)
    BY <1>2, <2>1, <2>2 DEF Marks
  <2> QED
    BY <2>2, <2>4, <2>5, <2>6 DEF Ram, m, L
<1>7. ASSUME Located(n, m, n.backup, 0, n.mapBa), n.backup # 0,
             n.to \in {"main", "oneMain", "temp"},
             \/ m.to = "done"
             \/ m.to = "front" /\ m.at = Mgmt /\ m.limit = n.backup
      PROVE  m \in Ni /\ Ram(m, f, o)
  <2>1. n.main # 0 /\ Mgmt <= n.main /\ n.main < n.backup /\ n.backup < n.mapBa
    BY <1>1, <1>7 DEF Ranges
  <2>2. L = {n.backup} /\ Near(n, n.backup, f, o) /\ \A d \in Mgmt..n.backup - 1 : AllBad(n, d, f, o)
    BY <1>7, RunsOutLeft DEF L
  <2>3. /\ m \in Ni /\ Core(m, f, o) /\ m.top = n.top
        /\ m.main = n.backup /\ m.backup = 0 /\ m.mapBa = n.mapBa
        /\ \A d \in Mgmt..n.backup - 1 : AllBad(m, d, f, o)
        /\ Near(m, n.backup, f, o)
    BY <1>1, <1>3, <1>7, <2>2
  <2>7. NearBelow(m, f, o)
    <3>1. \A d \in Mgmt..n.backup - 1 : d \in Blocks
      BY <2>1, <1>1, <1>2 DEF Blocks
    <3> QED
      BY <3>1, <2>3 DEF Near, NearBelow
  <2>4. Ranges(m)
    BY <1>2, <1>7, <2>1, <2>3, <1>1 DEF Ranges, Rest, Writes, Wipes
  <2>5. Held(m, L)
    BY <1>7, <2>1, <2>2, <2>3 DEF Held, Rest
  <2>6. Marks(m, f, o)
    BY <1>7, <1>2, <2>3, <2>7 DEF Marks
  <2> QED
    BY <2>3, <2>4, <2>5, <2>6 DEF Ram, L
<1>8. ASSUME Located(n, m, n.main, n.backup, n.mapBa), n.backup # 0, n.to \in {"main", "temp"},
             m.to = "temp", m.at >= n.mapBa, m.at <= Sig, m.from = m.at, m.limit = n.top
      PROVE  m \in Ni /\ Ram(m, f, o)
  <2>1. n.main # 0 /\ Mgmt <= n.main /\ n.main < n.backup /\ n.backup < n.mapBa
    BY <1>1, <1>8 DEF Ranges
  <2>2. L = {n.backup} /\ Near(n, n.backup, f, o) /\ \A d \in Mgmt..n.backup - 1 : Bad(n, d, o)
    BY <1>8, RunsOutLeft DEF L
  <2>3. /\ m \in Ni /\ Core(m, f, o) /\ m.top = n.top
        /\ m.main = n.main /\ m.backup = n.backup /\ m.mapBa = n.mapBa
        /\ \A d \in Mgmt..n.backup - 1 : Bad(m, d, o)
        /\ Near(m, n.backup, f, o)
    BY <1>1, <1>3, <1>8, <2>2
  <2>4. Ranges(m)
    BY <1>2, <1>8, <2>1, <2>3, <1>1 DEF Ranges, Rest, Writes, Wipes
  <2>5. Held(m, L)
    BY <1>8, <2>1, <2>2, <2>3 DEF Held, Rest
  <2>6. Marks(m, f, o)
    BY <1>8, <2>3 DEF Marks
  <2> QED
    BY <2>3, <2>4, <2>5, <2>6 DEF Ram, L
<1>9. CASE n.to = "main" /\ n.backup # 0
  <2>1. \/ Located(n, m, n.backup, 0, n.mapBa) /\ m.to = "done"
        \/ /\ Located(n, m, n.main, n.backup, n.mapBa)
           /\ m.to = "temp" /\ m.at \in n.mapBa..n.top - 2 /\ m.from = m.at
           /\ m.limit = n.top
    BY <1>1, <1>9, FullFields DEF m
  <2>2. m.at \in n.mapBa..n.top - 2 => m.at >= n.mapBa /\ m.at <= Sig
    BY <1>2
  <2> QED
    BY <2>1, <2>2, <1>7, <1>8, <1>9 DEF m
<1>10. CASE n.to = "temp"
  <2>1. \/ Located(n, m, n.backup, 0, n.mapBa) /\ m.to = "done"
        \/ /\ Located(n, m, n.main, n.backup, n.mapBa)
           /\ n.from - 1 >= n.mapBa /\ m.to = "temp" /\ m.at = n.from - 1 /\ m.from = m.at
           /\ m.limit = n.limit
    BY <1>1, <1>10, FullFields DEF m
  <2>2. n.backup # 0 /\ n.limit = n.top /\ n.from <= Sig
    BY <1>1, <1>10 DEF Ranges
  <2>3. n.from - 1 >= n.mapBa => n.from - 1 <= Sig
    BY <2>2, <1>2
  <2> QED
    BY <2>1, <2>2, <2>3, <1>7, <1>8, <1>10 DEF m
<1>11. CASE n.to = "oneMain"
  <2>1. /\ Located(n, m, n.backup, 0, n.mapBa)
        /\ m.to = "front" /\ m.at = Mgmt /\ m.limit = n.backup
    BY <1>1, <1>11, FullFields DEF m
  <2>2. n.backup # 0
    BY <1>1, <1>11 DEF Ranges
  <2> QED
    BY <2>1, <2>2, <1>7, <1>11 DEF m
<1>12. CASE n.to = "rebuild"
  <2>1. /\ m \in Ni /\ SameTables(n, m) /\ m.to = "done" /\ m.prot
        /\ m.main = n.main /\ m.backup = n.backup /\ m.mapBa = n.mapBa
    BY <1>1, <1>12, FullFields DEF m
  <2>2. Core(m, f, o)
    BY <1>1, <2>1, CoreMoves DEF SameTables
  <2>3. n.main = 0 /\ n.backup = 0 /\ n.mapBa = n.top /\ L = {}
    BY <1>1, <1>12 DEF Ranges, Held, Rest
  <2>4. Ranges(m) /\ Held(m, L) /\ Marks(m, f, o)
    BY <2>1, <2>3 DEF Ranges, Held, Marks, SameTables, Rest, Writes, Wipes
  <2> QED
    BY <2>1, <2>2, <2>4 DEF Ram, m, L
<1>13. CASE n.to \in {"second", "front", "behind"}
  <2>1. /\ Located(n, m, n.main, n.backup, n.mapBa)
        /\ \/ m.to = "done"
           \/ /\ m.to = "behind" /\ n.to # "second" /\ m.at >= n.mapBa /\ m.at <= Sig
              /\ m.from = m.at /\ m.limit = n.top
    <3>1. CASE n.to = "second"
      BY <3>1, <1>1, FullFields DEF m
    <3>2. CASE n.to = "front"
      BY <3>2, <1>1, <1>2, FullFields DEF m
    <3>3. CASE n.to = "behind"
      <4>1. /\ Located(n, m, n.main, n.backup, n.mapBa)
            /\ \/ m.to = "done"
               \/ /\ n.from - 1 >= n.mapBa /\ m.to = "behind" /\ m.at = n.from - 1
                  /\ m.from = m.at /\ m.limit = n.limit
        BY <3>3, <1>1, FullFields DEF m
      <4>2. n.limit = n.top /\ n.from <= Sig
        BY <3>3, <1>1 DEF Ranges
      <4>3. n.from - 1 >= n.mapBa => n.from - 1 <= Sig
        BY <4>2, <1>2
      <4> QED
        BY <3>3, <4>1, <4>2, <4>3
    <3> QED
      BY <1>13, <3>1, <3>2, <3>3
  <2>2. n.main # 0 /\ n.backup = 0 /\ Mgmt <= n.main /\ n.main < n.mapBa
    BY <1>1, <1>13 DEF Ranges
  <2>3. \A d \in Mgmt..n.main - 1 : AllBad(n, d, f, o)
    BY <1>4, <1>13, <2>2, RunsOutLeft
  <2>4. /\ m \in Ni /\ Core(m, f, o) /\ m.top = n.top
        /\ m.main = n.main /\ m.backup = n.backup /\ m.mapBa = n.mapBa
        /\ \A d \in Mgmt..n.main - 1 : AllBad(m, d, f, o)
    BY <1>1, <1>3, <2>1, <2>3
  <2>5. L = {n.main}
    BY <1>1, <1>13, <2>2 DEF Held, Rest
  <2>6. Ranges(m)
    BY <1>2, <2>1, <2>2, <2>4, <1>1 DEF Ranges, Rest, Writes, Wipes
  <2>7. Held(m, L)
    BY <2>1, <2>2, <2>4, <2>5 DEF Held, Rest
  <2>8. Marks(m, f, o)
    BY <2>1, <2>4 DEF Marks
  <2> QED
    BY <2>4, <2>6, <2>7, <2>8 DEF Ram, m, L
<1>14. CASE n.to = "rescued"
  <2>1. /\ n.limit \in Nat /\ n.limit = n.mapBa - 1 /\ n.limit > n.backup /\ n.backup # 0
        /\ n.backup >= Mgmt
    BY <1>1, <1>2, <1>14 DEF Ranges
  <2>2. Located(n, m, n.limit, 0, n.mapBa) /\ m.to = "done"
    BY <1>1, <1>14, <2>1, FullFields DEF m
  <2>3. L = {n.limit} /\ \A d \in Mgmt..n.limit - 1 : AllBad(n, d, f, o)
    BY <1>14, RunsOutLeft DEF L
  <2>4. /\ m \in Ni /\ Core(m, f, o) /\ m.top = n.top
        /\ m.main = n.limit /\ m.backup = 0 /\ m.mapBa = n.mapBa
        /\ \A d \in Mgmt..n.limit - 1 : AllBad(m, d, f, o)
    BY <1>1, <1>3, <2>2, <2>3
  <2>5. Ranges(m)
    BY <1>2, <2>1, <2>2, <2>4, <1>1 DEF Ranges, Rest, Writes, Wipes
  <2>6. Held(m, L)
    BY <2>1, <2>2, <2>3, <2>4, <1>2 DEF Held, Rest
  <2>7. Marks(m, f, o)
    BY <2>2, <2>4 DEF Marks
  <2> QED
    BY <2>4, <2>5, <2>6, <2>7 DEF Ram, m, L
<1> QED
  BY <1>1, <1>5, <1>6, <1>9, <1>10, <1>11, <1>12, <1>13, <1>14 DEF Writes

(* A wipe that has gone over its blocks.                                     *)
LEMMA WipedStep ==
  ASSUME NEW n \in Ni, NEW f, NEW o, Ram(n, f, o), n.to \in Wipes
  PROVE  Wiped(n) \in Ni /\ Ram(Wiped(n), f, o)
<1> DEFINE m == Wiped(n)
           L == Live(f, o)
<1> /\ n.top \in Nat /\ n.mapBa \in Nat /\ n.main \in Nat /\ n.backup \in Nat
    /\ n.at \in Int /\ n.limit \in Int
  BY DEF Ni
<1>1. /\ Ranges(n) /\ Held(n, L) /\ Marks(n, f, o)
      /\ Core(n, f, o) /\ Mgmt <= n.mapBa /\ n.mapBa <= n.top
  BY DEF Ram, Core
<1> HIDE DEF L
<1>2. CASE n.to = "wipe"
  <2>1. m = Done(n, TRUE)
    BY <1>2 DEF Wiped
  <2> HIDE DEF m
  <2>2. /\ m \in Ni /\ SameTables(n, m) /\ m.to = "done"
        /\ m.main = n.main /\ m.backup = n.backup /\ m.mapBa = n.mapBa
    BY <2>1, DoneFields
  <2>3. Core(m, f, o)
    BY <1>1, <2>2, CoreMoves DEF SameTables
  <2>4. Ranges(m)
    BY <1>1, <2>2 DEF Ranges, Rest, Writes, Wipes
  <2>5. Held(m, L)
    BY <1>1, <1>2, <2>2 DEF Held, Rest
  <2>6. Marks(m, f, o)
    BY <1>1, <1>2, <2>2, AllBadMoves DEF Marks
  <2> QED
    BY <2>2, <2>3, <2>4, <2>5, <2>6 DEF Ram, m, L
<1>3. CASE n.to = "wipeBehind"
  <2>1. /\ n.main # 0 /\ Mgmt <= n.main /\ n.main < n.mapBa /\ n.mapBa <= n.limit
        /\ n.limit < n.top /\ n.limit \in Nat /\ n.limit + 1 \in Nat
    BY <1>1, <1>3, ConstTypes DEF Ranges
  <2> DEFINE k == Clean([n EXCEPT !.backup = n.limit, !.mapBa = n.limit + 1])
  <2>2. m = Done(k, TRUE)
    BY <1>3 DEF Wiped
  <2> HIDE DEF m
  <2>3. Located(n, k, n.main, n.limit, n.limit + 1)
    <3> DEFINE j == n.limit + 1
    <3>1. j \in Nat
      BY <2>1
    <3> HIDE DEF j
    <3>2. Located(n, Clean([n EXCEPT !.backup = n.limit, !.mapBa = j]), n.main, n.limit, j)
      BY <2>1, <3>1 DEF Located, SameTables, Ni, Clean
    <3> QED
      BY <3>2 DEF j
  <2> HIDE DEF k
  <2>4. Located(n, m, n.main, n.limit, n.limit + 1) /\ m.to = "done"
    BY <2>2, <2>3, DoneLocated
  <2>5. /\ m \in Ni /\ SameTables(n, m) /\ m.to = "done" /\ m.top = n.top
        /\ m.main = n.main /\ m.backup = n.limit /\ m.mapBa = n.limit + 1
    BY <2>4 DEF Located, SameTables
  <2>6. Core(m, f, o)
    BY <1>1, <2>1, <2>5, ConstTypes, CoreMoves
  <2>7. Ranges(m)
    BY <2>1, <2>5, ConstTypes DEF Ranges, Rest, Writes, Wipes
  <2>8. Held(m, L)
    BY <1>1, <1>3, <2>1, <2>5, ConstTypes DEF Held, Rest
  <2>9. Marks(m, f, o)
    BY <1>1, <1>3, <2>5, AllBadMoves DEF Marks
  <2> QED
    BY <2>5, <2>6, <2>7, <2>8, <2>9 DEF Ram, m, L
<1> QED
  BY <1>2, <1>3 DEF Wipes

(* The range NoBlockLeft works in.                                           *)
LEMMA OutOfBlocks ==
  ASSUME IInv, NoBlockLeft, ni.to \in Writes
  PROVE  RunsOut(Passed(ni.limit), flash, oob)
<1> DEFINE n == Passed(ni.limit)
<1>1. On(ni) /\ ni.to \in Writes \cup Wipes /\ Usable = {}
  BY DEF NoBlockLeft, On, Writes, Wipes
<1>2. ni.limit \in Int /\ ni.at \in Int /\ ni \in Ni
  BY DEF IInv, Ni
<1>3. n \in Ni /\ Ram(n, flash, oob)
  BY <1>1, <1>2, PassedRam
<1>4. /\ n.to = ni.to /\ n.at = ni.at /\ n.limit = ni.limit
      /\ \A d \in Blocks : Bad(n, d, oob) <=> Bad(ni, d, oob)
  BY <1>2, PassedSame
<1>5. ni.at \in Mgmt..Sig /\ ni.limit <= ni.top /\ ni.top <= Sig - 1 /\ ni.top \in Nat
  BY <1>1, WorkRange DEF IInv, Ram, Ni
<1> HIDE DEF n
<1>6. \A d \in n.at..n.limit - 1 : d \in Blocks
  BY <1>2, <1>4, <1>5, ConstTypes DEF Blocks
<1>7. \A d \in n.at..n.limit - 1 : Bad(n, d, oob)
  BY <1>1, <1>4, <1>6, UsableNone
<1>8. RunsOut(n, flash, oob)
  BY <1>3, <1>4, <1>7 DEF RunsOut, IInv
<1> QED
  BY <1>8 DEF n

(* A range that has no usable block left keeps the inductive invariant.      *)
LEMMA NoBlockLeftStep ==
  ASSUME IInv, NoBlockLeft
  PROVE  IInv'
<1> DEFINE n == Passed(ni.limit)
<1>1. /\ On(ni) /\ ni.to \in Writes \cup Wipes /\ ni.limit \in Int /\ ni \in Ni
      /\ ni' = (IF ni.to \in Writes THEN Full(n) ELSE Wiped(n))
      /\ flash' = flash /\ oob' = oob
  BY DEF NoBlockLeft, On, Writes, Wipes, IInv, Ni
<1>2. n \in Ni /\ Ram(n, flash, oob) /\ n.to = ni.to
  BY <1>1, PassedRam, PassedSame
<1>3. CASE ni.to \in Writes
  <2>1. RunsOut(n, flash, oob)
    BY <1>3, OutOfBlocks
  <2> HIDE DEF n
  <2>2. Full(n) \in Ni /\ Ram(Full(n), flash, oob)
    BY <2>1, FullStep
  <2> QED
    BY <1>1, <1>3, <2>2 DEF IInv
<1>4. CASE ni.to \notin Writes
  <2> HIDE DEF n
  <2>1. Wiped(n) \in Ni /\ Ram(Wiped(n), flash, oob)
    BY <1>1, <1>2, <1>4, WipedStep
  <2> QED
    BY <1>1, <1>4, <2>1 DEF IInv
<1> QED
  BY <1>3, <1>4

----------------------------------------------------------------------------
(* Attaching.                                                                *)

(* The lowest of a set that has one.                                         *)
LEMMA LowestIs ==
  ASSUME NEW S, S \in SUBSET Nat
  PROVE  Lowest(S) = IF S = {} THEN {} ELSE {Min(S)}
<1>1. CASE S = {}
  BY <1>1 DEF Lowest
<1>2. CASE S # {}
  <2> DEFINE m == Min(S)
  <2>1. m \in S /\ \A x \in S : m <= x
    BY <1>2, MinIs
  <2> HIDE DEF m
  <2>2. Lowest(S) = {m}
    <3>1. \A x \in S : x \in Int
      OBVIOUS
    <3>2. \A b \in S : (\A c \in S : b <= c) => b = m
      BY <3>1, <2>1
    <3> QED
      BY <3>2, <2>1, Zenon DEF Lowest
  <2> QED
    BY <1>2, <2>2 DEF m
<1> QED
  BY <1>1, <1>2

(* The search finds every live table.                                        *)
LEMMA TablesLive ==
  ASSUME Flash(flash, oob)
  PROVE  Tables = Live(flash, oob)
<1> DEFINE L == Live(flash, oob)
           S == Searched(Mgmt, AllGood)
<1>1. \A b \in L : /\ b \in Mgmt..Sig - 2 /\ Placed(flash[b].map, b + 1)
                   /\ b \in Blocks /\ b \in Nat /\ b \notin oob /\ flash[b].kind = "table"
                   /\ \A c \in L : flash[b].st[c] = "good"
  BY ConstTypes DEF Flash, TablesLoadable, Live
<1>2. \A b \in L : \A lb \in Logic : flash[b].map[lb] \notin (Mgmt..b) \cup {Sig}
  BY <1>1, ConstTypes DEF Placed, Avoids
<1>3. \A b \in Mgmt..Sig - 2 : b \in Blocks /\ b \in Nat /\ AllGood[b] = "good"
  BY ConstTypes DEF AllGood, Blocks
<1>4. S = L
  BY <1>1, <1>2, <1>3 DEF Searched, Valid, Live
<1>5. CASE L = {}
  BY <1>4, <1>5 DEF Tables, Lowest
<1>6. CASE L # {}
  <2> DEFINE m == Min(S)
             rest == Searched(m + 1, flash[m].st)
  <2>1. L \in SUBSET Nat
    BY <1>1
  <2>2. m \in L /\ \A c \in L : m <= c
    BY <1>4, <1>6, <2>1, MinIs
  <2>3. Tables = {m} \cup Lowest(rest)
    <3>1. Lowest(S) = {m}
      BY <1>4, <1>6, <2>1, LowestIs
    <3> HIDE DEF m
    <3> QED
      BY <3>1 DEF Tables
  <2> HIDE DEF m
  <2>4. \A c \in m + 1..Sig - 2 : c \in Mgmt..Sig - 2 /\ c > m
    BY <1>1, <2>2, ConstTypes
  <2>5. \A c \in L \ {m} : c \in m + 1..Sig - 2
    BY <1>1, <2>1, <2>2
  <2>6. rest = L \ {m}
    BY <1>1, <1>2, <1>3, <2>2, <2>4, <2>5 DEF Searched, Valid, Live
  <2> HIDE DEF rest
  <2>7. CASE rest = {}
    BY <2>2, <2>3, <2>6, <2>7 DEF Lowest
  <2>8. CASE rest # {}
    <3>1. rest \in SUBSET Nat
      BY <2>1, <2>6
    <3>2. Min(rest) \in rest /\ Lowest(rest) = {Min(rest)}
      BY <3>1, <2>8, MinIs, LowestIs
    <3>3. \A d \in L : d = m \/ d = Min(rest)
      <4>1. m < Min(rest)
        BY <3>2, <2>1, <2>2, <2>6
      <4> QED
        BY <4>1, <3>2, <2>2, <2>6 DEF Flash, AtMostTwo
    <3> QED
      BY <3>2, <3>3, <2>2, <2>3, <2>6, <2>8
  <2> QED
    BY <2>7, <2>8
<1> QED
  BY <1>5, <1>6

(* The newest table is one of the highest write count.                       *)
LEMMA NewestIs ==
  ASSUME Flash(flash, oob), Live(flash, oob) # {}
  PROVE  Newest \in Live(flash, oob)
         /\ \A c \in Live(flash, oob) : flash[c].wc <= flash[Newest].wc
<1> DEFINE L == Live(flash, oob)
           P(b) == \A c \in L : flash[c].wc < flash[b].wc \/ (flash[c].wc = flash[b].wc /\ b <= c)
<1>1. \A b \in L : b \in Nat /\ flash[b].wc \in Nat
  BY ConstTypes DEF Flash, TablesLoadable, Saved, Live
<1>2. Newest = CHOOSE b \in L : P(b)
  BY TablesLive DEF Newest
<1>3. \E b \in L : P(b)
  <2>1. L \in SUBSET Nat
    BY <1>1
  <2> DEFINE m == Min(L)
  <2>2. m \in L /\ \A c \in L : m <= c
    BY <2>1, MinIs
  <2> HIDE DEF m
  <2>3. CASE P(m)
    BY <2>2, <2>3
  <2>4. CASE ~P(m)
    <3>1. PICK c \in L : ~(flash[c].wc < flash[m].wc \/ (flash[c].wc = flash[m].wc /\ m <= c))
      BY <2>4
    <3>2. flash[c].wc > flash[m].wc /\ m < c
      BY <3>1, <1>1, <2>2
    <3>3. \A d \in L : d = m \/ d = c
      BY <3>2, <2>2 DEF Flash, AtMostTwo
    <3>4. P(c)
      BY <3>2, <3>3, <1>1, <2>2
    <3> QED
      BY <3>4
  <2> QED
    BY <2>3, <2>4
<1>4. Newest \in L /\ P(Newest)
  BY <1>2, <1>3
<1> QED
  BY <1>1, <1>4

(* A table in memory is generated from what the instance knows.              *)
LEMMA GeneratedFields ==
  ASSUME NEW n \in Ni
  PROVE  LET m == Generated(n)
         IN  /\ m \in Ni /\ m.wc \in {n.wc, n.wc + 1} /\ m.cache \in Saved
             /\ n.dirty => m.wc = n.wc + 1
             /\ m.cache.wc = m.wc /\ m.cache.st = n.st /\ m.cache.map = n.map
             /\ m.st = n.st /\ m.map = n.map /\ m.top = n.top
             /\ m.main = n.main /\ m.backup = n.backup /\ m.mapBa = n.mapBa
             /\ m.op = n.op /\ m.dirty = n.dirty /\ m.prot = n.prot
             /\ m.lb = n.lb /\ m.pb = n.pb /\ m.data = n.data
             /\ m.to = n.to /\ m.ok = n.ok
<1> DEFINE w == n.wc + (IF n.dirty THEN 1 ELSE 0)
           k == [n EXCEPT !.wc = w]
<1>1. w \in Nat /\ w \in {n.wc, n.wc + 1} /\ (n.dirty => w = n.wc + 1)
  BY DEF Ni
<1> HIDE DEF w
<1>2. Generated(n) = [k EXCEPT !.cache = Table(k)]
  BY DEF Generated, w
<1>3. k \in Ni /\ k.wc = w /\ k.st = n.st /\ k.map = n.map
  BY <1>1 DEF Ni
<1>4. Table(k) \in Saved /\ Table(k).wc = w /\ Table(k).st = n.st /\ Table(k).map = n.map
  BY <1>3, TableType
<1> DEFINE t == Table(k)
<1> HIDE DEF t
<1>5. Generated(n) = [n EXCEPT !.wc = w, !.cache = t]
  BY <1>2 DEF t, Ni
<1> HIDE DEF k
<1>6. t \in Saved /\ t.wc = w /\ t.st = n.st /\ t.map = n.map
  BY <1>4 DEF t
<1> QED
  BY <1>1, <1>5, <1>6 DEF Ni

(* A detached instance has the right type.                                   *)
LEMMA DetachedType == Detached \in Ni
<1>1. AllGood \in States /\ [lb \in Logic |-> -1] \in Maps
  BY DEF AllGood, States, StKinds, Maps
<1>2. Sig - 1 \in Nat
  BY ConstTypes
<1> QED
  BY <1>1, <1>2, ConstTypes DEF Detached, Ni, Tos, Ops

(* The mapped blocks of the newest table all lie above the live tables.      *)
LEMMA TopOfNewest ==
  ASSUME Flash(flash, oob), Live(flash, oob) # {}
  PROVE  LET p == TopOf(Newest)
         IN  /\ p \in Nat /\ p <= Sig - 1 /\ Placed(flash[Newest].map, p)
             /\ \A b \in Live(flash, oob) : b + 1 <= p
<1> DEFINE L == Live(flash, oob)
           k == Newest
           map == flash[k].map
           V == {map[lb] : lb \in {l \in Logic : map[l] > k}}
           S == {Sig} \cup V
<1>1. k \in L /\ \A c \in L : flash[c].wc <= flash[k].wc
  BY NewestIs
<1>2. /\ k \in Mgmt..Sig - 2 /\ k \in Nat /\ map \in Maps /\ Placed(map, k + 1)
      /\ \A c \in L : c \in Mgmt..Sig - 2 /\ c \in Nat /\ Avoids(map, Mgmt..c + 1)
  <2>1. \A c \in L : c \in Mgmt..Sig - 2 /\ flash[c] \in Saved /\ Placed(flash[c].map, c + 1)
    BY DEF Flash, TablesLoadable
  <2>2. \A c \in L : Avoids(map, Mgmt..c + 1)
    BY <1>1 DEF Flash, NewestClear
  <2> QED
    BY <1>1, <2>1, <2>2, ConstTypes DEF Saved
<1>3. TopOf(Newest) = Min(S) - 1
  BY DEF TopOf
<1> HIDE DEF k, map
<1>4. \A lb \in Logic : map[lb] \in {-1} \cup Blocks
  BY <1>2 DEF Maps
<1>5. \A v \in V : v \in Blocks /\ v \in Nat /\ v > k
  BY <1>2, <1>4, ConstTypes DEF Blocks
<1>6. S \in SUBSET Nat /\ S # {}
  BY <1>5, ConstTypes
<1>7. Min(S) \in S /\ \A v \in S : Min(S) <= v
  BY <1>6, MinIs
<1> DEFINE p == Min(S) - 1
<1>8. \A b \in L, v \in V : v > b + 1
  <2> SUFFICES ASSUME NEW b \in L, NEW v \in V
               PROVE  v > b + 1
    OBVIOUS
  <2>1. PICK lb \in Logic : v = map[lb]
    OBVIOUS
  <2>2. v \notin Mgmt..b + 1 /\ v > k /\ v \in Nat
    BY <2>1, <1>2, <1>5 DEF Avoids
  <2> QED
    BY <2>2, <1>2, ConstTypes
<1>9. \A b \in L : b + 1 < Min(S)
  BY <1>2, <1>7, <1>8, ConstTypes
<1>10. Min(S) \in Nat /\ Min(S) <= Sig
  BY <1>6, <1>7
<1> HIDE DEF S, V
<1>11. p \in Nat /\ p <= Sig - 1 /\ \A b \in L : b + 1 <= p
  BY <1>1, <1>2, <1>9, <1>10, ConstTypes DEF k
<1>12. Placed(map, p)
  <2>1. ASSUME NEW lb \in Logic, map[lb] \in Mgmt..p
        PROVE  FALSE
    <3>1. map[lb] > k
      BY <2>1, <1>2, <1>4, ConstTypes DEF Placed, Avoids
    <3>2. map[lb] \in S
      BY <3>1 DEF S, V
    <3> QED
      BY <3>2, <2>1, <1>7, <1>10
  <2> QED
    BY <2>1, <1>2 DEF Placed, Avoids
<1> QED
  BY <1>3, <1>11, <1>12 DEF map, k

\* The instance n has the newest table in memory; it may have found more bad blocks,
\* which it notes
Loaded(n) ==
  LET t == flash[Newest]
  IN  /\ n \in Ni /\ n.map = t.map /\ n.top = TopOf(Newest) /\ n.wc = t.wc
      /\ \A d \in Blocks : Bad(t, d, oob) => Bad(n, d, oob)
      /\ \A b \in Live(flash, oob) : ~Bad(n, b, oob)
      /\ ~n.dirty => \A d \in Blocks : Bad(n, d, oob) => Bad(t, d, oob)

(* An instance loaded from the newest table knows what the tables know.      *)
LEMMA LoadedCore ==
  ASSUME NEW n, Loaded(n), Flash(flash, oob), Live(flash, oob) # {},
         Mgmt <= n.mapBa, n.mapBa <= n.top
  PROVE  /\ Core(Generated(n), flash, oob)
         /\ \A d \in Blocks : Bad(Generated(n), d, oob) <=> Bad(n, d, oob)
         /\ \A d \in Blocks : Bad(Generated(n).cache, d, oob) <=> Bad(n, d, oob)
<1> DEFINE L == Live(flash, oob)
           t == flash[Newest]
           g == Generated(n)
<1>1. n \in Ni /\ n.map = t.map /\ n.top = TopOf(Newest) /\ n.wc = t.wc
      /\ (\A d \in Blocks : Bad(t, d, oob) => Bad(n, d, oob))
      /\ (\A b \in L : ~Bad(n, b, oob))
      /\ (~n.dirty => \A d \in Blocks : Bad(n, d, oob) => Bad(t, d, oob))
  BY DEF Loaded
<1>2. /\ g \in Ni /\ g.wc \in {n.wc, n.wc + 1} /\ g.cache \in Saved
      /\ (n.dirty => g.wc = n.wc + 1)
      /\ g.cache.wc = g.wc /\ g.cache.st = n.st /\ g.cache.map = n.map
      /\ g.st = n.st /\ g.map = n.map /\ g.top = n.top /\ g.mapBa = n.mapBa
  BY <1>1, GeneratedFields
<1>3. Newest \in L /\ \A c \in L : flash[c].wc <= t.wc
  BY NewestIs
<1>4. /\ n.top \in Nat /\ n.top <= Sig - 1 /\ Placed(t.map, n.top)
      /\ \A b \in L : b + 1 <= n.top
  BY <1>1, TopOfNewest
<1>5. \A b \in L : b \in Nat /\ b \in Blocks /\ flash[b].wc \in Nat /\ b \notin oob
  BY ConstTypes DEF Flash, TablesLoadable, Live, Saved
<1> HIDE DEF g, t, L
<1>6. \A d \in Blocks : (Bad(g, d, oob) <=> Bad(n, d, oob)) /\ (Bad(g.cache, d, oob) <=> Bad(n, d, oob))
  BY <1>1, <1>2 DEF Bad
<1>7. \A b \in L, d \in Blocks : Bad(flash[b], d, oob) => Bad(n, d, oob)
  <2>1. \A b \in L, d \in Blocks : Bad(flash[b], d, oob) => Bad(t, d, oob)
    BY <1>3 DEF Flash, NewerKnowsMore, L, t
  <2> QED
    BY <2>1, <1>1
<1>8. \A b \in L : ~Bad(n, b, oob)
  BY <1>1
<1>9. \A b \in L : flash[b].wc <= g.wc
  BY <1>1, <1>2, <1>3, <1>5 DEF t
<1>10. ASSUME NEW b \in L, flash[b].wc = g.wc
       PROVE  /\ flash[b].map = g.cache.map
              /\ \A d \in Blocks : Bad(g.cache, d, oob) => Bad(flash[b], d, oob)
  <2>1. flash[b].wc = t.wc /\ ~n.dirty
    BY <1>1, <1>2, <1>3, <1>5, <1>10 DEF t
  <2>2. flash[b].map = t.map
    BY <2>1, <1>3 DEF Flash, SameAge, L, t
  <2>3. \A d \in Blocks : Bad(t, d, oob) => Bad(flash[b], d, oob)
    <3>1. t.wc <= flash[b].wc
      BY <2>1, <1>5
    <3> QED
      BY <3>1, <1>3 DEF Flash, NewerKnowsMore, L, t
  <2> QED
    BY <2>1, <2>2, <2>3, <1>1, <1>2, <1>6
<1>11. \A d \in Mgmt..g.top : d \in Blocks
  BY <1>2, <1>4, ConstTypes DEF Blocks
<1>12. \A b \in L : b < g.top
  BY <1>2, <1>4, <1>5
<1>13. /\ Placed(g.map, g.top) /\ Placed(g.cache.map, g.top)
       /\ Mgmt <= g.mapBa /\ g.mapBa <= g.top /\ g.top <= Sig - 1
  BY <1>1, <1>2, <1>4
<1>14. Core(g, flash, oob)
  BY <1>2, <1>5, <1>6, <1>7, <1>8, <1>9, <1>10, <1>11, <1>12, <1>13 DEF Core, L
<1> QED
  BY <1>6, <1>14 DEF g, t

(* Loading the tables yields an instance that satisfies the invariant.       *)
LEMMA LoadStep ==
  ASSUME Flash(flash, oob), Live(flash, oob) # {}, NEW ecc \in SUBSET Unreadable
  PROVE  /\ Load(ecc) \in Ni /\ Load(ecc).op = "load" /\ Ram(Load(ecc), flash, oob)
         /\ Load(ecc).map = flash[Newest].map /\ Load(ecc).cache.map = flash[Newest].map
         /\ \/ /\ Load(ecc).to \in {"front", "done"}
               /\ \A b \in Live(flash, oob) : flash[b].map = flash[Newest].map
            \/ Load(ecc).to = "oneMain" /\ Newest = Load(ecc).backup
            \/ Load(ecc).to = "oneBackup" /\ Newest = Load(ecc).main
<1> DEFINE L == Live(flash, oob)
           m == Min(Tables)
           s == Max(Tables)
           seen == IF s = m THEN m + 1..Sig - 2 ELSE m + 1..s - 1
           late == {b \in seen \cap (oob \cup ecc) : flash[m].st[b] = "good"}
           t == flash[Newest]
           live == {l \in Logic : t.map[l] >= 0}
           st == [b \in Blocks |-> IF Newest = m /\ b \in late THEN "bad" ELSE t.st[b]]
           dirty == ((Mgmt..m - 1) \cap (oob \cup ecc) # {} \/ late # {})
           data == IF live = {} THEN Mgmt ELSE Max(live) + 1
           n == [Detached EXCEPT !.map = t.map, !.wc = t.wc, !.top = TopOf(Newest), !.st = st,
                   !.dirty = dirty, !.data = data, !.main = m,
                   !.backup = IF s = m THEN 0 ELSE s, !.mapBa = s + 1, !.op = "load"]
           g == Generated(n)
           r == [g EXCEPT !.dirty = TRUE]
<1>1. Tables = L
  BY TablesLive
<1>2. \A b \in L : b \in Mgmt..Sig - 2 /\ b \in Nat /\ b \in 0..Sig /\ flash[b] \in Saved
  BY ConstTypes DEF Flash, TablesLoadable
<1>3. m \in L /\ s \in L /\ (\A c \in L : m <= c /\ c <= s) /\ L = {m, s}
  <2>1. L \in SUBSET Nat /\ L \in SUBSET (0..Sig)
    BY <1>2
  <2>2. m \in L /\ \A c \in L : m <= c
    BY <1>1, <2>1, MinIs
  <2>3. s \in L /\ \A c \in L : c <= s
    BY <1>1, <2>1, ConstTypes, MaxIs
  <2> HIDE DEF m, s
  <2>4. \A c \in L : c = m \/ c = s
    <3>1. CASE m < s
      BY <3>1, <2>2, <2>3 DEF Flash, AtMostTwo
    <3>2. CASE ~(m < s)
      BY <3>2, <2>1, <2>2, <2>3
    <3> QED
      BY <3>1, <3>2
  <2> QED
    BY <2>2, <2>3, <2>4
<1>4. Newest \in L /\ \A c \in L : flash[c].wc <= t.wc
  BY NewestIs
<1>5. /\ TopOf(Newest) \in Nat /\ TopOf(Newest) <= Sig - 1
      /\ \A b \in L : b + 1 <= TopOf(Newest)
  BY TopOfNewest
<1>6. Load(ecc) = IF s = m THEN RescueSingle(g)
             ELSE IF flash[m].wc = flash[s].wc THEN Done(g, TRUE)
             ELSE IF flash[m].wc < flash[s].wc THEN Write(r, "oneMain", m, s)
             ELSE Write(r, "oneBackup", s, g.top)
  BY DEF Load
<1> HIDE DEF m, s
<1>7. /\ \A d \in late : d \notin Mgmt..m - 1 /\ d \notin L
      /\ t.st \in States /\ t.map \in Maps /\ t.wc \in Nat
  <2>1. \A d \in late : d > m /\ d \notin L
    <3>1. \A d \in seen : d > m
      BY <1>2, <1>3
    <3>2. \A d \in oob \cup ecc : d \notin L
      BY Contents DEF Live, Unreadable
    <3> QED
      BY <3>1, <3>2
  <2>2. \A d \in Mgmt..m - 1 : ~(d > m)
    BY <1>2, <1>3
  <2> QED
    BY <2>1, <2>2, <1>2, <1>4 DEF Saved
<1>8. st \in States /\ \A d \in Blocks : st[d] = IF Newest = m /\ d \in late THEN "bad" ELSE t.st[d]
  BY <1>7 DEF States, StKinds
<1>9. dirty \in BOOLEAN /\ (~dirty => late = {})
  OBVIOUS
<1>10. data \in Nat
  <2>1. CASE live = {}
    BY <2>1, ConstTypes
  <2>2. CASE live # {}
    <3>1. live \in SUBSET (0..Mgmt)
      BY ConstTypes DEF Logic
    <3>2. Max(live) \in live
      BY <2>2, <3>1, ConstTypes, MaxIs
    <3>3. Max(live) \in Nat
      BY <3>1, <3>2, ConstTypes
    <3> QED
      BY <2>2, <3>3
  <2> QED
    BY <2>1, <2>2
<1> HIDE DEF st, dirty, data
<1>11. /\ n \in Ni /\ n.map = t.map /\ n.wc = t.wc /\ n.top = TopOf(Newest) /\ n.st = st
       /\ n.main = m /\ n.backup = (IF s = m THEN 0 ELSE s) /\ n.mapBa = s + 1
       /\ n.op = "load" /\ n.dirty = dirty
  <2> DEFINE j == s + 1
             k == IF s = m THEN 0 ELSE s
             p == TopOf(Newest)
  <2>1. j \in Nat /\ k \in Nat /\ m \in Nat /\ p \in Nat
    BY <1>2, <1>3, <1>5
  <2> HIDE DEF j, k, p, t
  <2>2. [Detached EXCEPT !.map = t.map, !.wc = t.wc, !.top = p, !.st = st,
                   !.dirty = dirty, !.data = data, !.main = m,
                   !.backup = k, !.mapBa = j, !.op = "load"] = n
    BY DEF j, k, p
  <2> HIDE DEF n
  <2>3. /\ n \in Ni /\ n.map = t.map /\ n.wc = t.wc /\ n.top = p /\ n.st = st
        /\ n.main = m /\ n.backup = k /\ n.mapBa = j /\ n.op = "load" /\ n.dirty = dirty
    BY <2>1, <2>2, <1>7, <1>8, <1>9, <1>10, DetachedType DEF Ni, Ops
  <2> QED
    BY <2>3 DEF j, k, p
<1> HIDE DEF n, live
<1> HIDE DEF late
<1>32. \A d \in Blocks : /\ Bad(t, d, oob) => Bad(n, d, oob)
                         /\ Bad(n, d, oob) => Bad(t, d, oob) \/ (Newest = m /\ d \in late)
  BY <1>8, <1>11 DEF Bad
<1>12. Loaded(n)
  <2>1. \A b \in L : b \in Blocks /\ ~Bad(t, b, oob)
    BY <1>4 DEF Flash, TablesLoadable, Live, Bad
  <2>2. \A b \in L : ~Bad(n, b, oob)
    BY <2>1, <1>7, <1>32
  <2> HIDE DEF t
  <2> QED
    BY <2>2, <1>9, <1>11, <1>32 DEF Loaded, t
<1>13. Mgmt <= n.mapBa /\ n.mapBa <= n.top
  BY <1>2, <1>3, <1>5, <1>11, ConstTypes
<1>14. /\ Core(g, flash, oob)
       /\ \A d \in Blocks : Bad(g, d, oob) <=> Bad(n, d, oob)
       /\ \A d \in Blocks : Bad(g.cache, d, oob) <=> Bad(n, d, oob)
  BY <1>12, <1>13, <1>3, LoadedCore
<1>15. /\ g \in Ni /\ g.top = n.top /\ g.main = m /\ g.backup = n.backup
       /\ g.mapBa = s + 1 /\ g.op = "load" /\ g.map = n.map /\ g.cache.map = n.map
  BY <1>11, GeneratedFields
<1> HIDE DEF g
<1>16. r \in Ni /\ SameTables(g, r) /\ r.main = m /\ r.backup = n.backup /\ r.mapBa = s + 1 /\ r.op = "load"
  BY <1>15 DEF SameTables, Ni
<1> HIDE DEF r
<1>17. {"front", "oneMain", "oneBackup"} \subseteq Tos
  BY DEF Tos, Writes
<1>18. Mgmt \in Int /\ m \in Int /\ s \in Int /\ g.top \in Int /\ m <= s /\ Mgmt <= m /\ s <= Sig
  BY <1>2, <1>3, <1>5, <1>11, <1>15, ConstTypes
<1>19. \E k : /\ Load(ecc) \in Ni /\ SameTables(k, Load(ecc)) /\ k \in {g, r}
              /\ Load(ecc).main = m /\ Load(ecc).backup = n.backup /\ Load(ecc).mapBa = s + 1 /\ Load(ecc).op = "load"
              /\ \/ s = m /\ Load(ecc).to = "front" /\ Load(ecc).at = Mgmt /\ Load(ecc).limit = m
                 \/ s # m /\ flash[m].wc = flash[s].wc /\ Load(ecc).to = "done"
                 \/ /\ s # m /\ flash[m].wc < flash[s].wc
                    /\ Load(ecc).to = "oneMain" /\ Load(ecc).at = m /\ Load(ecc).limit = s
                 \/ /\ s # m /\ flash[m].wc # flash[s].wc /\ ~(flash[m].wc < flash[s].wc)
                    /\ Load(ecc).to = "oneBackup" /\ Load(ecc).at = s /\ Load(ecc).limit = g.top
  <2>1. CASE s = m
    <3>1. Load(ecc) = Write(g, "front", Mgmt, m)
      BY <2>1, <1>6, <1>15 DEF RescueSingle
    <3>2. /\ Load(ecc) \in Ni /\ SameTables(g, Load(ecc))
          /\ Load(ecc).main = m /\ Load(ecc).backup = n.backup /\ Load(ecc).mapBa = s + 1 /\ Load(ecc).op = "load"
          /\ Load(ecc).to = "front" /\ Load(ecc).at = Mgmt /\ Load(ecc).limit = m
      BY <3>1, <1>15, <1>17, <1>18, WriteFields
    <3> QED
      BY <3>2, <2>1
  <2>2. CASE s # m /\ flash[m].wc = flash[s].wc
    <3>1. Load(ecc) = Done(g, TRUE)
      BY <2>2, <1>6
    <3>2. /\ Load(ecc) \in Ni /\ SameTables(g, Load(ecc))
          /\ Load(ecc).main = m /\ Load(ecc).backup = n.backup /\ Load(ecc).mapBa = s + 1 /\ Load(ecc).op = "load"
          /\ Load(ecc).to = "done"
      <4>1. /\ Done(g, TRUE) \in Ni /\ SameTables(g, Done(g, TRUE))
            /\ Done(g, TRUE).main = g.main /\ Done(g, TRUE).backup = g.backup
            /\ Done(g, TRUE).mapBa = g.mapBa /\ Done(g, TRUE).op = g.op /\ Done(g, TRUE).to = "done"
        BY <1>15, DoneFields
      <4> QED
        BY <3>1, <4>1, <1>15, Zenon
    <3> QED
      BY <3>2, <2>2
  <2>3. CASE s # m /\ flash[m].wc < flash[s].wc /\ flash[m].wc # flash[s].wc
    <3>1. Load(ecc) = Write(r, "oneMain", m, s)
      BY <2>3, <1>6
    <3>2. /\ Load(ecc) \in Ni /\ SameTables(r, Load(ecc))
          /\ Load(ecc).main = m /\ Load(ecc).backup = n.backup /\ Load(ecc).mapBa = s + 1 /\ Load(ecc).op = "load"
          /\ Load(ecc).to = "oneMain" /\ Load(ecc).at = m /\ Load(ecc).limit = s
      BY <3>1, <1>16, <1>17, <1>18, WriteFields
    <3> QED
      BY <3>2, <2>3
  <2>4. CASE s # m /\ flash[m].wc # flash[s].wc /\ ~(flash[m].wc < flash[s].wc)
    <3>1. Load(ecc) = Write(r, "oneBackup", s, g.top)
      BY <2>4, <1>6
    <3> QED
      BY <3>1, <2>4, <1>16, <1>17, <1>18, WriteFields
  <2> QED
    BY <2>1, <2>2, <2>3, <2>4
<1> DEFINE q == Load(ecc)
<1>20. /\ q \in Ni /\ SameTables(g, q)
       /\ q.main = m /\ q.backup = (IF s = m THEN 0 ELSE s) /\ q.mapBa = s + 1 /\ q.op = "load"
       /\ \/ s = m /\ q.to = "front" /\ q.at = Mgmt /\ q.limit = m
          \/ s # m /\ flash[m].wc = flash[s].wc /\ q.to = "done"
          \/ /\ s # m /\ flash[m].wc < flash[s].wc
             /\ q.to = "oneMain" /\ q.at = m /\ q.limit = s
          \/ /\ s # m /\ flash[m].wc # flash[s].wc /\ ~(flash[m].wc < flash[s].wc)
             /\ q.to = "oneBackup" /\ q.at = s /\ q.limit = g.top
  BY <1>11, <1>16, <1>19 DEF SameTables
<1> HIDE DEF q
<1>21. Core(q, flash, oob)
  BY <1>11, <1>13, <1>14, <1>15, <1>20, CoreMoves DEF SameTables
<1>22. \A d \in Blocks :
         /\ Bad(t, d, oob) => Bad(q, d, oob) /\ Bad(q.cache, d, oob)
         /\ Bad(q.cache, d, oob) => Bad(t, d, oob) \/ (Newest = m /\ d \in late)
  <2>1. \A d \in Blocks : (Bad(q, d, oob) <=> Bad(n, d, oob)) /\ (Bad(q.cache, d, oob) <=> Bad(n, d, oob))
    BY <1>14, <1>20 DEF SameTables, Bad
  <2> QED
    BY <2>1, <1>32
<1>23. q.top = g.top /\ q.top = TopOf(Newest) /\ m # 0 /\ s # 0
  BY <1>2, <1>3, <1>11, <1>15, <1>20, ConstTypes DEF SameTables
<1>24. Ranges(q)
  BY <1>5, <1>3, <1>18, <1>20, <1>23, ConstTypes DEF Ranges, Rest, Writes, Wipes
<1>25. Held(q, L)
  BY <1>3, <1>20, <1>23 DEF Held, Rest
<1>26. s # m => m < s /\ \A d \in Mgmt..m - 1 : d \in Blocks /\ AllBad(q, d, flash, oob)
  <2> SUFFICES ASSUME s # m
               PROVE  m < s /\ \A d \in Mgmt..m - 1 : d \in Blocks /\ AllBad(q, d, flash, oob)
    OBVIOUS
  <2>1. m < s
    BY <1>18
  <2>2. \A d \in Mgmt..m - 1 : Bad(flash[m], d, oob) /\ Bad(flash[s], d, oob)
    BY <1>3, <2>1 DEF Flash, BelowBoth
  <2>3. \A d \in Mgmt..m - 1 : d \in Blocks
    BY <1>18, ConstTypes DEF Blocks
  <2>4. \A d \in Mgmt..m - 1 : Bad(t, d, oob) /\ \A b \in L : Bad(flash[b], d, oob)
    BY <1>3, <1>4, <2>2
  <2> QED
    BY <2>1, <2>3, <2>4, <1>22 DEF AllBad
<1>27. q.to = "front" => NearBelow(q, flash, oob)
  <2>1. \A d \in Mgmt..m - 1 : d \in Blocks /\ d \notin late
    BY <1>7, <1>18, ConstTypes DEF Blocks
  <2> QED
    BY <2>1, <1>3, <1>4, <1>20, <1>22 DEF NearBelow
<1>28. q.to = "oneMain" => Near(q, s, flash, oob) /\ Newest = s
  <2> SUFFICES ASSUME q.to = "oneMain"
               PROVE  Near(q, s, flash, oob) /\ Newest = s
    OBVIOUS
  <2>1. flash[m].wc < flash[s].wc /\ flash[s].wc \in Nat /\ flash[m].wc \in Nat
    BY <1>2, <1>3, <1>20 DEF Saved
  <2>2. Newest = s
    BY <2>1, <1>3, <1>4
  <2>3. Newest # m
    BY <2>1, <2>2
  <2> QED
    BY <2>2, <2>3, <1>22 DEF Near
<1>29. Marks(q, flash, oob)
  BY <1>18, <1>20, <1>23, <1>26, <1>27, <1>28 DEF Marks
<1>30. q.map = t.map /\ q.cache.map = t.map
  BY <1>11, <1>15, <1>20 DEF SameTables
<1>31. \/ /\ q.to \in {"front", "done"}
          /\ \A b \in L : flash[b].map = t.map
       \/ q.to = "oneMain" /\ Newest = q.backup
       \/ q.to = "oneBackup" /\ Newest = q.main
  <2>1. flash[m].wc \in Nat /\ flash[s].wc \in Nat
    BY <1>2, <1>3 DEF Saved
  <2>2. flash[m].wc = flash[s].wc => flash[m].map = flash[s].map
    BY <1>3 DEF Flash, SameAge
  <2>3. CASE q.to \in {"front", "done"}
    BY <2>2, <2>3, <1>3, <1>4, <1>20
  <2>4. CASE q.to = "oneMain"
    BY <2>4, <1>20, <1>28
  <2>5. CASE q.to = "oneBackup"
    <3>1. flash[s].wc < flash[m].wc
      BY <2>1, <2>5, <1>20
    <3>2. Newest = m
      BY <2>1, <3>1, <1>3, <1>4
    <3> QED
      BY <2>5, <3>2, <1>20
  <2> QED
    BY <2>3, <2>4, <2>5, <1>20
<1> QED
  BY <1>20, <1>21, <1>24, <1>25, <1>29, <1>30, <1>31 DEF Ram, q

(* Good blocks are counted off one by one: no block is given away twice.     *)
LEMMA BuiltPlaced ==
  ASSUME NEW p \in Nat, p <= Sig - 1
  PROVE  Built \in Maps /\ Placed(Built, p)
<1> DEFINE G == Logic \ oob
           Rank(b) == Cardinality({c \in G : c < b})
           S(lb) == {b \in G : Rank(b) = lb}
           f(lb) == IF S(lb) = {} THEN -1 ELSE Max(S(lb))
<1>1. Built = [lb \in Logic |-> f(lb)]
  BY DEF Built
<1> HIDE DEF Rank
<1>2. \A lb \in Logic : S(lb) # {} => Max(S(lb)) \in S(lb)
  <2> SUFFICES ASSUME NEW lb \in Logic, S(lb) # {}
               PROVE  Max(S(lb)) \in S(lb)
    OBVIOUS
  <2>1. S(lb) \in SUBSET (0..Mgmt)
    BY ConstTypes DEF Logic
  <2> HIDE DEF S
  <2> QED
    BY <2>1, ConstTypes, MaxIs
<1>3. \A lb \in Logic : f(lb) = -1 \/ (f(lb) \in Logic /\ Rank(f(lb)) = lb)
  BY <1>2
<1> HIDE DEF f
<1>4. \A lb \in Logic : f(lb) \in {-1} \cup Blocks
  BY <1>3, ConstTypes
<1>5. Built \in Maps
  BY <1>1, <1>4 DEF Maps
<1>6. \A l, k \in Logic : l # k /\ f(l) >= 0 => f(l) # f(k)
  BY <1>3
<1>7. \A lb \in Logic : f(lb) \notin Mgmt..p /\ f(lb) # Sig
  BY <1>3, ConstTypes DEF Logic
<1> QED
  BY <1>1, <1>5, <1>6, <1>7 DEF Placed, OneToOne, Avoids

(* So does creating them, when the search found none.                        *)
LEMMA CreateStep ==
  ASSUME Flash(flash, oob), Live(flash, oob) = {}, NEW ecc \in SUBSET Unreadable
  PROVE  /\ Create(ecc) \in Ni /\ Create(ecc).op = "create"
         /\ On(Create(ecc)) =>
              /\ Ram(Create(ecc), flash, oob)
              /\ Create(ecc).to = "rebuild" /\ Create(ecc).cache.map = Create(ecc).map
<1> DEFINE data == Cardinality(Logic \ oob)
           dirty == (oob \cup ecc # {})
           n == [Detached EXCEPT !.st = Scanned(ecc), !.map = Built, !.data = data,
                                 !.dirty = dirty, !.op = "create"]
           room == Good(n, Mgmt + 1..Sig - 1)
           p == Max(room)
           k == [n EXCEPT !.top = p]
           g == Generated(k)
           j == [g EXCEPT !.main = 0, !.backup = 0, !.mapBa = g.top]
<1>1. Create(ecc) = IF room = {} THEN [n EXCEPT !.to = "failed"] ELSE Rebuild(g)
  BY DEF Create
<1>2. data \in Nat /\ dirty \in BOOLEAN
  <2>1. IsFiniteSet(Logic)
    BY ConstTypes, FS_Interval DEF Logic
  <2>2. IsFiniteSet(Logic \ oob)
    BY <2>1, FS_Subset
  <2> QED
    BY <2>2, FS_CardinalityType
<1>3. Scanned(ecc) \in States
  BY DEF Scanned, States, StKinds
<1>4. Built \in Maps
  BY BuiltPlaced, ConstTypes
<1> HIDE DEF data, dirty
<1>5. n \in Ni /\ n.st = Scanned(ecc) /\ n.map = Built /\ n.op = "create"
  BY <1>2, <1>3, <1>4, DetachedType DEF Ni, Ops, Detached
<1>6. CASE room = {}
  <2>1. Create(ecc) = [n EXCEPT !.to = "failed"]
    BY <1>1, <1>6
  <2> HIDE DEF n
  <2>2. Create(ecc) \in Ni /\ Create(ecc).to = "failed" /\ Create(ecc).op = "create"
    BY <2>1, <1>5 DEF Ni, Tos
  <2> QED
    BY <2>2 DEF On
<1>7. CASE room # {}
  <2>1. room \in SUBSET (0..Sig)
    BY ConstTypes DEF Good
  <2>2. p \in room
    BY <2>1, <1>7, ConstTypes, MaxIs
  <2>3. p \in Mgmt + 1..Sig - 1
    BY <2>2 DEF Good
  <2>4. p \in Nat /\ Mgmt <= p /\ p <= Sig - 1 /\ Mgmt \in Int /\ Sig \in Nat
    BY <2>3, ConstTypes
  <2> HIDE DEF n, room, p
  <2>5. k \in Ni /\ k.st = Scanned(ecc) /\ k.map = Built /\ k.top = p /\ k.op = "create"
    BY <2>4, <1>5 DEF Ni
  <2> HIDE DEF k
  <2>6. /\ g \in Ni /\ g.cache \in Saved /\ g.cache.wc = g.wc
        /\ g.cache.st = Scanned(ecc) /\ g.cache.map = Built
        /\ g.st = Scanned(ecc) /\ g.map = Built /\ g.top = p /\ g.op = "create"
    BY <2>5, GeneratedFields
  <2> HIDE DEF g
  <2>7. Create(ecc) = Write(j, "rebuild", Mgmt, p)
    BY <1>1, <1>7, <2>6 DEF Rebuild
  <2>8. /\ j \in Ni /\ SameTables(g, j) /\ j.main = 0 /\ j.backup = 0 /\ j.mapBa = p /\ j.op = "create"
    BY <2>4, <2>6 DEF Ni, SameTables
  <2> HIDE DEF j
  <2> DEFINE m == Create(ecc)
  <2>9. "rebuild" \in Tos /\ p \in Int
    BY <2>4 DEF Tos, Writes
  <2>10. /\ m \in Ni /\ SameTables(j, m) /\ m.to = "rebuild" /\ m.at = Mgmt /\ m.limit = p
         /\ m.main = 0 /\ m.backup = 0 /\ m.mapBa = p /\ m.op = "create"
    BY <2>4, <2>7, <2>8, <2>9, WriteFields
  <2> HIDE DEF m
  <2>11. /\ m.cache \in Saved /\ m.cache.wc = m.wc /\ m.cache.st = m.st
         /\ m.cache.map = Built /\ m.map = Built /\ m.top = p
    BY <2>6, <2>8, <2>10 DEF SameTables
  <2>12. Placed(Built, p)
    BY <2>4, BuiltPlaced
  <2>13. Core(m, flash, oob)
    BY <2>4, <2>10, <2>11, <2>12 DEF Core, Bad
  <2>14. Ranges(m)
    BY <2>4, <2>10, <2>11, ConstTypes DEF Ranges, Rest, Writes, Wipes
  <2>15. Held(m, Live(flash, oob)) /\ Marks(m, flash, oob)
    BY <2>4, <2>10 DEF Held, Marks, Rest
  <2> QED
    BY <2>10, <2>11, <2>13, <2>14, <2>15 DEF Ram, m
<1> QED
  BY <1>6, <1>7

(* Attaching keeps the inductive invariant.                                  *)
LEMMA AttachStep ==
  ASSUME IInv, Attach
  PROVE  IInv' /\ ni'.op # "lost"
<1>1. Flash(flash, oob) /\ oob \subseteq Blocks
  BY DEF IInv
<1>2. /\ flash' = flash /\ oob' = oob
      /\ \E ecc \in SUBSET Unreadable :
           ni' = IF Live(flash, oob) = {} THEN Create(ecc) ELSE Load(ecc)
  BY <1>1, TablesLive DEF Attach
<1>3. /\ ni' \in Ni /\ ni'.op \in {"create", "load"}
      /\ On(ni') => Ram(ni', flash, oob)
  BY <1>1, <1>2, CreateStep, LoadStep
<1> QED
  BY <1>1, <1>2, <1>3 DEF IInv

(* A power loss keeps it: at most the block being worked on is torn.         *)
LEMMA PowerLossStep ==
  ASSUME IInv, PowerLoss
  PROVE  IInv'
<1>1. Flash(flash, oob) /\ oob \subseteq Blocks /\ DOMAIN flash = Blocks
  BY DEF IInv, Flash
<1>2. ni' = Detached /\ oob' = oob
  BY DEF PowerLoss
<1>3. \E c : flash' = [b \in Blocks |-> IF b \in {c} THEN Torn ELSE flash[b]]
  <2> DEFINE hit == IF ni.to \in Writes \cup Wipes /\ Usable # {} THEN {Min(Usable)}
                    ELSE IF ni.to = "erase" /\ ni.map[ni.lb] >= 0 THEN {ni.map[ni.lb]} ELSE {}
  <2>1. \E T \in {{}, hit} : flash' = [b \in Blocks |-> IF b \in T THEN Torn ELSE flash[b]]
    BY DEF PowerLoss
  <2>2. \E c : hit \subseteq {c}
    OBVIOUS
  <2> HIDE DEF hit
  <2>3. PICK T \in {{}, hit} : flash' = [b \in Blocks |-> IF b \in T THEN Torn ELSE flash[b]]
    BY <2>1
  <2>4. CASE T = {}
    <3>1. \A b \in Blocks : b # -1
      BY ConstTypes
    <3>2. \A b \in Blocks : (b \in T) <=> (b \in {-1})
      BY <2>4, <3>1
    <3> QED
      BY <2>3, <3>2
  <2>5. CASE T # {}
    <3>1. PICK c : T = {c}
      BY <2>2, <2>5
    <3> QED
      BY <2>3, <3>1
  <2> QED
    BY <2>4, <2>5
<1>4. PICK c : flash' = [b \in Blocks |-> IF b \in {c} THEN Torn ELSE flash[b]]
  BY <1>3
<1>5. DOMAIN flash' = Blocks /\ \A b \in Blocks : flash'[b] = IF b = c THEN Torn ELSE flash[b]
  BY <1>4
<1>6. Flash(flash', oob)
  <2>1. CASE c \in Blocks
    <3>1. Clears(flash, oob, c, flash', oob)
      BY <1>1, <1>5, <2>1, Contents DEF Clears
    <3> QED
      BY <3>1, Cleared
  <2>2. CASE c \notin Blocks
    <3>1. \A b \in Blocks : flash'[b] = flash[b]
      BY <1>5, <2>2
    <3>2. Live(flash', oob) = Live(flash, oob)
      BY <3>1 DEF Live
    <3> QED
      BY <1>1, <1>5, <3>1, <3>2, FlashSame
  <2> QED
    BY <2>1, <2>2
<1> QED
  BY <1>1, <1>2, <1>6, DetachedType DEF IInv, On, Detached

(* It holds initially.                                                       *)
LEMMA InitStep ==
  ASSUME Init
  PROVE  IInv
<1>1. flash = [b \in Blocks |-> Erased] /\ ni = Detached /\ oob \subseteq Blocks
  BY ConstTypes, GeometryAssumption DEF Init, Blocks
<1>2. Live(flash, oob) = {}
  BY <1>1, Contents DEF Live
<1>3. Flash(flash, oob)
  BY <1>1, <1>2 DEF Flash, TablesLoadable, AtMostTwo, BelowBoth, NewestClear, SameAge,
                    NewerKnowsMore
<1> QED
  BY <1>1, <1>3, DetachedType DEF IInv, On, Detached

----------------------------------------------------------------------------
(* What the callers go on with.                                              *)

(* Nothing but the table writers moves the tables.                           *)
LEMMA RestRam ==
  ASSUME NEW n \in Ni, NEW f, NEW o, Ram(n, f, o), n.to \in Rest,
         NEW m \in Ni, NEW g, NEW p, Core(m, g, p), m.to \in Rest, o \subseteq p,
         Live(g, p) = Live(f, o), \A b \in Live(f, o) : g[b] = f[b],
         m.main = n.main, m.backup = n.backup, m.mapBa = n.mapBa, m.cache = n.cache,
         \A d \in Blocks : Bad(n, d, o) => Bad(m, d, p),
         m.main = 0 => m.prot /\ m.mapBa = m.top
  PROVE  Ram(m, g, p)
<1>1. Ranges(n) /\ Held(n, Live(f, o)) /\ Marks(n, f, o)
  BY DEF Ram
<1>2. Ranges(m) /\ Held(m, Live(g, p))
  BY <1>1 DEF Ranges, Held, Rest, Writes, Wipes
<1>3. \A d \in Mgmt..m.main - 1 : m.main # 0 => d \in Blocks /\ AllBad(n, d, f, o)
  <2>1. m.main \in Nat /\ m.mapBa \in Nat /\ m.top \in Nat
    BY DEF Ni
  <2>2. m.main # 0 => m.main < Sig
    BY <1>2, <2>1, ConstTypes DEF Ranges, Core
  <2> QED
    BY <1>1, <2>1, <2>2, ConstTypes DEF Marks, Rest, Blocks
<1>4. \A d \in Blocks : AllBad(n, d, f, o) => AllBad(m, d, g, p)
  BY DEF AllBad, Bad
<1>5. Marks(m, g, p)
  BY <1>3, <1>4 DEF Marks, Rest
<1> QED
  BY <1>2, <1>5 DEF Ram

(* At rest the live tables lie below the spare blocks.                       *)
LEMMA RestBelow ==
  ASSUME NEW n \in Ni, NEW f, NEW o, Ram(n, f, o), n.to \in Rest
  PROVE  \A b \in Live(f, o) : b < n.mapBa
BY DEF Ram, Ranges, Held, Rest, Ni

(* The mapping changes, or spare blocks are given away.                      *)
LEMMA RestMaps ==
  ASSUME NEW n \in Ni, NEW f, NEW o, Ram(n, f, o), n.to \in Rest,
         NEW m \in Ni, m.to \in Rest, m.st = n.st, m.cache = n.cache, m.wc = n.wc,
         m.main = n.main, m.backup = n.backup, m.mapBa = n.mapBa,
         m.mapBa <= m.top, m.top <= n.top, Placed(m.map, m.top),
         m.main = 0 => m.prot /\ m.mapBa = m.top
  PROVE  Ram(m, f, o)
<1> /\ n.top \in Nat /\ n.mapBa \in Nat /\ m.top \in Nat
  BY DEF Ni
<1>1. Core(n, f, o)
  BY DEF Ram
<1>2. \A b \in Live(f, o) : b < n.mapBa /\ b \in Nat
  BY RestBelow, ConstTypes DEF Live
<1>3. \A b \in Live(f, o) : b < m.top
  BY <1>2
<1>4. \A d : Bad(m, d, o) <=> Bad(n, d, o)
  BY DEF Bad
<1>5. Mgmt..m.top \subseteq Mgmt..n.top
  BY ConstTypes
<1>6. Placed(n.cache.map, m.top)
  BY <1>1, <1>5 DEF Core, Placed, Avoids
<1>7. m.top <= Sig - 1
  BY <1>1, ConstTypes DEF Core
<1>8. Core(m, f, o)
  BY <1>1, <1>3, <1>4, <1>5, <1>6, <1>7 DEF Core
<1> QED
  BY <1>4, <1>8, RestRam

(* A mapped block is not among those the tables are in.                      *)
LEMMA MappedAbove ==
  ASSUME NEW n \in Ni, NEW f, NEW o, Flash(f, o), Core(n, f, o), NEW lb \in Logic, n.map[lb] >= 0
  PROVE  /\ n.map[lb] \in Blocks /\ n.map[lb] \notin Mgmt..n.top /\ n.map[lb] # Sig
         /\ n.map[lb] \notin Live(f, o)
<1>1. n.map[lb] \in Blocks
  BY DEF Ni, Maps
<1>2. n.map[lb] \notin Mgmt..n.top /\ n.map[lb] # Sig
  BY DEF Core, Placed, Avoids
<1>3. \A b \in Live(f, o) : b \in Mgmt..n.top
  BY ConstTypes DEF Flash, TablesLoadable, Core, Live, Ni
<1> QED
  BY <1>1, <1>2, <1>3

(* The state of a block that holds no table changes, and more blocks may be  *)
(* marked.                                                                   *)
LEMMA RestNotes ==
  ASSUME NEW n \in Ni, NEW f, NEW o, Ram(n, f, o), n.to \in Rest, DOMAIN f = Blocks,
         NEW b \in Blocks, b \notin Mgmt..n.top, b \notin Live(f, o), NEW s \in {"bad", "remap"},
         NEW p, p = o \/ p = o \cup {b},
         NEW m, m = SetState(n, b, s)
  PROVE  m \in Ni /\ Ram(m, f, p)
<1>1. /\ m \in Ni /\ m.to = n.to /\ m.main = n.main /\ m.backup = n.backup
      /\ m.mapBa = n.mapBa /\ m.top = n.top /\ m.map = n.map /\ m.cache = n.cache
      /\ m.wc = n.wc /\ m.prot = n.prot
      /\ \A d \in Blocks \ {b} : m.st[d] = n.st[d]
      /\ m.st[b] = s
  <2>1. s \in StKinds
    BY DEF StKinds
  <2> HIDE DEF Ni
  <2> QED
    BY <2>1, SetStateFields
<1>2. Live(f, p) = Live(f, o) /\ o \subseteq p
  BY DEF Live
<1>3. Core(n, f, o) /\ n.top \in Nat /\ n.top <= Sig - 1 /\ Ranges(n)
  BY DEF Ram, Core, Ni
<1>4. \A d \in Blocks : Bad(n, d, o) => Bad(m, d, p)
  BY <1>1 DEF Bad
<1>5. \A d \in Blocks \ {b} : Bad(m, d, p) => Bad(n, d, o) \/ d \in p
  BY <1>1 DEF Bad
<1>6. \A d \in (Mgmt..n.top) \cup Live(f, o) : d \in Blocks \ {b}
  BY <1>3, ConstTypes DEF Live, Blocks
<1>7. Grown(n, f, o, m, f, p)
  BY <1>2, <1>4, <1>5, <1>6 DEF Grown
<1>8. Core(m, f, p)
  BY <1>1, <1>3, <1>7, CoreGrows
<1>9. m.main = 0 => m.prot /\ m.mapBa = m.top
  BY <1>1, <1>3 DEF Ranges
<1>10. Ram(m, f, p)
  BY <1>1, <1>2, <1>4, <1>8, <1>9, RestRam
<1> QED
  BY <1>1, <1>10

(* At rest the invariant does not depend on what is to be done next.         *)
LEMMA RestSame ==
  ASSUME NEW n \in Ni, NEW f, NEW o, Ram(n, f, o), n.to \in Rest,
         NEW m \in Ni, m.to \in Rest, SameTables(n, m),
         m.main = n.main, m.backup = n.backup, m.mapBa = n.mapBa,
         m.main = 0 /\ n.prot => m.prot
  PROVE  Ram(m, f, o)
<1>1. Core(n, f, o) /\ Ranges(n) /\ n.top \in Nat
  BY DEF Ram, Ni
<1>2. n.mapBa <= n.top /\ Placed(n.map, n.top) /\ (n.main = 0 => n.prot /\ n.mapBa = n.top)
  BY <1>1 DEF Core, Ranges
<1>3. m.st = n.st /\ m.map = n.map /\ m.cache = n.cache /\ m.wc = n.wc /\ m.top = n.top
  BY DEF SameTables
<1>4. m.top <= n.top
  BY <1>1, <1>3
<1> QED
  BY <1>2, <1>3, <1>4, RestMaps

(* An update is noted by the operation to go on with.                        *)
LEMMA UpdateFields ==
  ASSUME NEW n \in Ni, NEW op \in Ops
  PROVE  LET m == Update(n, op)
         IN  /\ m \in Ni /\ SameTables(n, m) /\ m.to = "done" /\ m.ok /\ m.op = op
             /\ m.main = n.main /\ m.backup = n.backup /\ m.mapBa = n.mapBa
             /\ m.dirty = n.dirty /\ m.prot = n.prot
             /\ m.lb = n.lb /\ m.pb = n.pb /\ m.data = n.data
BY DEF Update, Done, Ni, SameTables, Tos

(* An instance that becomes idle changes nothing else.                       *)
LEMMA IdleFields ==
  ASSUME NEW n \in Ni
  PROVE  LET m == Idle(n)
         IN  /\ m \in Ni /\ SameTables(n, m) /\ m.to = "idle" /\ m.op = "none"
             /\ m.main = n.main /\ m.backup = n.backup /\ m.mapBa = n.mapBa
             /\ m.dirty = n.dirty /\ m.prot = n.prot
             /\ m.lb = n.lb /\ m.pb = n.pb /\ m.data = n.data
BY DEF Idle, Ni, SameTables, Tos, Ops

(* Noting an update at rest keeps the invariant of the instance.             *)
LEMMA UpdateRam ==
  ASSUME NEW n \in Ni, NEW f, NEW o, Ram(n, f, o), n.to \in Rest, NEW op \in Ops
  PROVE  Update(n, op) \in Ni /\ Ram(Update(n, op), f, o)
<1> DEFINE m == Update(n, op)
<1>1. /\ m \in Ni /\ SameTables(n, m) /\ m.to \in Rest /\ m.prot = n.prot
      /\ m.main = n.main /\ m.backup = n.backup /\ m.mapBa = n.mapBa
  BY UpdateFields DEF Rest
<1> HIDE DEF m
<1> QED
  BY <1>1, RestSame DEF m

(* Becoming idle at rest keeps it, too.                                      *)
LEMMA IdleRam ==
  ASSUME NEW n \in Ni, NEW f, NEW o, Ram(n, f, o), n.to \in Rest
  PROVE  Idle(n) \in Ni /\ Ram(Idle(n), f, o)
<1> DEFINE m == Idle(n)
<1>1. /\ m \in Ni /\ SameTables(n, m) /\ m.to \in Rest /\ m.prot = n.prot
      /\ m.main = n.main /\ m.backup = n.backup /\ m.mapBa = n.mapBa
  BY IdleFields DEF Rest
<1> HIDE DEF m
<1> QED
  BY <1>1, RestSame DEF m

(* The topmost spare block is given to a logic block.                        *)
LEMMA MappedRam ==
  ASSUME NEW n \in Ni, NEW f, NEW o, Ram(n, f, o), n.to \in Rest, NEW lb \in Logic,
         CanMap(n), SpareFor(n) = n.top
  PROVE  LET m == Mapped(n, lb)
         IN  /\ m \in Ni /\ Ram(m, f, o) /\ m.to = n.to /\ m.st = n.st /\ m.dirty
             /\ m.top = n.top - 1 /\ m.main = n.main /\ m.mapBa = n.mapBa
             /\ m.map = [n.map EXCEPT ![lb] = n.top]
             /\ m.op = n.op /\ m.lb = n.lb /\ m.pb = n.pb /\ m.data = n.data
<1> DEFINE p == n.top - 1
           map == [n.map EXCEPT ![lb] = n.top]
           m == Mapped(n, lb)
<1>1. /\ Core(n, f, o) /\ Ranges(n) /\ Mgmt <= n.mapBa /\ n.mapBa <= n.top
      /\ n.top <= Sig - 1 /\ Placed(n.map, n.top)
      /\ n.top \in Nat /\ n.mapBa \in Nat /\ n.map \in Maps /\ n.main \in Nat
  BY DEF Ram, Core, Ni
<1>2. n.mapBa < n.top
  BY <1>1 DEF CanMap, NoRoom
<1>3. p \in Nat /\ n.mapBa <= p /\ n.top \in Blocks /\ p <= n.top /\ n.top > p
  BY <1>1, <1>2, ConstTypes DEF Blocks
<1>4. map \in Maps /\ map[lb] = n.top /\ \A l \in Logic \ {lb} : map[l] = n.map[l]
  BY <1>1, <1>3 DEF Maps
<1>5. \A l \in Logic : n.map[l] # n.top
  BY <1>1, <1>2, ConstTypes DEF Placed, Avoids
<1>6. Placed(map, p)
  <2>1. OneToOne(map)
    BY <1>1, <1>4, <1>5 DEF OneToOne, Placed
  <2>2. Avoids(map, Mgmt..p) /\ Avoids(map, {Sig})
    BY <1>1, <1>3, <1>4, ConstTypes DEF Placed, Avoids
  <2> QED
    BY <2>1, <2>2 DEF Placed
<1>7. m = [n EXCEPT !.map = map, !.top = p, !.dirty = TRUE]
  BY DEF Mapped, Lowered, Ni
<1> HIDE DEF m, p, map
<1>8. /\ m \in Ni /\ m.to = n.to /\ m.st = n.st /\ m.dirty /\ m.cache = n.cache /\ m.wc = n.wc
      /\ m.top = p /\ m.main = n.main /\ m.backup = n.backup /\ m.mapBa = n.mapBa
      /\ m.map = map /\ m.op = n.op /\ m.lb = n.lb /\ m.pb = n.pb /\ m.data = n.data
  BY <1>3, <1>4, <1>7 DEF Ni
<1>9. m.main # 0
  BY <1>1, <1>2, <1>8 DEF Ranges
<1>10. Ram(m, f, o)
  BY <1>3, <1>6, <1>8, <1>9, RestMaps
<1> QED
  BY <1>8, <1>10 DEF m, p, map

(* A logic block is given up.                                                *)
LEMMA UnusableRam ==
  ASSUME NEW n \in Ni, NEW f, NEW o, Flash(f, o), Ram(n, f, o), n.to \in Rest,
         n.pb \in Blocks, n.pb \notin Mgmt..n.top, n.pb \notin Live(f, o)
  PROVE  /\ Unusable(n) \in Ni /\ Ram(Unusable(n), f, o)
         /\ Unusable(n).op = "none" /\ Unusable(n).to = "done"
<1> DEFINE map == [n.map EXCEPT ![n.lb] = -1]
           m == [n EXCEPT !.map = map]
           s == SetState(m, n.pb, "bad")
           k == IF n.st[n.pb] = "remap" THEN m ELSE s
<1>1. Core(n, f, o) /\ Ranges(n) /\ n.map \in Maps /\ n.lb \in Logic /\ n.top \in Nat
      /\ n.mapBa <= n.top /\ Placed(n.map, n.top) /\ DOMAIN f = Blocks
  BY DEF Ram, Core, Ni, Flash
<1>2. map \in Maps /\ map[n.lb] = -1 /\ \A l \in Logic \ {n.lb} : map[l] = n.map[l]
  BY <1>1 DEF Maps
<1>3. Placed(map, n.top)
  BY <1>1, <1>2, ConstTypes DEF Placed, OneToOne, Avoids
<1>4. Unusable(n) = Update(k, "none")
  BY DEF Unusable
<1> HIDE DEF map
<1>5. /\ m \in Ni /\ m.to = n.to /\ m.st = n.st /\ m.cache = n.cache /\ m.wc = n.wc
      /\ m.top = n.top /\ m.main = n.main /\ m.backup = n.backup /\ m.mapBa = n.mapBa
      /\ m.map = map /\ m.prot = n.prot
  BY <1>2 DEF Ni
<1> HIDE DEF m
<1>6. m.main = 0 => m.prot /\ m.mapBa = m.top
  BY <1>1, <1>5 DEF Ranges
<1>7. m.top <= n.top /\ m.mapBa <= m.top
  BY <1>1, <1>5
<1>8. Ram(m, f, o)
  BY <1>3, <1>5, <1>6, <1>7, RestMaps
<1>9. s \in Ni /\ Ram(s, f, o) /\ s.to \in Rest
  <2>1. n.pb \notin Mgmt..m.top /\ m.to \in Rest
    BY <1>5
  <2>2. s \in Ni /\ Ram(s, f, o)
    BY <1>1, <1>5, <1>8, <2>1, RestNotes
  <2>3. s.to = m.to
    BY <1>5, SetStateFields DEF StKinds
  <2> QED
    BY <2>1, <2>2, <2>3
<1> HIDE DEF s
<1>10. k \in Ni /\ Ram(k, f, o) /\ k.to \in Rest
  BY <1>5, <1>8, <1>9
<1> HIDE DEF k
<1>11. "none" \in Ops
  BY DEF Ops
<1> QED
  BY <1>4, <1>10, <1>11, UpdateRam, UpdateFields

(* The spare blocks are given up: the top falls to the tables.               *)
LEMMA TopFalls ==
  ASSUME NEW n \in Ni, NEW f, NEW o, Ram(n, f, o), n.to \in Rest
  PROVE  LET m == [n EXCEPT !.top = n.mapBa]
         IN  /\ m \in Ni /\ Ram(m, f, o) /\ m.to = n.to /\ m.map = n.map
             /\ m.lb = n.lb /\ m.pb = n.pb /\ m.top = n.mapBa /\ m.top <= n.top
<1> DEFINE m == [n EXCEPT !.top = n.mapBa]
<1>1. /\ Core(n, f, o) /\ Ranges(n) /\ n.mapBa \in Nat /\ n.top \in Nat
      /\ n.mapBa <= n.top /\ Placed(n.map, n.top)
  BY DEF Ram, Core, Ni
<1>2. /\ m \in Ni /\ m.to = n.to /\ m.st = n.st /\ m.cache = n.cache /\ m.wc = n.wc
      /\ m.top = n.mapBa /\ m.main = n.main /\ m.backup = n.backup /\ m.mapBa = n.mapBa
      /\ m.map = n.map /\ m.prot = n.prot /\ m.lb = n.lb /\ m.pb = n.pb
  BY DEF Ni
<1> HIDE DEF m
<1>3. Placed(m.map, m.top)
  <2>1. Mgmt..m.top \subseteq Mgmt..n.top
    BY <1>1, <1>2, ConstTypes
  <2> QED
    BY <1>1, <1>2, <2>1 DEF Placed, Avoids
<1>4. m.mapBa <= m.top /\ m.top <= n.top /\ (m.main = 0 => m.prot /\ m.mapBa = m.top)
  BY <1>1, <1>2 DEF Ranges
<1>5. Ram(m, f, o)
  BY <1>2, <1>3, <1>4, RestMaps
<1> QED
  BY <1>2, <1>4, <1>5 DEF m

(* The tables are updated: what is known is in the cache, newer than both.   *)
LEMMA UpdateOnceRam ==
  ASSUME NEW n \in Ni, NEW f, NEW o, Flash(f, o), Ram(n, f, o), n.to \in Rest, n.dirty,
         n.main # 0
  PROVE  LET m == UpdateOnce(n)
         IN  /\ m \in Ni /\ Ram(m, f, o) /\ m.map = n.map /\ m.cache.map = n.map
             /\ m.op = n.op /\ m.lb = n.lb /\ m.pb = n.pb
             /\ m.to = "backup" \/ (m.to = "main" /\ m.backup = 0)
<1> DEFINE g == Generated(n)
           m == UpdateOnce(n)
           L == Live(f, o)
<1>1. /\ Core(n, f, o) /\ Ranges(n) /\ Held(n, L) /\ Marks(n, f, o)
      /\ n.top \in Nat /\ n.mapBa \in Nat /\ n.main \in Nat /\ n.backup \in Nat /\ n.wc \in Nat
      /\ n.mapBa <= n.top /\ n.top <= Sig - 1 /\ Placed(n.map, n.top) /\ Mgmt <= n.mapBa
  BY DEF Ram, Core, Ni
<1>2. g.wc = n.wc + 1
  BY DEF Generated, Ni
<1>3. /\ g \in Ni /\ g.cache \in Saved
      /\ g.cache.wc = g.wc /\ g.cache.st = n.st /\ g.cache.map = n.map
      /\ g.st = n.st /\ g.map = n.map /\ g.top = n.top
      /\ g.main = n.main /\ g.backup = n.backup /\ g.mapBa = n.mapBa
      /\ g.op = n.op /\ g.lb = n.lb /\ g.pb = n.pb
  BY GeneratedFields
<1> HIDE DEF g
<1>4. {"main", "backup"} \subseteq Tos
  BY DEF Tos, Writes
<1>5. /\ m \in Ni /\ SameTables(g, m) /\ m.main = n.main /\ m.backup = n.backup
      /\ m.mapBa = n.mapBa /\ m.op = n.op /\ m.lb = n.lb /\ m.pb = n.pb
      /\ \/ /\ m.to = "main" /\ n.backup = 0 /\ m.at = n.main /\ m.limit = n.top
         \/ /\ m.to = "backup" /\ n.backup # 0 /\ m.at = n.backup /\ m.limit = n.top
  <2>1. n.main \in Int /\ n.backup \in Int /\ n.top \in Int
    BY <1>1
  <2>2. CASE n.backup = 0
    <3>1. m = Write(g, "main", n.main, n.top)
      BY <2>2, <1>3 DEF UpdateOnce, WriteMain, g
    <3> HIDE DEF m
    <3>2. /\ m \in Ni /\ SameTables(g, m) /\ m.to = "main" /\ m.at = n.main /\ m.limit = n.top
          /\ m.main = g.main /\ m.backup = g.backup /\ m.mapBa = g.mapBa
          /\ m.op = g.op /\ m.lb = g.lb /\ m.pb = g.pb
      BY <3>1, <1>3, <1>4, <2>1, WriteFields
    <3> QED
      BY <3>2, <2>2, <1>3
  <2>3. CASE n.backup # 0
    <3>1. m = Write(g, "backup", n.backup, n.top)
      BY <2>3, <1>3 DEF UpdateOnce, g
    <3> HIDE DEF m
    <3>2. /\ m \in Ni /\ SameTables(g, m) /\ m.to = "backup" /\ m.at = n.backup /\ m.limit = n.top
          /\ m.main = g.main /\ m.backup = g.backup /\ m.mapBa = g.mapBa
          /\ m.op = g.op /\ m.lb = g.lb /\ m.pb = g.pb
      BY <3>1, <1>3, <1>4, <2>1, WriteFields
    <3> QED
      BY <3>2, <2>3, <1>3
  <2> QED
    BY <2>2, <2>3
<1> HIDE DEF m
<1>6. /\ m.cache \in Saved /\ m.cache.wc = m.wc /\ m.cache.st = n.st /\ m.cache.map = n.map
      /\ m.st = n.st /\ m.map = n.map /\ m.top = n.top /\ m.wc = n.wc + 1
  BY <1>2, <1>3, <1>5 DEF SameTables
<1>7. \A d : (Bad(m, d, o) <=> Bad(n, d, o)) /\ (Bad(m.cache, d, o) <=> Bad(n, d, o))
  BY <1>6 DEF Bad
<1>8. \A b \in L : f[b].wc <= n.wc
  BY <1>1 DEF Core
<1>9. ASSUME NEW b \in L
      PROVE  f[b].wc <= m.wc /\ f[b].wc # m.wc
  <2>1. f[b].wc <= n.wc /\ m.wc = n.wc + 1
    BY <1>6, <1>8
  <2>2. f[b].wc \in Nat
    BY DEF Flash, TablesLoadable, Saved
  <2> QED
    BY <2>1, <2>2, <1>1
<1>10. \A b \in L, d \in Blocks : Bad(f[b], d, o) => Bad(n, d, o)
  BY <1>1 DEF Core
<1>11. \A b \in L : b < n.top /\ ~Bad(n, b, o)
  BY <1>1 DEF Core
<1>12. Core(m, f, o)
  BY <1>1, <1>5, <1>6, <1>7, <1>9, <1>10, <1>11 DEF Core
<1>13. Ranges(m)
  BY <1>1, <1>5, <1>6, ConstTypes DEF Ranges, Rest, Writes, Wipes
<1>14. Held(m, L)
  BY <1>1, <1>5 DEF Held, Rest
<1>15. \A d \in Mgmt..n.main - 1 : AllBad(m, d, f, o)
  BY <1>1, <1>7 DEF Marks, Rest, AllBad
<1>16. Marks(m, f, o)
  BY <1>1, <1>5, <1>15 DEF Marks
<1> QED
  BY <1>5, <1>6, <1>12, <1>13, <1>14, <1>16 DEF Ram, m

\* The block that could not be replaced is still the logic block's own
LostBlock(n) == n.op = "lost" => n.pb = n.map[n.lb] /\ n.pb >= 0 /\ n.to # "idle"

(* What follows the writers keeps the inductive invariant.                   *)
LEMMA CompletedStep ==
  ASSUME IInv, LostBlock(ni), TopSpareGood, Completed
  PROVE  IInv' /\ LostBlock(ni')
<1> DEFINE m == ni'
<1>1. /\ ni \in Ni /\ Flash(flash, oob) /\ oob \subseteq Blocks /\ flash' = flash /\ oob' = oob
      /\ ni.to = "done" /\ ni.to \in Rest /\ On(ni) /\ Ram(ni, flash, oob)
  BY DEF Completed, IInv, On, Rest
<1>2. SUFFICES m \in Ni /\ (On(m) => Ram(m, flash, oob)) /\ LostBlock(m)
  BY <1>1 DEF IInv
<1>3. ni.top \in Nat /\ ni.lb \in Logic /\ Core(ni, flash, oob) /\ Ranges(ni)
      /\ ni.op \in Ops
  BY <1>1 DEF Ni, Ram
<1>4. \A op \in {"none", "created", "full"} : op \in Ops /\ op # "lost"
  BY DEF Ops
<1>5. CASE UpdateAgain(ni)
  <2>1. m = UpdateOnce(ni)
    BY <1>5 DEF Completed
  <2>2. ni.dirty /\ ni.main # 0
    BY <1>1, <1>3, <1>5 DEF UpdateAgain, Ranges, Ni
  <2> HIDE DEF m
  <2>3. m \in Ni /\ Ram(m, flash, oob) /\ m.map = ni.map /\ m.op = ni.op /\ m.lb = ni.lb
        /\ m.pb = ni.pb /\ m.to # "idle"
    BY <1>1, <2>1, <2>2, UpdateOnceRam
  <2> QED
    BY <2>3 DEF LostBlock
<1>6. CASE ~UpdateAgain(ni) /\ ni.op = "load"
  <2> DEFINE prot == (ni.mapBa = ni.top \/ ~ni.ok)
             k == [ni EXCEPT !.prot = prot]
  <2>1. m = Idle(k)
    BY <1>6 DEF Completed
  <2>2. prot \in BOOLEAN /\ (ni.main = 0 => prot)
    BY <1>1, <1>3 DEF Ranges
  <2> HIDE DEF prot, m
  <2>3. /\ k \in Ni /\ SameTables(ni, k) /\ k.to = ni.to /\ k.prot = prot
        /\ k.main = ni.main /\ k.backup = ni.backup /\ k.mapBa = ni.mapBa
    BY <1>1, <2>2 DEF Ni, SameTables
  <2> HIDE DEF k
  <2>4. Ram(k, flash, oob)
    BY <1>1, <2>2, <2>3, RestSame
  <2>5. m \in Ni /\ Ram(m, flash, oob) /\ m.op = "none"
    BY <1>1, <2>1, <2>3, <2>4, IdleRam, IdleFields
  <2> QED
    BY <2>5 DEF LostBlock
<1>7. CASE ~UpdateAgain(ni) /\ ni.op \in {"create", "created"} /\ ~ni.ok
  <2>1. m = [ni EXCEPT !.to = "failed"]
    BY <1>7 DEF Completed
  <2> HIDE DEF m
  <2>2. m \in Ni /\ m.to = "failed" /\ m.op = ni.op
    BY <1>1, <2>1 DEF Ni, Tos
  <2> QED
    BY <1>7, <2>2 DEF On, LostBlock
<1>8. CASE ~UpdateAgain(ni) /\ ni.op = "create" /\ ni.ok
  <2>1. m = MapMissing(ni)
    BY <1>8 DEF Completed
  <2>2. CASE ni.data < Mgmt /\ CanMap(ni)
    <3> DEFINE k == Mapped(ni, ni.data)
    <3>1. m = [k EXCEPT !.data = ni.data + 1]
      BY <2>1, <2>2 DEF MapMissing
    <3>2. ni.data \in Logic /\ ni.data + 1 \in Nat
      BY <1>1, <2>2, ConstTypes DEF Ni, Logic
    <3>3. SpareFor(ni) = ni.top
      BY <1>1, <1>8, <2>2 DEF TopSpareGood, Mapping
    <3>4. k \in Ni /\ Ram(k, flash, oob) /\ k.to = ni.to /\ k.op = ni.op
      BY <1>1, <2>2, <3>2, <3>3, MappedRam
    <3> HIDE DEF k, m
    <3>5. /\ m \in Ni /\ SameTables(k, m) /\ m.to = k.to /\ m.prot = k.prot
          /\ m.main = k.main /\ m.backup = k.backup /\ m.mapBa = k.mapBa /\ m.op = k.op
      BY <3>1, <3>2, <3>4 DEF Ni, SameTables
    <3>6. Ram(m, flash, oob)
      BY <1>1, <3>4, <3>5, RestSame
    <3> QED
      BY <1>8, <3>4, <3>5, <3>6 DEF LostBlock
  <2>3. CASE ~(ni.data < Mgmt /\ CanMap(ni))
    <3> DEFINE op == IF ni.data = Mgmt \/ NoRoom(ni) THEN "created" ELSE "full"
    <3>1. m = Update(ni, op)
      BY <2>1, <2>3 DEF MapMissing
    <3>2. op \in Ops /\ op # "lost"
      BY <1>4
    <3> HIDE DEF op, m
    <3>3. m \in Ni /\ Ram(m, flash, oob) /\ m.op = op
      BY <1>1, <3>1, <3>2, UpdateRam, UpdateFields
    <3> QED
      BY <3>2, <3>3 DEF LostBlock
  <2> QED
    BY <2>2, <2>3
<1>9. CASE ~UpdateAgain(ni) /\ ((ni.op = "created" /\ ni.ok) \/ ni.op = "none")
  <2>1. m = Idle(ni)
    BY <1>9 DEF Completed
  <2> HIDE DEF m
  <2>2. m \in Ni /\ Ram(m, flash, oob) /\ m.op = "none"
    BY <1>1, <2>1, IdleRam, IdleFields
  <2> QED
    BY <2>2 DEF LostBlock
<1>10. CASE ~UpdateAgain(ni) /\ ni.op = "erase"
  <2>1. m = [ni EXCEPT !.to = "erase"]
    BY <1>10 DEF Completed
  <2> HIDE DEF m
  <2>2. /\ m \in Ni /\ SameTables(ni, m) /\ m.to = "erase" /\ m.to \in Rest /\ m.prot = ni.prot
        /\ m.main = ni.main /\ m.backup = ni.backup /\ m.mapBa = ni.mapBa /\ m.op = ni.op
    BY <1>1, <2>1 DEF Ni, SameTables, Tos, Rest
  <2>3. Ram(m, flash, oob)
    BY <1>1, <2>2, RestSame
  <2> QED
    BY <1>10, <2>2, <2>3 DEF LostBlock
<1>11. CASE ~UpdateAgain(ni) /\ ni.op \in {"lost", "full"}
  <2> DEFINE k == [ni EXCEPT !.top = ni.mapBa]
  <2>1. /\ k \in Ni /\ Ram(k, flash, oob) /\ k.to = ni.to /\ k.map = ni.map
        /\ k.lb = ni.lb /\ k.pb = ni.pb /\ k.top <= ni.top
    BY <1>1, TopFalls
  <2>2. CASE ni.op = "full"
    <3>1. m = Idle(k)
      BY <1>11, <2>2 DEF Completed
    <3> HIDE DEF m, k
    <3>2. m \in Ni /\ Ram(m, flash, oob) /\ m.op = "none"
      BY <1>1, <2>1, <3>1, IdleRam, IdleFields
    <3> QED
      BY <3>2 DEF LostBlock
  <2>3. CASE ni.op = "lost"
    <3>1. m = Unusable(k)
      BY <1>11, <2>3 DEF Completed
    <3> HIDE DEF m, k
    <3>2. ni.pb = ni.map[ni.lb] /\ ni.map[ni.lb] >= 0
      BY <2>3 DEF LostBlock
    <3>3. k.pb \in Blocks /\ k.pb \notin Mgmt..ni.top /\ k.pb \notin Live(flash, oob)
      BY <1>1, <1>3, <2>1, <3>2, MappedAbove
    <3>4. k.pb \notin Mgmt..k.top
      <4>1. k.top \in Nat /\ ni.top \in Nat /\ k.top <= ni.top
        BY <1>3, <2>1 DEF Ni
      <4> QED
        BY <3>3, <4>1, ConstTypes
    <3>5. m \in Ni /\ Ram(m, flash, oob) /\ m.op = "none"
      BY <1>1, <2>1, <3>1, <3>3, <3>4, UnusableRam
    <3> QED
      BY <3>5 DEF LostBlock
  <2> QED
    BY <1>11, <2>2, <2>3
<1> QED
  BY <1>3, <1>5, <1>6, <1>7, <1>8, <1>9, <1>10, <1>11 DEF Ops

----------------------------------------------------------------------------
(* The operations of the layer above.                                        *)

(* A logic block whose physical block is unfit gets a spare one, or none.    *)
LEMMA RemapRam ==
  ASSUME NEW n \in Ni, NEW f, NEW o, Flash(f, o), Ram(n, f, o), n.to \in Rest,
         n.pb = n.map[n.lb], n.pb >= 0, CanMap(n) => SpareFor(n) = n.top
  PROVE  Remap(n) \in Ni /\ Ram(Remap(n), f, o) /\ LostBlock(Remap(n)) /\ Remap(n).to = "done"
<1> DEFINE m == Remap(n)
<1>1. /\ Core(n, f, o) /\ n.lb \in Logic /\ n.top \in Nat /\ DOMAIN f = Blocks
      /\ {"erase", "lost", "none"} \subseteq Ops
  BY DEF Ram, Ni, Flash, Ops
<1>2. n.pb \in Blocks /\ n.pb \notin Mgmt..n.top /\ n.pb \notin Live(f, o)
  BY <1>1, MappedAbove
<1>3. CASE CanMap(n)
  <2> DEFINE k == Mapped(n, n.lb)
             s == SetState(k, n.pb, "bad")
             j == IF n.st[n.pb] = "remap" THEN k ELSE s
  <2>1. k \in Ni /\ Ram(k, f, o) /\ k.to \in Rest /\ k.top = n.top - 1
    BY <1>1, <1>3, MappedRam
  <2>2. m = Update(j, "erase")
    BY <1>3 DEF Remap
  <2> HIDE DEF k
  <2>3. n.pb \notin Mgmt..k.top
    BY <1>1, <1>2, <2>1, ConstTypes
  <2>4. s \in Ni /\ Ram(s, f, o)
    BY <1>1, <1>2, <2>1, <2>3, RestNotes
  <2>5. s.to = k.to
    BY <1>2, <2>1, SetStateFields DEF StKinds
  <2> HIDE DEF s
  <2>6. j \in Ni /\ Ram(j, f, o) /\ j.to \in Rest
    BY <2>1, <2>4, <2>5
  <2> HIDE DEF j, m
  <2>7. m \in Ni /\ Ram(m, f, o) /\ m.op = "erase" /\ m.to = "done"
    BY <1>1, <2>2, <2>6, UpdateRam, UpdateFields
  <2> QED
    BY <2>7 DEF LostBlock, m
<1>4. CASE ~CanMap(n) /\ NoRoom(n)
  <2>1. m = Unusable(n)
    BY <1>4 DEF Remap
  <2> HIDE DEF m
  <2>2. m \in Ni /\ Ram(m, f, o) /\ m.op = "none" /\ m.to = "done"
    BY <1>2, <2>1, UnusableRam
  <2> QED
    BY <2>2 DEF LostBlock, m
<1>5. CASE ~CanMap(n) /\ ~NoRoom(n)
  <2>1. m = Update(n, "lost")
    BY <1>5 DEF Remap
  <2> HIDE DEF m
  <2>2. m \in Ni /\ Ram(m, f, o)
    BY <1>1, <2>1, UpdateRam
  <2>3. m.map = n.map /\ m.lb = n.lb /\ m.pb = n.pb /\ m.to = "done"
    BY <1>1, <2>1, UpdateFields DEF SameTables
  <2> QED
    BY <2>2, <2>3 DEF LostBlock, m
<1> QED
  BY <1>3, <1>4, <1>5

(* Whether and where a spare block is found depends on their states only.    *)
LEMMA SpareSame ==
  ASSUME NEW n, NEW m, m.mapBa = n.mapBa, m.top = n.top,
         \A d \in n.mapBa + 1..n.top : m.st[d] = n.st[d]
  PROVE  (CanMap(m) <=> CanMap(n)) /\ SpareFor(m) = SpareFor(n)
<1>1. Good(m, n.mapBa + 1..n.top) = Good(n, n.mapBa + 1..n.top)
  BY DEF Good
<1> QED
  BY <1>1 DEF CanMap, SpareFor, NoRoom

(* An operation on flash that leaves no table in a block which held none.    *)
LEMMA NotATable ==
  ASSUME NEW n \in Ni, NEW f, NEW o, Ram(n, f, o), n.to \in Rest,
         NEW c, NEW g, Clears(f, o, c, g, o), c \notin Live(f, o)
  PROVE  Flash(g, o) /\ Live(g, o) = Live(f, o) /\ Ram(n, g, o)
<1>1. DOMAIN g = Blocks
  BY DEF Clears
<1>3. /\ Live(g, o) = Live(f, o) \ {c} /\ Flash(g, o)
      /\ \A b \in Live(g, o) : g[b] = f[b]
  BY Cleared
<1>4. Live(g, o) = Live(f, o)
  BY <1>3
<1>5. Grown(n, f, o, n, g, o)
  BY <1>1, <1>3 DEF Grown
<1>6. Core(n, f, o) /\ Ranges(n) /\ n.top \in Nat
  BY DEF Ram, Ni
<1>7. Core(n, g, o)
  BY <1>5, <1>6, CoreGrows
<1>8. n.main = 0 => n.prot /\ n.mapBa = n.top
  BY <1>6 DEF Ranges
<1>9. Ram(n, g, o)
  BY <1>3, <1>4, <1>7, <1>8, RestRam
<1> QED
  BY <1>3, <1>4, <1>9

(* Erasing a block, or remapping it, keeps the inductive invariant.          *)
LEMMA EraseBlockStep ==
  ASSUME IInv, TopSpareGood, EraseBlock
  PROVE  IInv' /\ LostBlock(ni')
<1> DEFINE pb == ni.map[ni.lb]
           n == [ni EXCEPT !.pb = pb]
           k == SetState(n, pb, "bad")
           m == ni'
<1>1. /\ ni \in Ni /\ Flash(flash, oob) /\ oob \subseteq Blocks /\ DOMAIN flash = Blocks
      /\ ni.to = "erase" /\ ni.to \in Rest /\ On(ni) /\ Ram(ni, flash, oob)
      /\ ni.lb \in Logic /\ ni.top \in Nat /\ ni.mapBa \in Nat
  BY DEF EraseBlock, IInv, On, Rest, Flash, Ni
<1>2. Core(ni, flash, oob) /\ Mgmt <= ni.mapBa
  BY <1>1 DEF Ram, Core
<1>3. CanMap(ni) => SpareFor(ni) = ni.top
  BY <1>1 DEF TopSpareGood, Mapping
<1>4. CASE pb < 0 /\ ni' = Idle(ni) /\ UNCHANGED <<flash, oob>>
  <2>1. Idle(ni) \in Ni /\ Ram(Idle(ni), flash, oob)
    BY <1>1, IdleRam
  <2>2. Idle(ni).op = "none"
    BY <1>1, IdleFields
  <2> QED
    BY <1>1, <1>4, <2>1, <2>2 DEF IInv, LostBlock
<1>5. ASSUME pb >= 0
      PROVE  /\ pb \in Blocks /\ pb \notin Mgmt..ni.top /\ pb \notin Live(flash, oob)
             /\ n \in Ni /\ n.to = "erase" /\ n.pb = n.map[n.lb] /\ n.pb = pb /\ n.pb >= 0
             /\ n.mapBa = ni.mapBa /\ n.top = ni.top /\ n.st = ni.st
             /\ Ram(n, flash, oob)
  <2>1. pb \in Blocks /\ pb \notin Mgmt..ni.top /\ pb \notin Live(flash, oob)
    BY <1>1, <1>2, <1>5, MappedAbove
  <2>2. pb \in Int
    BY <2>1, ConstTypes
  <2>3. /\ n \in Ni /\ n.to = "erase" /\ SameTables(ni, n) /\ n.prot = ni.prot
        /\ n.main = ni.main /\ n.backup = ni.backup /\ n.mapBa = ni.mapBa
        /\ n.pb = n.map[n.lb] /\ n.pb = pb
    BY <1>1, <2>2 DEF Ni, SameTables
  <2> HIDE DEF n, pb
  <2>4. n.to \in Rest
    BY <2>3 DEF Rest
  <2>5. Ram(n, flash, oob)
    BY <1>1, <2>3, <2>4, RestSame
  <2> QED
    BY <1>5, <2>1, <2>3, <2>5 DEF SameTables
<1>6. ASSUME pb >= 0, NEW p, p = oob \/ p = oob \cup {pb}
      PROVE  /\ k \in Ni /\ Ram(k, flash, p) /\ k.to \in Rest
             /\ k.pb = k.map[k.lb] /\ k.pb >= 0
             /\ (CanMap(k) => SpareFor(k) = k.top)
  <2> HIDE DEF pb, n
  <2>1. /\ pb \in Blocks /\ pb \notin Mgmt..n.top /\ pb \notin Live(flash, oob)
        /\ n \in Ni /\ n.to \in Rest /\ n.pb = n.map[n.lb] /\ n.pb >= 0
        /\ n.mapBa = ni.mapBa /\ n.top = ni.top /\ n.st = ni.st
        /\ Ram(n, flash, oob)
    BY <1>5, <1>6 DEF Rest, pb, n
  <2>2. k \in Ni /\ Ram(k, flash, p)
    BY <1>1, <1>6, <2>1, RestNotes
  <2>3. /\ k.to = n.to /\ k.map = n.map /\ k.lb = n.lb /\ k.pb = n.pb
        /\ k.mapBa = n.mapBa /\ k.top = n.top
        /\ \A d \in Blocks \ {pb} : k.st[d] = n.st[d]
    <3>1. "bad" \in StKinds
      BY DEF StKinds
    <3> QED
      BY <2>1, <3>1, SetStateFields
  <2>4. \A d \in ni.mapBa + 1..ni.top : d \in Blocks \ {pb}
    <3>1. ni.top <= Sig - 1
      BY <1>2 DEF Core
    <3> QED
      BY <1>1, <1>2, <2>1, <3>1, ConstTypes DEF Blocks
  <2> HIDE DEF k
  <2>5. (CanMap(k) <=> CanMap(ni)) /\ SpareFor(k) = SpareFor(ni)
    BY <2>1, <2>3, <2>4, SpareSame
  <2> QED
    BY <1>3, <2>1, <2>2, <2>3, <2>5
<1>7. CASE /\ pb >= 0 /\ UNCHANGED <<flash, oob>>
           /\ ni' = Remap(IF pb \in oob /\ ni.st[pb] = "good" THEN k ELSE n)
  <2> DEFINE j == IF pb \in oob /\ ni.st[pb] = "good" THEN k ELSE n
  <2>1. (CanMap(n) <=> CanMap(ni)) /\ SpareFor(n) = SpareFor(ni)
    BY <1>5, <1>7, SpareSame
  <2>2. /\ j \in Ni /\ Ram(j, flash, oob) /\ j.to \in Rest
        /\ j.pb = j.map[j.lb] /\ j.pb >= 0 /\ (CanMap(j) => SpareFor(j) = j.top)
    <3>1. CASE j = k
      <4> HIDE DEF k, j
      <4> QED
        BY <1>6, <1>7, <3>1
    <3>2. CASE j = n
      <4> HIDE DEF n, j
      <4> QED
        BY <1>3, <1>5, <1>7, <2>1, <3>2 DEF Rest
    <3> QED
      BY <3>1, <3>2
  <2>3. ni' = Remap(j)
    BY <1>7
  <2> HIDE DEF j
  <2>4. Remap(j) \in Ni /\ Ram(Remap(j), flash, oob) /\ LostBlock(Remap(j))
    BY <1>1, <2>2, RemapRam
  <2> QED
    BY <1>1, <1>7, <2>3, <2>4 DEF IInv
<1>8. CASE /\ pb >= 0 /\ flash' = [flash EXCEPT ![pb] = Erased] /\ oob' = oob
           /\ ni' = Idle(ni)
  <2>1. pb \in Blocks /\ pb \notin Live(flash, oob)
    BY <1>5, <1>8
  <2> HIDE DEF pb
  <2>2. Clears(flash, oob, pb, flash', oob)
    BY <1>1, <1>8, <2>1, Contents DEF Clears
  <2>3. Flash(flash', oob) /\ Ram(ni, flash', oob)
    BY <1>1, <2>1, <2>2, NotATable
  <2>4. Idle(ni) \in Ni /\ Ram(Idle(ni), flash', oob)
    BY <1>1, <2>3, IdleRam
  <2>5. Idle(ni).op = "none"
    BY <1>1, IdleFields
  <2> QED
    BY <1>1, <1>8, <2>3, <2>4, <2>5 DEF IInv, LostBlock
<1>9. CASE /\ pb >= 0 /\ flash' = [flash EXCEPT ![pb] = Torn] /\ oob' = oob \cup {pb}
           /\ ni' = Remap(k)
  <2>1. pb \in Blocks /\ pb \notin Live(flash, oob)
    BY <1>5, <1>9
  <2>2. /\ k \in Ni /\ Ram(k, flash, oob') /\ k.to \in Rest
        /\ k.pb = k.map[k.lb] /\ k.pb >= 0 /\ (CanMap(k) => SpareFor(k) = k.top)
    BY <1>6, <1>9
  <2> HIDE DEF pb, k
  <2>3. Live(flash, oob') = Live(flash, oob)
    BY <1>9, <2>1 DEF Live
  <2>4. Flash(flash, oob')
    BY <1>1, <1>9, <2>3, FlashGrows
  <2>5. Clears(flash, oob', pb, flash', oob')
    BY <1>1, <1>9, <2>1, <2>4, Contents DEF Clears
  <2>6. Flash(flash', oob') /\ Ram(k, flash', oob')
    BY <2>1, <2>2, <2>3, <2>5, NotATable
  <2>7. Remap(k) \in Ni /\ Ram(Remap(k), flash', oob') /\ LostBlock(Remap(k))
    BY <2>2, <2>6, RemapRam
  <2> QED
    BY <1>1, <1>9, <2>1, <2>6, <2>7 DEF IInv
<1> QED
  BY <1>4, <1>7, <1>8, <1>9 DEF EraseBlock

(* Writing a block, or failing to, keeps the inductive invariant.            *)
LEMMA WriteBlockStep ==
  ASSUME IInv, NEW lb \in Logic, NEW v \in Vals, WriteBlock(lb, v)
  PROVE  IInv' /\ (LostBlock(ni) => LostBlock(ni'))
<1> DEFINE pb == ni.map[lb]
           k == SetState(ni, pb, "remap")
<1>1. /\ ni \in Ni /\ Flash(flash, oob) /\ oob \subseteq Blocks /\ DOMAIN flash = Blocks
      /\ ni.to = "idle" /\ ni.to \in Rest /\ On(ni) /\ Ram(ni, flash, oob) /\ oob' = oob
      /\ pb >= 0 /\ Core(ni, flash, oob)
  BY DEF WriteBlock, Usual, IInv, On, Rest, Flash, Ram
<1>2. pb \in Blocks /\ pb \notin Mgmt..ni.top /\ pb \notin Live(flash, oob)
  BY <1>1, MappedAbove
<1>3. \/ flash' = [flash EXCEPT ![pb] = Data(lb, v)] /\ ni' = ni
      \/ flash' = [flash EXCEPT ![pb] = Torn] /\ ni' = Update(k, "none")
  BY DEF WriteBlock
<1>4. k \in Ni /\ Ram(k, flash, oob)
  <2> HIDE DEF pb
  <2> QED
    BY <1>1, <1>2, RestNotes
<1>5. k.to = ni.to
  BY <1>1, <1>2, SetStateFields DEF StKinds
<1> HIDE DEF pb, k
<1>6. Clears(flash, oob, pb, flash', oob)
  BY <1>1, <1>2, <1>3, Contents DEF Clears
<1>7. Flash(flash', oob) /\ Ram(ni, flash', oob) /\ Ram(k, flash', oob)
  BY <1>1, <1>2, <1>4, <1>5, <1>6, NotATable
<1>8. "none" \in Ops
  BY DEF Ops
<1>9. Update(k, "none") \in Ni /\ Ram(Update(k, "none"), flash', oob)
  BY <1>1, <1>4, <1>5, <1>7, <1>8, UpdateRam
<1>10. Update(k, "none").op = "none"
  BY <1>4, <1>8, UpdateFields
<1> QED
  BY <1>1, <1>3, <1>7, <1>9, <1>10 DEF IInv, LostBlock

(* Marking a block bad by hand keeps the inductive invariant.                *)
LEMMA MarkBadStep ==
  ASSUME IInv, NEW lb \in Logic, MarkBad(lb)
  PROVE  IInv' /\ LostBlock(ni')
<1> DEFINE pb == ni.map[lb]
           map == [ni.map EXCEPT ![lb] = -1]
           n == [ni EXCEPT !.map = map]
           k == SetState(n, pb, "bad")
<1>1. /\ ni \in Ni /\ Flash(flash, oob) /\ oob \subseteq Blocks /\ DOMAIN flash = Blocks
      /\ ni.to = "idle" /\ ni.to \in Rest /\ On(ni) /\ Ram(ni, flash, oob) /\ flash' = flash
      /\ pb >= 0 /\ Core(ni, flash, oob) /\ oob' = oob \cup {pb} /\ ni' = Update(k, "none")
  BY DEF MarkBad, Usual, IInv, On, Rest, Flash, Ram
<1>2. pb \in Blocks /\ pb \notin Mgmt..ni.top /\ pb \notin Live(flash, oob)
  BY <1>1, MappedAbove
<1>3. map \in Maps /\ map[lb] = -1 /\ \A l \in Logic \ {lb} : map[l] = ni.map[l]
  BY <1>1 DEF Ni, Maps
<1>4. Placed(map, ni.top) /\ ni.mapBa <= ni.top /\ ni.top \in Nat
  BY <1>1, <1>3, ConstTypes DEF Core, Placed, OneToOne, Avoids, Ni
<1> HIDE DEF map, pb
<1>5. /\ n \in Ni /\ n.to = ni.to /\ n.st = ni.st /\ n.cache = ni.cache /\ n.wc = ni.wc
      /\ n.top = ni.top /\ n.main = ni.main /\ n.backup = ni.backup /\ n.mapBa = ni.mapBa
      /\ n.map = map /\ n.prot = ni.prot
  BY <1>1, <1>3 DEF Ni
<1> HIDE DEF n
<1>6. n.main = 0 => n.prot /\ n.mapBa = n.top
  BY <1>1, <1>5 DEF Ram, Ranges
<1>7. n.top <= ni.top /\ n.mapBa <= n.top
  BY <1>4, <1>5
<1>8. Ram(n, flash, oob)
  BY <1>1, <1>4, <1>5, <1>6, <1>7, RestMaps
<1>9. k \in Ni /\ Ram(k, flash, oob')
  BY <1>1, <1>2, <1>5, <1>8, RestNotes
<1>10. k.to = n.to
  BY <1>2, <1>5, SetStateFields DEF StKinds
<1> HIDE DEF k
<1>11. "none" \in Ops
  BY DEF Ops
<1>12. Update(k, "none") \in Ni /\ Ram(Update(k, "none"), flash, oob')
  BY <1>1, <1>5, <1>9, <1>10, <1>11, UpdateRam
<1>13. Update(k, "none").op = "none"
  BY <1>9, <1>11, UpdateFields
<1>14. Live(flash, oob') = Live(flash, oob)
  BY <1>1, <1>2 DEF Live
<1>15. Flash(flash, oob')
  BY <1>1, <1>14, FlashGrows
<1> QED
  BY <1>1, <1>2, <1>12, <1>13, <1>15 DEF IInv, LostBlock

(* Beginning to erase a block keeps the inductive invariant.                 *)
LEMMA StartEraseStep ==
  ASSUME IInv, NEW lb \in Logic, StartErase(lb), LostBlock(ni)
  PROVE  IInv' /\ LostBlock(ni')
<1>1. /\ ni \in Ni /\ Flash(flash, oob) /\ oob \subseteq Blocks
      /\ ni.to = "idle" /\ ni.to \in Rest /\ On(ni) /\ Ram(ni, flash, oob) /\ flash' = flash
      /\ oob' = oob /\ ni' = [ni EXCEPT !.to = "erase", !.lb = lb] /\ ni.op # "lost"
  BY DEF StartErase, Usual, IInv, On, Rest, LostBlock
<1>2. /\ ni' \in Ni /\ SameTables(ni, ni') /\ ni'.to \in Rest /\ ni'.prot = ni.prot
      /\ ni'.main = ni.main /\ ni'.backup = ni.backup /\ ni'.mapBa = ni.mapBa
      /\ ni'.op # "lost"
  BY <1>1 DEF Ni, SameTables, Tos, Rest
<1>3. Ram(ni', flash, oob)
  BY <1>1, <1>2, RestSame
<1> QED
  BY <1>1, <1>2, <1>3 DEF IInv, LostBlock

(* Detaching with an update to write keeps the inductive invariant.          *)
LEMMA DetachStep ==
  ASSUME IInv, Detach
  PROVE  IInv' /\ LostBlock(ni')
<1>1. /\ ni \in Ni /\ Flash(flash, oob) /\ oob \subseteq Blocks
      /\ ni.to \in Rest /\ On(ni) /\ Ram(ni, flash, oob) /\ flash' = flash
      /\ oob' = oob /\ ni' = Update(ni, "none") /\ "none" \in Ops
  BY DEF Detach, IInv, On, Rest, Ops
<1>2. ni' \in Ni /\ Ram(ni', flash, oob) /\ ni'.op = "none"
  BY <1>1, UpdateRam, UpdateFields
<1> QED
  BY <1>1, <1>2 DEF IInv, LostBlock

----------------------------------------------------------------------------
(* The theorem.                                                              *)

\* What the table writers leave to their callers
Kept(n, m) ==
  /\ m.map = n.map /\ m.cache = n.cache
  /\ m.op = n.op /\ m.lb = n.lb /\ m.pb = n.pb /\ m.data = n.data
  /\ m.to \in Writes \cup Wipes \cup {"done"}

(* The writers leave the mapping, the cache, the operation under way and its *)
(* block alone.                                                              *)
LEMMA WritersKeep ==
  ASSUME IInv, BlockWritten \/ BlockWiped \/ BlockFails \/ NoBlockLeft
  PROVE  Kept(ni, ni')
<1>1. /\ On(ni) /\ ni.to \in Writes \cup Wipes /\ ni \in Ni /\ ni.limit \in Int
      /\ Ranges(ni)
  BY DEF BlockWritten, BlockWiped, BlockFails, NoBlockLeft, On, Writes, Wipes, IInv, Ni, Ram
<1>2. ASSUME NEW c \in Int
      PROVE  /\ Passed(c) \in Ni /\ Kept(ni, Passed(c)) /\ Ranges(Passed(c))
             /\ Passed(c).to = ni.to /\ Passed(c).limit = ni.limit
  <2>1. LET m == Passed(c)
        IN  /\ m.map = ni.map /\ m.cache = ni.cache
            /\ m.op = ni.op /\ m.lb = ni.lb /\ m.pb = ni.pb /\ m.data = ni.data
            /\ m.to = ni.to /\ m.limit = ni.limit
    BY <1>1, PassedSame
  <2>2. Passed(c) \in Ni /\ Ranges(Passed(c))
    BY <1>1, <1>2, PassedRam DEF Ram
  <2> QED
    BY <1>1, <2>1, <2>2 DEF Kept
<1>3. ASSUME NEW n \in Ni, NEW m, NEW x, NEW y, NEW z, Located(n, m, x, y, z),
             m.to \in Writes \cup Wipes \cup {"done"}
      PROVE  Kept(n, m)
  BY <1>3 DEF Located, SameTables, Kept
<1>4. ASSUME NEW n, NEW m, Kept(ni, n), Kept(n, m)
      PROVE  Kept(ni, m)
  BY <1>4 DEF Kept
<1>5. ASSUME NEW n \in Ni, n.to \in Writes, Ranges(n), NEW c \in Nat
      PROVE  Kept(n, Written(n, c))
  <2> DEFINE m == Written(n, c)
  <2>1. n.to = "rescued" => n.limit \in Nat
    BY <1>5, ConstTypes DEF Ranges, Ni
  <2>2. /\ \E x, y, z : Located(n, m, x, y, z)
        /\ m.to \in {"main", "second", "wipe", "wipeBehind", "rescued", "done"}
    <3> HIDE DEF m
    <3>1. CASE n.to \in {"backup", "main"}
      BY <3>1, <1>5, WrittenFields DEF m
    <3>2. CASE n.to = "rebuild"
      BY <3>2, <1>5, WrittenFields DEF m
    <3>3. CASE n.to \in {"second", "front", "behind"}
      BY <3>3, <1>5, WrittenFields DEF m
    <3>4. CASE n.to \in {"temp", "rescued"}
      BY <3>4, <1>5, <2>1, WrittenFields DEF m
    <3>5. CASE n.to \in {"oneMain", "oneBackup"}
      BY <3>5, <1>5, WrittenFields DEF m
    <3> QED
      BY <1>5, <3>1, <3>2, <3>3, <3>4, <3>5 DEF Writes
  <2> HIDE DEF m
  <2> QED
    BY <2>2, <1>3, <1>5 DEF m, Writes, Wipes
<1>6. ASSUME NEW n \in Ni, n.to \in Writes, Ranges(n)
      PROVE  Kept(n, Full(n))
  <2> DEFINE m == Full(n)
  <2>1. n.to = "rescued" => n.limit \in Nat
    BY <1>6, ConstTypes DEF Ranges, Ni
  <2>2. CASE n.to # "rebuild"
    <3>1. /\ \E x, y, z : Located(n, m, x, y, z)
          /\ m.to \in {"main", "rebuild", "temp", "front", "behind", "done"}
      <4> HIDE DEF m
      <4>1. CASE n.to \in {"backup", "oneBackup", "oneMain"}
        BY <4>1, <1>6, FullFields DEF m
      <4>2. CASE n.to = "main"
        BY <4>2, <1>6, FullFields DEF m
      <4>3. CASE n.to \in {"second", "front", "behind"}
        BY <4>3, <1>6, FullFields DEF m
      <4>4. CASE n.to \in {"temp", "rescued"}
        BY <4>4, <1>6, <2>1, FullFields DEF m
      <4> QED
        BY <1>6, <2>2, <4>1, <4>2, <4>3, <4>4 DEF Writes
    <3> HIDE DEF m
    <3> QED
      BY <3>1, <1>3, <1>6 DEF m, Writes, Wipes
  <2>3. CASE n.to = "rebuild"
    <3>1. /\ SameTables(n, m) /\ m.to = "done"
          /\ m.op = n.op /\ m.lb = n.lb /\ m.pb = n.pb /\ m.data = n.data
      BY <2>3, <1>6, FullFields
    <3> HIDE DEF m
    <3> QED
      BY <3>1 DEF m, SameTables, Kept
  <2> QED
    BY <2>2, <2>3
<1>7. ASSUME NEW n \in Ni
      PROVE  Kept(n, Wiped(n))
  BY DEF Wiped, Done, Clean, Kept, Ni
<1>8. Usable # {} => Min(Usable) \in Nat /\ Min(Usable) \in Blocks
  BY <1>1, UsableIs, ConstTypes
<1>9. CASE BlockWritten
  <2>1. ni' = Written(Passed(Min(Usable)), Min(Usable)) /\ ni.to \in Writes /\ Usable # {}
    BY <1>9 DEF BlockWritten
  <2> QED
    BY <2>1, <1>2, <1>4, <1>5, <1>8
<1>10. CASE BlockWiped
  <2>1. ni' = [Passed(Min(Usable)) EXCEPT !.at = Min(Usable) + 1] /\ Usable # {}
    BY <1>10 DEF BlockWiped
  <2>2. Kept(ni, Passed(Min(Usable))) /\ Passed(Min(Usable)) \in Ni
    BY <2>1, <1>2, <1>8
  <2>3. Kept(Passed(Min(Usable)), ni')
    BY <2>1, <2>2 DEF Kept, Ni
  <2> QED
    BY <2>2, <2>3, <1>4
<1>11. CASE BlockFails
  <2> DEFINE c == Min(Usable)
             k == SetState(Passed(c), c, "bad")
  <2>1. ni' = [k EXCEPT !.at = c + 1] /\ Usable # {}
    BY <1>11 DEF BlockFails
  <2>2. Kept(ni, Passed(c)) /\ Passed(c) \in Ni
    BY <2>1, <1>2, <1>8
  <2>3. Kept(Passed(c), ni')
    BY <2>1, <2>2 DEF Kept, Ni, SetState
  <2> HIDE DEF c
  <2> QED
    BY <2>2, <2>3, <1>4
<1>12. CASE NoBlockLeft
  <2>1. ni' = IF ni.to \in Writes THEN Full(Passed(ni.limit)) ELSE Wiped(Passed(ni.limit))
    BY <1>12 DEF NoBlockLeft
  <2> QED
    BY <2>1, <1>1, <1>2, <1>4, <1>6, <1>7
<1> QED
  BY <1>9, <1>10, <1>11, <1>12

(* A state of the inductive invariant has no shared block.                   *)
LEMMA NotShared ==
  ASSUME IInv
  PROVE  NoSharedBlock
<1> SUFFICES ASSUME Attached, NEW lb \in Logic, ni.map[lb] >= 0
             PROVE  /\ ni.map[lb] \notin {ni.main, ni.backup, Sig} \ {0}
                    /\ \A l \in Logic \ {lb} : ni.map[l] # ni.map[lb]
  BY DEF NoSharedBlock
<1>1. On(ni)
  BY DEF Attached, On
<1>2. Core(ni, flash, oob) /\ Ranges(ni) /\ ni \in Ni
  BY <1>1 DEF IInv, Ram
<1>3. \A l \in Logic \ {lb} : ni.map[l] # ni.map[lb]
  BY <1>2 DEF Core, Placed, OneToOne
<1>4. ni.map[lb] \notin Mgmt..ni.top /\ ni.map[lb] # Sig
  BY <1>2 DEF Core, Placed, Avoids
<1>5. /\ ni.main # 0 => ni.main \in Mgmt..ni.top
      /\ ni.backup # 0 => ni.backup \in Mgmt..ni.top
  BY <1>2, ConstTypes DEF Core, Ranges, Ni
<1> QED
  BY <1>3, <1>4, <1>5

(* Every step from a state in which the topmost spare block is good keeps    *)
(* the inductive invariant.                                                  *)
LEMMA IInvStep ==
  ASSUME IInv, LostBlock(ni), TopSpareGood, [Next]_vars
  PROVE  IInv' /\ LostBlock(ni')
<1>1. ASSUME BlockWritten \/ BlockWiped \/ BlockFails \/ NoBlockLeft
      PROVE  IInv' /\ LostBlock(ni')
  <2>1. IInv'
    BY <1>1, BlockWrittenStep, BlockWipedStep, BlockFailsStep, NoBlockLeftStep
  <2>2. Kept(ni, ni')
    BY <1>1, WritersKeep
  <2>3. LostBlock(ni')
    BY <2>2 DEF Kept, LostBlock, Writes, Wipes
  <2> QED
    BY <2>1, <2>3
<1>2. CASE Attach
  BY <1>2, AttachStep DEF LostBlock
<1>3. CASE PowerLoss
  <2>1. ni'.op = "none"
    BY <1>3 DEF PowerLoss, Detached
  <2> QED
    BY <1>3, <2>1, PowerLossStep DEF LostBlock
<1>4. CASE UNCHANGED vars
  BY <1>4 DEF vars, IInv, LostBlock
<1>5. CASE \E lb \in Logic : StartErase(lb) \/ MarkBad(lb) \/ \E v \in Vals : WriteBlock(lb, v)
  BY <1>5, StartEraseStep, MarkBadStep, WriteBlockStep
<1> QED
  BY <1>1, <1>2, <1>3, <1>4, <1>5, CompletedStep, EraseBlockStep, DetachStep DEF Next, Steps

(* As long as no bad block is passed over when a spare one is taken (the     *)
(* topmost spare block is good when a block is to be mapped), no two logic   *)
(* blocks share a physical block, and none lives in an info table or in the  *)
(* signature: whatever blocks fail and whenever power is lost.               *)
THEOREM SpareBlocksNotShared == Spec /\ []TopSpareGood => []NoSharedBlock
<1>1. Init => IInv /\ LostBlock(ni)
  BY InitStep DEF Init, Detached, LostBlock
<1>2. IInv /\ LostBlock(ni) /\ TopSpareGood /\ [Next]_vars => (IInv /\ LostBlock(ni))'
  BY IInvStep
<1>3. IInv => NoSharedBlock
  BY NotShared
<1> QED
  BY <1>1, <1>2, <1>3, PTL DEF Spec

----------------------------------------------------------------------------
(* What the tables record.                                                   *)

\* Every live table maps as the cache does, but for the ones that an update has
\* still to write: those agree, or the one that stays is like the cache.
Copies(n, f, o) ==
  /\ n.to \notin {"backup", "main", "oneMain", "oneBackup"} =>
       \A b \in Live(f, o) : f[b].map = n.cache.map
  /\ n.to = "backup" => \A b, c \in Live(f, o) : f[b].map = f[c].map
  /\ n.to \in {"main", "oneMain"} /\ n.backup # 0 => f[n.backup].map = n.cache.map
  /\ n.to = "oneBackup" => f[n.main].map = n.cache.map

\* The cache maps what the instance maps.
Named(n) == \A lb \in Logic : n.map[lb] >= 0 => n.cache.map[lb] = n.map[lb]

\* It does while tables are written, and afterwards unless a change was noted.
Noted(n) ==
  /\ n.to \in Writes \cup Wipes \/ ~n.dirty \/ n.op = "load" => Named(n)
  /\ n.to \in {"idle", "erase"} /\ ~n.prot => Named(n)
  /\ n.to = "idle" => n.op = "none"

\* The writers that may fail but for a lack of blocks run on attaching only
Fails(n) ==
  /\ n.to \in {"front", "behind", "oneBackup", "oneMain", "wipeBehind"} => n.op = "load"
  /\ n.to = "done" /\ ~n.ok => n.prot \/ n.op \in {"load", "create"}

Recorded(n, f, o) == Copies(n, f, o) /\ Noted(n) /\ Fails(n)

(* A table written is like the cache, and so is the one left alone.          *)
LEMMA WriteCopies ==
  ASSUME NEW n, NEW f, NEW o, NEW c, NEW g, WritesAt(n, f, o, c, g), Copies(n, f, o)
  PROVE  Copies(Written(n, c), g, o)
<1> DEFINE m == Written(n, c)
           L == Live(f, o)
           K == Live(g, o)
<1>1. /\ n \in Ni /\ n.to \in Writes /\ Ranges(n) /\ g[c] = n.cache
      /\ \A b \in Blocks \ {c} : g[b] = f[b]
  BY DEF WritesAt, Ram
<1>2. K = L \cup {c} /\ K \subseteq {c, Other(n)} /\ 0 \notin K /\ L \subseteq Blocks
  <2>1. K = L \cup {c} /\ K \subseteq {c, Other(n)} /\ Flash(g, o)
    BY WriteTables
  <2>2. 0 \notin K
    BY <2>1, ConstTypes DEF Flash, TablesLoadable
  <2> QED
    BY <2>1, <2>2 DEF Live
<1>3. c \in Nat
  BY WriterPlace, ConstTypes
<1>4. n.to = "rescued" => n.limit \in Nat
  BY <1>1, ConstTypes DEF Ranges, Ni
<1> HIDE DEF K, L
<1>5. n.to # "backup" => \A b \in K : g[b].map = n.cache.map
  <2> SUFFICES ASSUME n.to # "backup", NEW b \in K, b # c
               PROVE  f[b].map = n.cache.map
    BY <1>1, <1>2
  <2>1. b \in L /\ b = Other(n) /\ b # 0
    BY <1>2
  <2>2. CASE n.to \in {"main", "oneMain"}
    BY <2>1, <2>2 DEF Copies, Other
  <2>3. CASE n.to = "oneBackup"
    BY <2>1, <2>3 DEF Copies, Other
  <2>4. CASE n.to \notin {"main", "oneMain", "oneBackup"}
    BY <2>1, <2>4 DEF Copies, L
  <2> QED
    BY <2>2, <2>3, <2>4
<1>6. /\ m.cache = n.cache
      /\ n.to = "backup" => m.to = "main" /\ m.backup = c
      /\ n.to # "backup" => m.to \in {"done", "second", "wipe", "wipeBehind", "rescued"}
  <2> HIDE DEF m
  <2>1. CASE n.to \in {"backup", "main", "rebuild"}
    BY <2>1, <1>1, <1>3, WrittenFields DEF m, Located, SameTables
  <2>2. CASE n.to \in {"second", "front", "behind"}
    BY <2>2, <1>1, <1>3, WrittenFields DEF m, Located, SameTables
  <2>3. CASE n.to \in {"temp", "rescued", "oneMain", "oneBackup"}
    BY <2>3, <1>1, <1>3, <1>4, WrittenFields DEF m, Located, SameTables
  <2> QED
    BY <1>1, <2>1, <2>2, <2>3 DEF Writes
<1> HIDE DEF m
<1> QED
  BY <1>1, <1>5, <1>6 DEF Copies, K, m

(* A writer that has run out of blocks leaves tables like the cache.         *)
LEMMA FullCopies ==
  ASSUME NEW n, NEW f, NEW o, RunsOut(n, f, o), Copies(n, f, o)
  PROVE  Copies(Full(n), f, o)
<1> DEFINE m == Full(n)
           L == Live(f, o)
<1>1. n \in Ni /\ n.to \in Writes /\ Ranges(n)
  BY DEF RunsOut, Ram
<1>2. n.to = "rescued" => n.limit \in Nat
  BY <1>1, ConstTypes DEF Ranges, Ni
<1>3. /\ n.to \in {"backup", "oneBackup"} => L = {n.main}
      /\ n.to = "main" /\ n.backup = 0 => L = {}
      /\ n.to \in {"main", "oneMain"} /\ n.backup # 0 => L = {n.backup}
      /\ n.to = "oneMain" => n.backup # 0
  BY <1>1, RunsOutLeft DEF Ranges
<1> HIDE DEF L
<1>4. n.to # "backup" => \A b \in L : f[b].map = n.cache.map
  BY <1>3 DEF Copies, L
<1>5. /\ m.cache = n.cache
      /\ n.to = "backup" => m.to = "main" /\ m.backup = 0
      /\ n.to # "backup" => m.to \in {"done", "rebuild", "temp", "front", "behind"}
  <2> HIDE DEF m
  <2>1. CASE n.to \in {"backup", "main"}
    BY <2>1, <1>1, FullFields DEF m, Located, SameTables
  <2>2. CASE n.to \in {"rebuild", "second", "front", "behind"}
    BY <2>2, <1>1, FullFields DEF m, Located, SameTables
  <2>3. CASE n.to \in {"temp", "rescued", "oneMain", "oneBackup"}
    BY <2>3, <1>1, <1>2, FullFields DEF m, Located, SameTables
  <2> QED
    BY <1>1, <2>1, <2>2, <2>3 DEF Writes
<1> HIDE DEF m
<1> QED
  BY <1>4, <1>5 DEF Copies, L, m

(* Only a rebuild that finds no block, and the writers of an attachment, end *)
(* in failure.                                                               *)
LEMMA WriterFails ==
  ASSUME NEW n \in Ni, Fails(n)
  PROVE  /\ n.to \in Writes => \A c \in Nat : Fails(Written(n, c))
         /\ n.to \in Writes => Fails(Full(n))
         /\ n.to \in Wipes => Fails(Wiped(n))
<1>1. ASSUME n.to \in Writes, NEW c \in Nat
      PROVE  Fails(Written(n, c))
  <2>1. CASE n.to \in {"backup", "main", "rebuild"}
    BY <2>1 DEF Fails, Written, WriteMain, Write, Done, Clean, Ni
  <2>2. CASE n.to \in {"second", "front", "behind"}
    BY <2>2 DEF Fails, Written, Write, Done, Clean, Ni
  <2>3. CASE n.to \in {"temp", "rescued", "oneMain", "oneBackup"}
    BY <2>3 DEF Fails, Written, Write, Done, Clean, Ni
  <2> QED
    BY <1>1, <2>1, <2>2, <2>3 DEF Writes
<1>2. ASSUME n.to \in Writes
      PROVE  Fails(Full(n))
  <2>1. CASE n.to \in {"backup", "main"}
    BY <2>1 DEF Fails, Full, WriteMain, Rebuild, RescueMain, OnlyBackup, Write, Done, Clean, Ni
  <2>2. CASE n.to \in {"rebuild", "second", "front", "behind"}
    BY <2>2 DEF Fails, Full, Write, Done, Ni
  <2>3. CASE n.to \in {"temp", "rescued", "oneMain", "oneBackup"}
    BY <2>3 DEF Fails, Full, RescueSingle, OnlyBackup, Write, Done, Clean, Ni
  <2> QED
    BY <1>2, <2>1, <2>2, <2>3 DEF Writes
<1>3. ASSUME n.to \in Wipes
      PROVE  Fails(Wiped(n))
  BY <1>3 DEF Fails, Wiped, Done, Clean, Ni
<1> QED
  BY <1>1, <1>2, <1>3

(* The block of a writer or a wipe                                           *)

(* Tables lost leave the others as they were.                                *)
LEMMA FewerCopies ==
  ASSUME NEW n, NEW f, NEW o, Copies(n, f, o), NEW m, NEW g, NEW p,
         Live(g, p) \subseteq Live(f, o), \A b \in Live(g, p) : g[b] = f[b],
         Held(m, Live(g, p)), m.to = n.to, m.main = n.main, m.backup = n.backup,
         m.cache = n.cache
  PROVE  Copies(m, g, p)
<1>1. \A b \in Live(g, p) : b \in Live(f, o) /\ g[b] = f[b]
  OBVIOUS
<1>2. m.to \in {"main", "oneMain"} /\ m.backup # 0 => m.backup \in Live(g, p)
  BY DEF Held
<1>3. m.to = "oneBackup" => m.main \in Live(g, p)
  BY DEF Held
<1> QED
  BY <1>1, <1>2, <1>3 DEF Copies

(* An instance that notes bad blocks it passes records no less.              *)
LEMMA PassedRecorded ==
  ASSUME IInv, On(ni), ni.to \in Writes \cup Wipes, Recorded(ni, flash, oob), NEW c \in Int
  PROVE  Copies(Passed(c), flash, oob) /\ Fails(Passed(c))
<1>1. LET m == Passed(c)
      IN  /\ m.to = ni.to /\ m.main = ni.main /\ m.backup = ni.backup /\ m.cache = ni.cache
          /\ m.op = ni.op /\ m.prot = ni.prot /\ m.ok = ni.ok
  BY PassedSame DEF IInv
<1> QED
  BY <1>1 DEF Recorded, Copies, Fails

\* What a step on the block c of a writer does
Hits(c) ==
  /\ c \in Blocks /\ c \in ni.at..ni.limit - 1
  /\ flash'[c].kind # "table" /\ DOMAIN flash' = Blocks
  /\ \A b \in Blocks \ {c} : flash'[b] = flash[b]
  /\ oob \subseteq oob' /\ oob' \subseteq oob \cup {c}

(* A block that fails or is wiped.                                           *)
LEMMA HitIs ==
  ASSUME IInv, BlockFails \/ BlockWiped
  PROVE  /\ On(ni) /\ ni.to \in Writes \cup Wipes /\ Usable # {} /\ Hits(Min(Usable))
         /\ (BlockWiped => ni.to \in Wipes)
         /\ LET m == ni' IN
              /\ m.to = ni.to /\ m.main = ni.main /\ m.backup = ni.backup
              /\ m.cache = ni.cache /\ m.op = ni.op /\ m.ok = ni.ok /\ m.prot = ni.prot
              /\ m.limit = ni.limit
<1> DEFINE c == Min(Usable)
           m == ni'
<1>1. On(ni) /\ ni.to \in Writes \cup Wipes /\ Usable # {} /\ (BlockWiped => ni.to \in Wipes)
  BY DEF BlockFails, BlockWiped, On, Writes, Wipes
<1>2. c \in ni.at..ni.limit - 1 /\ c \in Blocks /\ c \in Int
  BY <1>1, UsableIs, ConstTypes
<1>3. Hits(c)
  <2>1. DOMAIN flash = Blocks
    BY DEF IInv, Flash
  <2>2. \/ flash' = [flash EXCEPT ![c] = Torn] /\ oob' = oob \cup {c}
        \/ flash' = [flash EXCEPT ![c] = Erased] /\ oob' = oob
    BY DEF BlockFails, BlockWiped
  <2> HIDE DEF c
  <2> QED
    BY <1>2, <2>1, <2>2, Contents DEF Hits
<1>4. /\ m.to = ni.to /\ m.main = ni.main /\ m.backup = ni.backup
      /\ m.cache = ni.cache /\ m.op = ni.op /\ m.ok = ni.ok /\ m.prot = ni.prot
      /\ m.limit = ni.limit
  <2> DEFINE n == Passed(c)
             k == SetState(n, c, "bad")
  <2>1. m = [k EXCEPT !.at = c + 1] \/ m = [n EXCEPT !.at = c + 1]
    BY DEF BlockFails, BlockWiped
  <2>2. /\ n \in Ni /\ n.to = ni.to /\ n.main = ni.main /\ n.backup = ni.backup
        /\ n.cache = ni.cache /\ n.op = ni.op /\ n.ok = ni.ok /\ n.prot = ni.prot
        /\ n.limit = ni.limit
    BY <1>2, PassedSame DEF IInv
  <2> HIDE DEF n, c
  <2>3. /\ k.to = n.to /\ k.main = n.main /\ k.backup = n.backup
        /\ k.cache = n.cache /\ k.op = n.op /\ k.ok = n.ok /\ k.prot = n.prot
        /\ k.limit = n.limit
    BY DEF SetState
  <2>4. k \in Ni
    BY <1>2, <2>2, SetStateFields DEF StKinds
  <2> HIDE DEF k, m
  <2> QED
    BY <2>1, <2>2, <2>3, <2>4 DEF Ni
<1> QED
  BY <1>1, <1>3, <1>4

(* What such a step leaves on flash.                                         *)
LEMMA HitLeft ==
  ASSUME IInv, NEW c, Hits(c)
  PROVE  /\ Live(flash', oob') = Live(flash, oob) \ {c}
         /\ \A b \in Live(flash', oob') : flash'[b] = flash[b]
<1>1. Clears(flash, oob, c, flash', oob')
  BY DEF Hits, Clears, IInv
<1> QED
  BY <1>1, Cleared

\* The tables record the mapping
StoredInv == On(ni) => Recorded(ni, flash, oob)

(* The writers keep what the tables record.                                  *)
LEMMA WritersRecord ==
  ASSUME IInv, StoredInv, BlockWritten \/ BlockWiped \/ BlockFails \/ NoBlockLeft
  PROVE  StoredInv'
<1>1. /\ On(ni) /\ ni.to \in Writes \cup Wipes /\ ni \in Ni /\ ni.limit \in Int
      /\ Recorded(ni, flash, oob)
  BY DEF BlockWritten, BlockWiped, BlockFails, NoBlockLeft, On, Writes, Wipes, IInv, Ni, StoredInv
<1>2. Kept(ni, ni')
  BY WritersKeep
<1>3. Noted(ni')
  <2>1. Named(ni')
    BY <1>1, <1>2 DEF Recorded, Noted, Kept, Named
  <2> QED
    BY <1>2, <2>1 DEF Noted, Kept, Writes, Wipes
<1>4. CASE BlockWritten
  <2> DEFINE c == Min(Usable)
             n == Passed(c)
  <2>1. /\ flash' = [flash EXCEPT ![c] = ni.cache] /\ ni' = Written(n, c) /\ oob' = oob
        /\ ni.to \in Writes /\ Usable # {}
    BY <1>4 DEF BlockWritten
  <2>2. c \in Int /\ c \in Nat
    BY <1>1, <2>1, UsableIs, ConstTypes
  <2>3. WritesAt(n, flash, oob, c, flash')
    BY <1>4, WrittenAt
  <2>4. Copies(n, flash, oob) /\ Fails(n)
    BY <1>1, <2>2, PassedRecorded
  <2> HIDE DEF n, c
  <2>5. n \in Ni /\ n.to \in Writes
    BY <2>3 DEF WritesAt
  <2>6. Copies(ni', flash', oob')
    BY <2>1, <2>3, <2>4, WriteCopies
  <2>7. Fails(ni')
    BY <2>1, <2>2, <2>4, <2>5, WriterFails
  <2> QED
    BY <1>3, <2>6, <2>7 DEF StoredInv, Recorded
<1>5. CASE BlockFails \/ BlockWiped
  <2> DEFINE c == Min(Usable)
             m == ni'
  <2>1. /\ Hits(c) /\ m.to = ni.to /\ m.main = ni.main /\ m.backup = ni.backup
        /\ m.cache = ni.cache /\ m.op = ni.op /\ m.ok = ni.ok /\ m.prot = ni.prot
    BY <1>5, HitIs
  <2>2. /\ Live(flash', oob') = Live(flash, oob) \ {c}
        /\ \A b \in Live(flash', oob') : flash'[b] = flash[b]
    BY <2>1, HitLeft
  <2>3. IInv'
    BY <1>5, BlockFailsStep, BlockWipedStep
  <2>4. Held(ni', Live(flash', oob'))
    BY <1>1, <2>1, <2>3 DEF IInv, Ram, On
  <2> HIDE DEF c
  <2>5. Copies(m, flash', oob')
    BY <1>1, <2>1, <2>2, <2>4, FewerCopies DEF Recorded
  <2>6. Fails(m)
    BY <1>1, <2>1 DEF Recorded, Fails
  <2> QED
    BY <1>3, <2>5, <2>6 DEF StoredInv, Recorded
<1>6. CASE NoBlockLeft
  <2> DEFINE n == Passed(ni.limit)
  <2>1. /\ ni' = (IF ni.to \in Writes THEN Full(n) ELSE Wiped(n))
        /\ flash' = flash /\ oob' = oob
    BY <1>6 DEF NoBlockLeft
  <2>2. Copies(n, flash, oob) /\ Fails(n)
    BY <1>1, PassedRecorded
  <2>3. n \in Ni /\ n.to = ni.to
    BY <1>1, PassedSame
  <2>4. CASE ni.to \in Writes
    <3>1. RunsOut(n, flash, oob)
      BY <1>6, <2>4, OutOfBlocks
    <3> HIDE DEF n
    <3>2. Copies(ni', flash', oob') /\ Fails(ni')
      BY <2>1, <2>2, <2>3, <2>4, <3>1, FullCopies, WriterFails
    <3> QED
      BY <1>3, <3>2 DEF StoredInv, Recorded
  <2>5. CASE ni.to \notin Writes
    <3> HIDE DEF n
    <3>1. ni' = Wiped(n) /\ n.to \in Wipes /\ ni.to \in Wipes
      BY <1>1, <2>1, <2>3, <2>5
    <3>2. Wiped(n).to = "done" /\ Wiped(n).cache = n.cache
      BY <2>3 DEF Wiped, Done, Clean, Ni
    <3>3. Copies(ni', flash', oob')
      BY <2>1, <2>2, <3>1, <3>2 DEF Copies, Wipes
    <3>4. Fails(ni')
      BY <2>2, <2>3, <3>1, WriterFails
    <3> QED
      BY <1>3, <3>3, <3>4 DEF StoredInv, Recorded
  <2> QED
    BY <2>4, <2>5
<1> QED
  BY <1>4, <1>5, <1>6

(* Attaching records nothing but what was found, or what is created.         *)
LEMMA AttachRecords ==
  ASSUME IInv, Attach
  PROVE  StoredInv'
<1>1. Flash(flash, oob)
  BY DEF IInv
<1>2. /\ flash' = flash /\ oob' = oob
      /\ \E ecc \in SUBSET Unreadable :
           ni' = IF Live(flash, oob) = {} THEN Create(ecc) ELSE Load(ecc)
  BY <1>1, TablesLive DEF Attach
<1>3. CASE Live(flash, oob) = {}
  <2>1. PICK ecc \in SUBSET Unreadable : ni' = Create(ecc)
    BY <1>2, <1>3
  <2>2. Create(ecc).op = "create"
        /\ (On(Create(ecc)) => /\ Create(ecc).to = "rebuild"
                               /\ Create(ecc).cache.map = Create(ecc).map)
    BY <1>1, <1>3, CreateStep
  <2>3. On(Create(ecc)) => Recorded(Create(ecc), flash, oob)
    BY <1>3, <2>2 DEF Recorded, Copies, Noted, Named, Fails
  <2> QED
    BY <1>2, <2>1, <2>2, <2>3 DEF StoredInv
<1>4. CASE Live(flash, oob) # {}
  <2>1. PICK ecc \in SUBSET Unreadable : ni' = Load(ecc)
    BY <1>2, <1>4
  <2>2. /\ Load(ecc).op = "load"
        /\ Load(ecc).map = flash[Newest].map /\ Load(ecc).cache.map = flash[Newest].map
        /\ \/ /\ Load(ecc).to \in {"front", "done"}
              /\ \A b \in Live(flash, oob) : flash[b].map = flash[Newest].map
           \/ Load(ecc).to = "oneMain" /\ Newest = Load(ecc).backup
           \/ Load(ecc).to = "oneBackup" /\ Newest = Load(ecc).main
    BY <1>1, <1>4, LoadStep
  <2>3. Copies(Load(ecc), flash, oob)
    BY <2>2 DEF Copies
  <2>4. Noted(Load(ecc)) /\ Fails(Load(ecc))
    BY <2>2 DEF Noted, Named, Fails
  <2> QED
    BY <1>2, <2>1, <2>3, <2>4 DEF StoredInv, Recorded
<1> QED
  BY <1>3, <1>4

----------------------------------------------------------------------------
(* At rest                                                                   *)

\* What an operation at rest does to the mapping: only that of lb changes, and
\* the change is noted unless lb is mapped no longer.
Changes(n, m, lb) ==
  /\ m.cache = n.cache /\ m.lb = n.lb /\ m.prot = n.prot
  /\ \A l \in Logic \ {lb} : m.map[l] = n.map[l]
  /\ ~m.dirty => ~n.dirty /\ (m.map[lb] = n.map[lb] \/ m.map[lb] < 0)

(* One change after another is a change.                                     *)
LEMMA ChangesTwice ==
  ASSUME NEW n, NEW k, NEW m, NEW lb, Changes(n, k, lb), Changes(k, m, lb)
  PROVE  Changes(n, m, lb)
BY DEF Changes

(* What the cache names it still names, if no change was noted.              *)
LEMMA ChangesNamed ==
  ASSUME NEW n, NEW m, NEW lb \in Logic, Changes(n, m, lb), Named(n), ~m.dirty, m \in Ni
  PROVE  Named(m)
<1> SUFFICES ASSUME NEW l \in Logic, m.map[l] >= 0
             PROVE  m.cache.map[l] = m.map[l]
  BY DEF Named
<1>1. m.map[l] = n.map[l] \/ m.map[l] < 0
  BY DEF Changes
<1>2. m.map[l] \in Int
  <2>1. m.map[l] \in {-1} \cup Blocks
    BY DEF Ni, Maps
  <2>2. \A b \in Blocks : b \in Int
    BY ConstTypes
  <2> QED
    BY <2>1, <2>2
<1>3. m.map[l] = n.map[l]
  BY <1>1, <1>2
<1> QED
  BY <1>3 DEF Named, Changes

(* The operations it is made of.                                             *)
LEMMA SmallChanges ==
  ASSUME NEW n \in Ni, NEW lb \in Logic
  PROVE  /\ \A op : Changes(n, Update(n, op), lb)
         /\ Changes(n, Idle(n), lb)
         /\ \A b, s : Changes(n, SetState(n, b, s), lb)
         /\ Changes(n, Mapped(n, lb), lb) /\ Mapped(n, lb).dirty
         /\ Changes(n, [n EXCEPT !.map[lb] = -1], lb)
         /\ \A x : Changes(n, [n EXCEPT !.top = x], lb)
         /\ \A x : Changes(n, [n EXCEPT !.pb = x], lb)
<1>1. n.map \in Maps
  BY DEF Ni
<1>2. \A op : Changes(n, Update(n, op), lb)
  BY DEF Update, Done, Changes, Ni
<1>3. Changes(n, Idle(n), lb)
  BY DEF Idle, Changes, Ni
<1>4. \A b, s : Changes(n, SetState(n, b, s), lb)
  BY DEF SetState, Changes, Ni
<1>5. Changes(n, Mapped(n, lb), lb) /\ Mapped(n, lb).dirty
  BY <1>1 DEF Mapped, Changes, Ni, Maps
<1>6. Changes(n, [n EXCEPT !.map[lb] = -1], lb)
  BY <1>1 DEF Changes, Ni, Maps
<1>7. /\ \A x : Changes(n, [n EXCEPT !.top = x], lb)
      /\ \A x : Changes(n, [n EXCEPT !.pb = x], lb)
  BY DEF Changes, Ni
<1> QED
  BY <1>2, <1>3, <1>4, <1>5, <1>6, <1>7

(* An operation at rest that ends an update, or becomes idle with the cache  *)
(* naming the mapping, keeps what the tables record.                         *)
LEMMA RestRecords ==
  ASSUME NEW n \in Ni, NEW f, NEW o, Recorded(n, f, o), n.to \in Rest,
         NEW m \in Ni, NEW g, NEW p, NEW lb \in Logic, Changes(n, m, lb),
         Live(g, p) = Live(f, o), \A b \in Live(f, o) : g[b] = f[b],
         m.op # "load",
         \/ m.to = "done" /\ m.ok
         \/ /\ m.to = "erase" \/ (m.to = "idle" /\ m.op = "none")
            /\ m.map = n.map /\ (~n.prot => Named(n))
  PROVE  Recorded(m, g, p)
<1>1. Copies(m, g, p)
  BY DEF Copies, Changes, Recorded, Rest
<1>2. ~m.dirty => Named(m)
  BY ChangesNamed DEF Changes, Recorded, Noted
<1>3. m.to \in {"idle", "erase"} /\ ~m.prot => Named(m)
  BY DEF Changes, Named
<1>4. m.to \notin Writes \cup Wipes
  BY DEF Writes, Wipes
<1> QED
  BY <1>1, <1>2, <1>3, <1>4 DEF Recorded, Noted, Fails

(* A step on a block in use leaves the tables alone.                         *)
LEMMA Untouched ==
  ASSUME IInv, On(ni), NEW lb \in Logic, NEW c, c = ni.map[lb], c >= 0,
         \A b \in Blocks \ {c} : flash'[b] = flash[b],
         flash' = flash \/ flash'[c].kind # "table",
         oob \subseteq oob', oob' \subseteq oob \cup {c}
  PROVE  /\ Live(flash', oob') = Live(flash, oob)
         /\ \A b \in Live(flash, oob) : flash'[b] = flash[b]
<1>1. c \in Blocks /\ c \notin Live(flash, oob)
  BY MappedAbove DEF IInv, Ram
<1> QED
  BY <1>1 DEF Live

(* A logic block that is given up is mapped no longer.                       *)
LEMMA UnusableChanges ==
  ASSUME NEW n \in Ni, n.pb \in Blocks
  PROVE  LET m == Unusable(n)
         IN  Changes(n, m, n.lb) /\ m.to = "done" /\ m.ok /\ m.op = "none"
<1> DEFINE lb == n.lb
           k == [n EXCEPT !.map[lb] = -1]
           s == SetState(k, n.pb, "bad")
           j == IF n.st[n.pb] = "remap" THEN k ELSE s
           m == Unusable(n)
<1>1. lb \in Logic
  BY DEF Ni
<1>2. k \in Ni
  BY DEF Ni, Maps
<1>3. Changes(n, k, lb)
  BY <1>1, SmallChanges
<1>4. s \in Ni /\ Changes(k, s, lb)
  <2> HIDE DEF k
  <2>1. "bad" \in StKinds
    BY DEF StKinds
  <2>2. s \in Ni
    BY <1>2, <2>1, SetStateFields
  <2>3. Changes(k, s, lb)
    BY <1>1, <1>2, SmallChanges
  <2> QED
    BY <2>2, <2>3
<1> HIDE DEF s
<1>5. m = Update(j, "none")
  BY DEF Unusable, s
<1> HIDE DEF k
<1>6. j \in Ni /\ Changes(n, j, lb)
  BY <1>2, <1>3, <1>4, ChangesTwice
<1> HIDE DEF j, m, lb
<1>7. Changes(j, m, lb) /\ m.to = "done" /\ m.ok /\ m.op = "none"
  BY <1>1, <1>5, <1>6, SmallChanges, UpdateFields DEF Ops
<1>8. Changes(n, m, lb)
  BY <1>6, <1>7, ChangesTwice
<1> QED
  BY <1>7, <1>8 DEF lb, m

(* One whose block is unfit is mapped elsewhere, or given up.                *)
LEMMA RemapChanges ==
  ASSUME NEW n \in Ni, n.pb \in Blocks, CanMap(n) => Mapped(n, n.lb) \in Ni
  PROVE  LET m == Remap(n)
         IN  Changes(n, m, n.lb) /\ m.to = "done" /\ m.ok /\ m.op \in {"erase", "none", "lost"}
<1> DEFINE lb == n.lb
           k == Mapped(n, lb)
           s == SetState(k, n.pb, "bad")
           j == IF n.st[n.pb] = "remap" THEN k ELSE s
           m == Remap(n)
<1>1. lb \in Logic /\ {"erase", "none", "lost"} \subseteq Ops
  BY DEF Ni, Ops
<1>2. Changes(n, k, lb) /\ (CanMap(n) => k \in Ni)
  BY <1>1, SmallChanges
<1>3. CanMap(n) => s \in Ni /\ Changes(k, s, lb)
  <2> SUFFICES ASSUME CanMap(n)
               PROVE  s \in Ni /\ Changes(k, s, lb)
    OBVIOUS
  <2> HIDE DEF k
  <2>1. "bad" \in StKinds
    BY DEF StKinds
  <2>2. s \in Ni
    BY <1>2, <2>1, SetStateFields
  <2>3. Changes(k, s, lb)
    BY <1>1, <1>2, SmallChanges
  <2> QED
    BY <2>2, <2>3
<1> HIDE DEF s
<1>4. CASE CanMap(n)
  <2>1. m = Update(j, "erase")
    BY <1>4 DEF Remap, s
  <2> HIDE DEF k
  <2>2. j \in Ni /\ Changes(n, j, lb)
    BY <1>2, <1>3, <1>4, ChangesTwice
  <2> HIDE DEF j, m, lb
  <2>3. Changes(j, m, lb) /\ m.to = "done" /\ m.ok /\ m.op = "erase"
    BY <1>1, <2>1, <2>2, SmallChanges, UpdateFields
  <2>4. Changes(n, m, lb)
    BY <2>2, <2>3, ChangesTwice
  <2> QED
    BY <2>3, <2>4 DEF lb, m
<1>5. CASE ~CanMap(n) /\ NoRoom(n)
  <2>1. m = Unusable(n)
    BY <1>5 DEF Remap
  <2> HIDE DEF m
  <2> QED
    BY <2>1, UnusableChanges DEF m
<1>6. CASE ~CanMap(n) /\ ~NoRoom(n)
  <2>1. m = Update(n, "lost")
    BY <1>6 DEF Remap
  <2> HIDE DEF m
  <2>2. Changes(n, m, lb)
    BY <1>1, <2>1, SmallChanges
  <2>3. m.to = "done" /\ m.ok /\ m.op = "lost"
    BY <1>1, <2>1, UpdateFields
  <2> QED
    BY <2>2, <2>3 DEF m
<1> QED
  BY <1>4, <1>5, <1>6

(* What follows the writers keeps what the tables record.                    *)
LEMMA CompletedRecords ==
  ASSUME IInv, LostBlock(ni), TopSpareGood, StoredInv, Completed
  PROVE  StoredInv'
<1> DEFINE m == ni'
<1>1. /\ ni \in Ni /\ Flash(flash, oob) /\ flash' = flash /\ oob' = oob
      /\ ni.to = "done" /\ ni.to \in Rest /\ On(ni) /\ Ram(ni, flash, oob)
      /\ Recorded(ni, flash, oob)
  BY DEF Completed, IInv, On, Rest, StoredInv
<1>2. SUFFICES On(m) => Recorded(m, flash, oob)
  BY <1>1 DEF StoredInv
<1>3. ni.lb \in Logic /\ Core(ni, flash, oob) /\ Ranges(ni) /\ ni.op \in Ops /\ m \in Ni
  <2>1. IInv'
    BY CompletedStep
  <2> QED
    BY <1>1, <2>1 DEF Ni, Ram, IInv
<1>4. Copies(ni, flash, oob) /\ Noted(ni) /\ Fails(ni)
  BY <1>1 DEF Recorded
<1>5. CASE UpdateAgain(ni)
  <2>1. m = UpdateOnce(ni)
    BY <1>5 DEF Completed
  <2>2. ni.dirty /\ ni.main # 0
    BY <1>1, <1>3, <1>5 DEF UpdateAgain, Ranges, Ni
  <2> HIDE DEF m
  <2>3. /\ m.map = ni.map /\ m.cache.map = ni.map
        /\ m.to = "backup" \/ (m.to = "main" /\ m.backup = 0)
    BY <1>1, <2>1, <2>2, UpdateOnceRam
  <2>4. \A b, c \in Live(flash, oob) : flash[b].map = flash[c].map
    BY <1>1, <1>4 DEF Copies
  <2>5. Copies(m, flash, oob)
    BY <2>3, <2>4 DEF Copies
  <2> QED
    BY <2>3, <2>5 DEF Recorded, Noted, Named, Fails
<1>6. CASE ~UpdateAgain(ni) /\ ni.op = "load"
  <2> DEFINE prot == (ni.mapBa = ni.top \/ ~ni.ok)
             k == [ni EXCEPT !.prot = prot]
  <2>1. m = Idle(k)
    BY <1>6 DEF Completed
  <2>2. prot \in BOOLEAN
    OBVIOUS
  <2> HIDE DEF prot, m
  <2>3. /\ k \in Ni /\ k.to = ni.to /\ k.prot = prot /\ k.map = ni.map /\ k.cache = ni.cache
        /\ k.op = ni.op /\ k.dirty = ni.dirty /\ k.ok = ni.ok /\ k.main = ni.main
        /\ k.backup = ni.backup
    BY <1>1, <2>2 DEF Ni
  <2> HIDE DEF k
  <2>4. Recorded(k, flash, oob) /\ Named(k)
    BY <1>1, <1>4, <1>6, <2>3 DEF Recorded, Copies, Noted, Named, Fails
  <2>5. Changes(k, m, ni.lb) /\ m.to = "idle" /\ m.op = "none" /\ m.map = k.map
    BY <1>3, <2>1, <2>3, SmallChanges, IdleFields DEF SameTables
  <2> QED
    BY <1>1, <1>3, <2>3, <2>4, <2>5, RestRecords DEF m
<1>7. CASE ~UpdateAgain(ni) /\ ni.op \in {"create", "created"} /\ ~ni.ok
  <2>1. m = [ni EXCEPT !.to = "failed"]
    BY <1>7 DEF Completed
  <2> QED
    BY <1>1, <2>1 DEF On, Ni
<1>8. CASE ~UpdateAgain(ni) /\ ni.op = "create" /\ ni.ok
  <2>1. m = MapMissing(ni)
    BY <1>8 DEF Completed
  <2>2. CASE ni.data < Mgmt /\ CanMap(ni)
    <3> DEFINE k == Mapped(ni, ni.data)
    <3>1. m = [k EXCEPT !.data = ni.data + 1]
      BY <2>1, <2>2 DEF MapMissing
    <3>2. ni.data \in Logic
      BY <1>1, <2>2, ConstTypes DEF Ni, Logic
    <3>3. SpareFor(ni) = ni.top
      BY <1>1, <1>8, <2>2 DEF TopSpareGood, Mapping
    <3>4. k \in Ni /\ k.to = ni.to /\ k.op = ni.op
      BY <1>1, <2>2, <3>2, <3>3, MappedRam
    <3>5. Changes(ni, k, ni.data) /\ k.dirty /\ k.ok = ni.ok
      BY <1>1, <3>2, SmallChanges DEF Mapped, Ni
    <3> HIDE DEF k, m
    <3>6. /\ m.to = k.to /\ m.op = k.op /\ m.dirty = k.dirty /\ m.ok = k.ok
          /\ m.map = k.map /\ m.cache = k.cache /\ m.lb = k.lb /\ m.prot = k.prot
      BY <3>1, <3>4 DEF Ni
    <3>7. Changes(ni, m, ni.data)
      BY <3>5, <3>6 DEF Changes
    <3> QED
      BY <1>1, <1>3, <1>8, <3>2, <3>4, <3>5, <3>6, <3>7, RestRecords DEF m
  <2>3. CASE ~(ni.data < Mgmt /\ CanMap(ni))
    <3> DEFINE op == IF ni.data = Mgmt \/ NoRoom(ni) THEN "created" ELSE "full"
    <3>1. m = Update(ni, op) /\ op \in Ops /\ op # "load"
      BY <2>1, <2>3 DEF MapMissing, Ops
    <3> HIDE DEF op, m
    <3>2. Changes(ni, m, ni.lb)
      BY <1>1, <1>3, <3>1, SmallChanges
    <3>3. m.to = "done" /\ m.ok /\ m.op = op
      BY <1>1, <3>1, UpdateFields
    <3> QED
      BY <1>1, <1>3, <3>1, <3>2, <3>3, RestRecords DEF m
  <2> QED
    BY <2>2, <2>3
<1>9. ~UpdateAgain(ni) /\ ni.op \notin {"load", "create"} => (~ni.prot => Named(ni))
  BY <1>1, <1>4 DEF UpdateAgain, Fails, Noted
<1>10. CASE ~UpdateAgain(ni) /\ ((ni.op = "created" /\ ni.ok) \/ ni.op = "none")
  <2>1. m = Idle(ni)
    BY <1>10 DEF Completed
  <2> HIDE DEF m
  <2>2. Changes(ni, m, ni.lb)
    BY <1>1, <1>3, <2>1, SmallChanges
  <2>3. m.to = "idle" /\ m.op = "none" /\ m.map = ni.map
    BY <1>1, <2>1, IdleFields DEF SameTables
  <2> QED
    BY <1>1, <1>3, <1>9, <1>10, <2>2, <2>3, RestRecords DEF m
<1>11. CASE ~UpdateAgain(ni) /\ ni.op = "erase"
  <2>1. m = [ni EXCEPT !.to = "erase"]
    BY <1>11 DEF Completed
  <2> HIDE DEF m
  <2>2. /\ m.to = "erase" /\ m.op = ni.op /\ m.map = ni.map /\ Changes(ni, m, ni.lb)
    BY <1>1, <2>1 DEF Ni, Changes
  <2> QED
    BY <1>1, <1>3, <1>9, <1>11, <2>2, RestRecords DEF m
<1>12. CASE ~UpdateAgain(ni) /\ ni.op \in {"lost", "full"}
  <2> DEFINE k == [ni EXCEPT !.top = ni.mapBa]
  <2>1. k \in Ni /\ k.map = ni.map /\ k.lb = ni.lb /\ k.pb = ni.pb
    BY <1>1, TopFalls
  <2>2. Changes(ni, k, ni.lb)
    BY <1>1, <1>3, SmallChanges
  <2>3. CASE ni.op = "full"
    <3>1. m = Idle(k)
      BY <1>12, <2>3 DEF Completed
    <3> HIDE DEF m, k
    <3>2. Changes(k, m, ni.lb)
      BY <1>3, <2>1, <3>1, SmallChanges
    <3>3. m.to = "idle" /\ m.op = "none" /\ m.map = ni.map
      BY <2>1, <3>1, IdleFields DEF SameTables
    <3>4. Changes(ni, m, ni.lb)
      BY <2>2, <3>2, ChangesTwice
    <3> QED
      BY <1>1, <1>3, <1>9, <1>12, <2>3, <3>3, <3>4, RestRecords DEF m
  <2>4. CASE ni.op = "lost"
    <3>1. m = Unusable(k)
      BY <1>12, <2>4 DEF Completed
    <3>2. ni.pb = ni.map[ni.lb] /\ ni.map[ni.lb] >= 0
      BY <2>4 DEF LostBlock
    <3> HIDE DEF m, k
    <3>3. k.pb \in Blocks
      BY <1>1, <1>3, <2>1, <3>2, MappedAbove
    <3>4. Changes(k, m, k.lb) /\ m.to = "done" /\ m.ok /\ m.op = "none"
      BY <2>1, <3>1, <3>3, UnusableChanges
    <3>5. Changes(ni, m, ni.lb)
      BY <2>1, <2>2, <3>4, ChangesTwice
    <3> QED
      BY <1>1, <1>3, <3>4, <3>5, RestRecords DEF m
  <2> QED
    BY <1>12, <2>3, <2>4
<1> QED
  BY <1>3, <1>5, <1>6, <1>7, <1>8, <1>10, <1>11, <1>12 DEF Ops

(* A spare block is a block, whichever it is.                                *)
LEMMA MappedType ==
  ASSUME NEW n \in Ni, NEW lb \in Logic, CanMap(n), n.top <= Sig
  PROVE  Mapped(n, lb) \in Ni
<1> DEFINE S == Good(n, n.mapBa + 1..n.top)
           x == SpareFor(n)
           y == n.top - 1
<1>1. n.top \in Nat /\ n.mapBa \in Nat /\ n.map \in Maps
  BY DEF Ni
<1>2. S \in SUBSET (0..n.top) /\ S # {}
  BY <1>1 DEF Good, CanMap
<1>3. x \in S
  BY <1>1, <1>2, MaxIs DEF SpareFor
<1>4. x \in n.mapBa + 1..n.top
  BY <1>3 DEF Good
<1>5. x \in Blocks /\ y \in Nat
  BY <1>1, <1>4, ConstTypes DEF Blocks
<1> HIDE DEF x, y
<1>6. [n EXCEPT !.map[lb] = x, !.top = y, !.dirty = TRUE] \in Ni
  BY <1>5 DEF Ni, Maps
<1> QED
  BY <1>6 DEF Mapped, Lowered, x, y

(* What EraseBlock does: only the block's own mapping changes, and the only  *)
(* block it may touch is the one it is mapped to.                            *)
LEMMA EraseBlockIs ==
  ASSUME IInv, EraseBlock
  PROVE  LET lb == ni.lb
             m == ni'
         IN  /\ On(ni) /\ ni.to = "erase" /\ lb \in Logic /\ Changes(ni, m, lb)
             /\ \/ m.to = "idle" /\ m.op = "none" /\ m.map = ni.map
                \/ m.to = "done" /\ m.ok /\ m.op \in {"erase", "none", "lost"}
             /\ \/ flash' = flash /\ oob' = oob
                \/ /\ ni.map[lb] >= 0 /\ flash'[ni.map[lb]].kind # "table"
                   /\ \A b \in Blocks \ {ni.map[lb]} : flash'[b] = flash[b]
                   /\ oob \subseteq oob' /\ oob' \subseteq oob \cup {ni.map[lb]}
<1> DEFINE lb == ni.lb
           pb == ni.map[lb]
           n == [ni EXCEPT !.pb = pb]
           k == SetState(n, pb, "bad")
           m == ni'
<1>1. /\ On(ni) /\ ni.to = "erase" /\ lb \in Logic /\ ni \in Ni /\ DOMAIN flash = Blocks
      /\ ni.top <= Sig /\ ni.mapBa \in Nat /\ ni.top \in Nat
      /\ Flash(flash, oob) /\ Core(ni, flash, oob)
  BY ConstTypes DEF EraseBlock, IInv, On, Ni, Flash, Ram, Core
<1>2. CASE m = Idle(ni)
  <2>1. m.to = "idle" /\ m.op = "none" /\ m.map = ni.map
    BY <1>1, <1>2, IdleFields DEF SameTables
  <2>2. Changes(ni, m, lb)
    BY <1>1, <1>2, SmallChanges
  <2>3. \/ flash' = flash /\ oob' = oob
        \/ pb >= 0 /\ flash' = [flash EXCEPT ![pb] = Erased] /\ oob' = oob
        \/ pb >= 0 /\ flash' = [flash EXCEPT ![pb] = Torn] /\ oob' = oob \cup {pb}
    BY DEF EraseBlock
  <2>4. pb >= 0 => pb \in Blocks
    BY <1>1, MappedAbove
  <2> HIDE DEF pb, lb, m
  <2>5. \/ flash' = flash /\ oob' = oob
        \/ /\ pb >= 0 /\ flash'[pb].kind # "table"
           /\ \A b \in Blocks \ {pb} : flash'[b] = flash[b]
           /\ oob \subseteq oob' /\ oob' \subseteq oob \cup {pb}
    BY <1>1, <2>3, <2>4, Contents
  <2> QED
    BY <1>1, <2>1, <2>2, <2>5 DEF pb, lb, m
<1>3. CASE m # Idle(ni)
  <2>1. /\ pb >= 0 /\ m \in {Remap(k), Remap(n)}
        /\ \/ flash' = flash /\ oob' = oob
           \/ flash' = [flash EXCEPT ![pb] = Torn] /\ oob' = oob \cup {pb}
    BY <1>3 DEF EraseBlock
  <2>2. pb \in Blocks
    BY <1>1, <2>1, MappedAbove
  <2> HIDE DEF pb
  <2>3. /\ n \in Ni /\ n.top = ni.top /\ n.lb = lb /\ n.pb = pb
    BY <1>1, <2>2, ConstTypes DEF Ni
  <2>4. Changes(ni, n, lb)
    BY <1>1, SmallChanges
  <2> HIDE DEF n
  <2>5. k \in Ni /\ k.top = ni.top /\ k.lb = lb /\ k.pb = pb
    <3>1. "bad" \in StKinds
      BY DEF StKinds
    <3> QED
      BY <2>2, <2>3, <3>1, SetStateFields
  <2>6. Changes(n, k, lb)
    BY <1>1, <2>3, SmallChanges
  <2>7. Changes(ni, k, lb)
    BY <2>4, <2>6, ChangesTwice
  <2> HIDE DEF k, m
  <2>8. PICK j \in {k, n} : m = Remap(j)
    BY <2>1
  <2>9. j \in Ni /\ j.top <= Sig /\ j.lb = lb /\ j.pb \in Blocks /\ Changes(ni, j, lb)
    BY <1>1, <2>2, <2>3, <2>4, <2>5, <2>7
  <2>10. CanMap(j) => Mapped(j, j.lb) \in Ni
    BY <1>1, <2>9, MappedType
  <2>11. Changes(j, m, lb) /\ m.to = "done" /\ m.ok /\ m.op \in {"erase", "none", "lost"}
    BY <2>8, <2>9, <2>10, RemapChanges
  <2>12. Changes(ni, m, lb)
    BY <2>9, <2>11, ChangesTwice
  <2>13. \/ flash' = flash /\ oob' = oob
         \/ /\ pb >= 0 /\ flash'[pb].kind # "table"
            /\ \A b \in Blocks \ {pb} : flash'[b] = flash[b]
            /\ oob \subseteq oob' /\ oob' \subseteq oob \cup {pb}
    BY <1>1, <2>1, <2>2, Contents
  <2> QED
    BY <1>1, <2>11, <2>12, <2>13 DEF pb, m
<1> QED
  BY <1>2, <1>3

(* Erasing or remapping a block keeps what the tables record.                *)
LEMMA EraseBlockRecords ==
  ASSUME IInv, TopSpareGood, StoredInv, EraseBlock
  PROVE  StoredInv'
<1> DEFINE lb == ni.lb
           m == ni'
<1>1. /\ On(ni) /\ ni.to = "erase" /\ lb \in Logic /\ Changes(ni, m, lb)
      /\ \/ m.to = "idle" /\ m.op = "none" /\ m.map = ni.map
         \/ m.to = "done" /\ m.ok /\ m.op \in {"erase", "none", "lost"}
      /\ \/ flash' = flash /\ oob' = oob
         \/ /\ ni.map[lb] >= 0 /\ flash'[ni.map[lb]].kind # "table"
            /\ \A b \in Blocks \ {ni.map[lb]} : flash'[b] = flash[b]
            /\ oob \subseteq oob' /\ oob' \subseteq oob \cup {ni.map[lb]}
  BY EraseBlockIs
<1>2. /\ Live(flash', oob') = Live(flash, oob)
      /\ \A b \in Live(flash, oob) : flash'[b] = flash[b]
  BY <1>1, Untouched
<1>3. m \in Ni /\ ni \in Ni
  <2>1. IInv'
    BY EraseBlockStep
  <2> QED
    BY <2>1 DEF IInv
<1>4. Recorded(ni, flash, oob)
  BY <1>1 DEF StoredInv
<1>5. ni.to \in Rest /\ (~ni.prot => Named(ni))
  BY <1>1, <1>4 DEF Recorded, Noted, Rest
<1> HIDE DEF m, lb
<1>6. Recorded(m, flash', oob')
  BY <1>1, <1>2, <1>3, <1>4, <1>5, RestRecords
<1> QED
  BY <1>6 DEF StoredInv, m

(* What WriteBlock does: the block stays mapped as it is, and only the block *)
(* it is mapped to is touched.                                               *)
LEMMA WriteBlockIs ==
  ASSUME IInv, NEW lb \in Logic, NEW v \in Vals, WriteBlock(lb, v)
  PROVE  LET m == ni'
             pb == ni.map[lb]
         IN  /\ On(ni) /\ ni.to = "idle" /\ pb >= 0 /\ pb \in Blocks /\ flash[pb] = Erased
             /\ ~ni.prot
             /\ \/ m = ni /\ flash' = [flash EXCEPT ![pb] = Data(lb, v)]
                   /\ acked' = [acked EXCEPT ![lb] = v]
                \/ /\ Changes(ni, m, lb) /\ m.map = ni.map /\ m.to = "done" /\ m.ok
                   /\ m.op = "none" /\ flash' = [flash EXCEPT ![pb] = Torn] /\ acked' = acked
             /\ DOMAIN flash = Blocks /\ flash'[pb].kind # "table"
             /\ \A b \in Blocks \ {pb} : flash'[b] = flash[b]
             /\ oob' = oob
<1> DEFINE pb == ni.map[lb]
           k == SetState(ni, pb, "remap")
           m == ni'
<1>1. /\ ni \in Ni /\ Flash(flash, oob) /\ DOMAIN flash = Blocks /\ ~ni.prot
      /\ ni.to = "idle" /\ On(ni) /\ oob' = oob
      /\ pb >= 0 /\ Core(ni, flash, oob) /\ flash[pb] = Erased
  BY DEF WriteBlock, Usual, IInv, On, Flash, Ram
<1>2. pb \in Blocks
  BY <1>1, MappedAbove
<1>3. \/ m = ni /\ flash' = [flash EXCEPT ![pb] = Data(lb, v)]
         /\ acked' = [acked EXCEPT ![lb] = v]
      \/ m = Update(k, "none") /\ flash' = [flash EXCEPT ![pb] = Torn] /\ acked' = acked
  BY DEF WriteBlock
<1> HIDE DEF pb
<1>4. /\ flash'[pb].kind # "table" /\ \A b \in Blocks \ {pb} : flash'[b] = flash[b]
  BY <1>1, <1>2, <1>3, Contents
<1>5. k \in Ni /\ k.map = ni.map
  <2>1. "remap" \in StKinds
    BY DEF StKinds
  <2> QED
    BY <1>1, <1>2, <2>1, SetStateFields
<1>6. Changes(ni, k, lb)
  BY <1>1, SmallChanges
<1> HIDE DEF k, m
<1>7. m = Update(k, "none") =>
        Changes(ni, m, lb) /\ m.map = ni.map /\ m.to = "done" /\ m.ok /\ m.op = "none"
  <2> SUFFICES ASSUME m = Update(k, "none")
               PROVE  Changes(ni, m, lb) /\ m.map = ni.map /\ m.to = "done" /\ m.ok
                      /\ m.op = "none"
    OBVIOUS
  <2>1. "none" \in Ops
    BY DEF Ops
  <2>2. m.map = ni.map /\ m.to = "done" /\ m.ok /\ m.op = "none"
    BY <1>5, <2>1, UpdateFields DEF SameTables
  <2>3. Changes(k, m, lb)
    BY <1>5, SmallChanges
  <2> QED
    BY <1>6, <2>2, <2>3, ChangesTwice
<1> QED
  BY <1>1, <1>2, <1>3, <1>4, <1>7 DEF pb, m

(* What MarkBad does: the block is mapped no longer.                         *)
LEMMA MarkBadIs ==
  ASSUME IInv, NEW lb \in Logic, MarkBad(lb)
  PROVE  LET m == ni'
             pb == ni.map[lb]
         IN  /\ On(ni) /\ ni.to = "idle" /\ pb >= 0 /\ Changes(ni, m, lb)
             /\ m.to = "done" /\ m.ok /\ m.op = "none"
             /\ flash' = flash /\ oob' = oob \cup {pb}
             /\ acked' = [acked EXCEPT ![lb] = None]
<1> DEFINE pb == ni.map[lb]
           n == [ni EXCEPT !.map[lb] = -1]
           k == SetState(n, pb, "bad")
           m == ni'
<1>1. /\ ni \in Ni /\ Flash(flash, oob) /\ ni.to = "idle" /\ On(ni) /\ pb >= 0
      /\ Core(ni, flash, oob) /\ m = Update(k, "none")
      /\ flash' = flash /\ oob' = oob \cup {pb} /\ acked' = [acked EXCEPT ![lb] = None]
  BY DEF MarkBad, Usual, IInv, On, Ram
<1>2. pb \in Blocks
  BY <1>1, MappedAbove
<1> HIDE DEF pb, m
<1>3. n \in Ni /\ Changes(ni, n, lb)
  <2>1. n \in Ni
    BY <1>1 DEF Ni, Maps
  <2>2. Changes(ni, n, lb)
    BY <1>1, SmallChanges
  <2> QED
    BY <2>1, <2>2
<1> HIDE DEF n
<1>4. k \in Ni
  <2>1. "bad" \in StKinds
    BY DEF StKinds
  <2> QED
    BY <1>2, <1>3, <2>1, SetStateFields
<1>5. Changes(n, k, lb)
  BY <1>3, SmallChanges
<1> HIDE DEF k
<1>6. m.to = "done" /\ m.ok /\ m.op = "none"
  <2>1. "none" \in Ops
    BY DEF Ops
  <2> QED
    BY <1>1, <1>4, <2>1, UpdateFields
<1>7. Changes(k, m, lb)
  BY <1>1, <1>4, SmallChanges
<1>8. Changes(ni, m, lb)
  BY <1>3, <1>5, <1>7, ChangesTwice
<1> QED
  BY <1>1, <1>6, <1>8 DEF pb, m

(* The operations of the layer above keep what the tables record.            *)
LEMMA UserRecords ==
  ASSUME IInv, StoredInv, LostBlock(ni), NEW lb \in Logic,
         StartErase(lb) \/ MarkBad(lb) \/ \E v \in Vals : WriteBlock(lb, v)
  PROVE  StoredInv'
<1>1. ni' \in Ni /\ ni \in Ni
  <2>1. IInv'
    BY StartEraseStep, MarkBadStep, WriteBlockStep
  <2> QED
    BY <2>1 DEF IInv
<1>2. CASE StartErase(lb)
  <2> DEFINE m == ni'
  <2>1. /\ m = [ni EXCEPT !.to = "erase", !.lb = lb] /\ flash' = flash /\ oob' = oob
        /\ ni.to = "idle" /\ On(ni) /\ ~ni.prot
    BY <1>2 DEF StartErase, Usual, On
  <2> HIDE DEF m
  <2>2. /\ m.to = "erase" /\ m.map = ni.map /\ m.cache = ni.cache /\ m.op = ni.op
        /\ m.dirty = ni.dirty /\ m.prot = ni.prot /\ m.main = ni.main /\ m.backup = ni.backup
    BY <1>1, <2>1 DEF Ni
  <2>3. Recorded(ni, flash, oob)
    BY <2>1 DEF StoredInv
  <2>4. Copies(m, flash, oob) /\ Fails(m)
    BY <2>1, <2>2, <2>3 DEF Recorded, Copies, Fails
  <2>5. Noted(m)
    BY <2>1, <2>2, <2>3 DEF Recorded, Noted, Named, Writes, Wipes
  <2> QED
    BY <2>1, <2>4, <2>5 DEF StoredInv, Recorded, m
<1>3. CASE MarkBad(lb)
  <2> DEFINE m == ni'
  <2>1. /\ On(ni) /\ ni.to = "idle" /\ ni.map[lb] >= 0 /\ Changes(ni, m, lb)
        /\ m.to = "done" /\ m.ok /\ m.op = "none"
        /\ flash' = flash /\ oob' = oob \cup {ni.map[lb]}
    BY <1>3, MarkBadIs
  <2>2. /\ Live(flash', oob') = Live(flash, oob)
        /\ \A b \in Live(flash, oob) : flash'[b] = flash[b]
    BY <2>1, Untouched
  <2> HIDE DEF m
  <2>3. Recorded(m, flash', oob')
    BY <1>1, <2>1, <2>2, RestRecords DEF StoredInv, Rest, m
  <2> QED
    BY <2>3 DEF StoredInv, m
<1>4. ASSUME NEW v \in Vals, WriteBlock(lb, v)
      PROVE  StoredInv'
  <2> DEFINE m == ni'
             pb == ni.map[lb]
  <2>1. /\ On(ni) /\ ni.to = "idle" /\ pb >= 0
        /\ \/ m = ni
           \/ Changes(ni, m, lb) /\ m.to = "done" /\ m.ok /\ m.op = "none"
        /\ flash'[pb].kind # "table" /\ \A b \in Blocks \ {pb} : flash'[b] = flash[b]
        /\ oob' = oob
    BY <1>4, WriteBlockIs
  <2>2. /\ Live(flash', oob') = Live(flash, oob)
        /\ \A b \in Live(flash, oob) : flash'[b] = flash[b]
    BY <2>1, Untouched
  <2> HIDE DEF m, pb
  <2>3. Recorded(ni, flash, oob) /\ ni.to \in Rest
    BY <2>1 DEF StoredInv, Rest
  <2>4. CASE m = ni
    <3>1. Copies(m, flash', oob')
      BY <2>1, <2>2, <2>3, <2>4 DEF Recorded, Copies
    <3> QED
      BY <2>3, <2>4, <3>1 DEF StoredInv, Recorded, m
  <2>5. CASE m # ni
    <3>1. Recorded(m, flash', oob')
      BY <1>1, <2>1, <2>2, <2>3, <2>5, RestRecords DEF m
    <3> QED
      BY <3>1 DEF StoredInv, m
  <2> QED
    BY <2>4, <2>5
<1> QED
  BY <1>2, <1>3, <1>4

(* So does detaching.                                                        *)
LEMMA DetachRecords ==
  ASSUME IInv, StoredInv, Detach
  PROVE  StoredInv'
<1> DEFINE m == ni'
<1>1. /\ ni \in Ni /\ ni.to = "idle" /\ On(ni) /\ flash' = flash /\ oob' = oob
      /\ m = Update(ni, "none") /\ "none" \in Ops /\ ni.lb \in Logic
  BY DEF Detach, IInv, On, Ops, Ni
<1> HIDE DEF m
<1>2. m \in Ni /\ m.to = "done" /\ m.ok /\ m.op = "none"
  BY <1>1, UpdateFields
<1>3. Changes(ni, m, ni.lb)
  BY <1>1, SmallChanges
<1>4. Recorded(m, flash', oob')
  BY <1>1, <1>2, <1>3, RestRecords DEF StoredInv, Rest
<1> QED
  BY <1>4 DEF StoredInv, m

(* Every step from a state in which the topmost spare block is good keeps    *)
(* what the tables record.                                                   *)
LEMMA StoredStep ==
  ASSUME IInv, LostBlock(ni), TopSpareGood, StoredInv, [Next]_vars
  PROVE  StoredInv'
<1>1. CASE BlockWritten \/ BlockWiped \/ BlockFails \/ NoBlockLeft
  BY <1>1, WritersRecord
<1>2. CASE PowerLoss
  BY <1>2 DEF PowerLoss, Detached, StoredInv, On
<1>3. CASE UNCHANGED vars
  BY <1>3 DEF vars, StoredInv
<1>4. CASE \E lb \in Logic : StartErase(lb) \/ MarkBad(lb) \/ \E v \in Vals : WriteBlock(lb, v)
  BY <1>4, UserRecords
<1> QED
  BY <1>1, <1>2, <1>3, <1>4, AttachRecords, CompletedRecords, EraseBlockRecords, DetachRecords
     DEF Next, Steps

FoundNewest ==
  Flash(flash, oob) => \A b \in Live(flash, oob) :
    (\A c \in Live(flash, oob) : flash[c].wc <= flash[b].wc) =>
      Tables # {} /\ Stored = flash[b].map

(* The mapping of any newest table is the one an attachment finds.           *)
LEMMA StoredAt == FoundNewest
<1> SUFFICES ASSUME Flash(flash, oob), NEW b \in Live(flash, oob),
                    \A c \in Live(flash, oob) : flash[c].wc <= flash[b].wc
             PROVE  Tables # {} /\ Stored = flash[b].map
  BY DEF FoundNewest
<1>1. Tables = Live(flash, oob)
  BY TablesLive
<1>2. Newest \in Live(flash, oob)
      /\ \A c \in Live(flash, oob) : flash[c].wc <= flash[Newest].wc
  BY NewestIs
<1>3. \A c \in Live(flash, oob) : flash[c].wc \in Nat
  BY DEF Flash, TablesLoadable, Saved
<1>4. flash[Newest].wc = flash[b].wc
  BY <1>2, <1>3
<1>5. flash[Newest].map = flash[b].map
  BY <1>2, <1>4 DEF Flash, SameAge
<1> QED
  BY <1>1, <1>5 DEF Stored

(* There is one as soon as there is a live table.                            *)
LEMMA OneIsNewest ==
  ASSUME NEW f, NEW o, Flash(f, o), Live(f, o) # {}
  PROVE  \E b \in Live(f, o) : \A c \in Live(f, o) : f[c].wc <= f[b].wc
<1> DEFINE L == Live(f, o)
<1>1. \A b \in L : f[b].wc \in Nat /\ b \in Nat
  BY ConstTypes DEF Flash, TablesLoadable, Saved, Live
<1>2. PICK x \in L : TRUE
  OBVIOUS
<1>3. CASE L = {x}
  BY <1>1, <1>3
<1>4. CASE L # {x}
  <2>1. PICK y \in L : y # x
    BY <1>2, <1>4
  <2>2. \A d \in L : d = x \/ d = y
    <3>1. x < y \/ y < x
      BY <1>1, <2>1
    <3> QED
      BY <3>1 DEF Flash, AtMostTwo
  <2>3. f[x].wc <= f[y].wc \/ f[y].wc <= f[x].wc
    BY <1>1
  <2> QED
    BY <1>1, <2>2, <2>3
<1> QED
  BY <1>3, <1>4

(* At rest and with nothing noted the flash records every mapping in use, if *)
(* no bad block is passed over when a spare one is taken.                    *)
THEOREM FlashRecordsMapping == Spec /\ []TopSpareGood => []StoredIsCurrent
<1>1. Init => IInv /\ LostBlock(ni) /\ StoredInv
  BY InitStep DEF Init, Detached, LostBlock, StoredInv, On
<1>2. IInv /\ LostBlock(ni) /\ StoredInv /\ TopSpareGood /\ [Next]_vars
        => (IInv /\ LostBlock(ni) /\ StoredInv)'
  BY IInvStep, StoredStep
<1>3. IInv /\ StoredInv => StoredIsCurrent
  <2> SUFFICES ASSUME IInv, StoredInv, ni.to = "idle", ~ni.prot, ~ni.dirty,
                      NEW lb \in Logic, ni.map[lb] >= 0
               PROVE  Stored[lb] = ni.map[lb]
    BY DEF StoredIsCurrent
  <2>1. Recorded(ni, flash, oob) /\ Ram(ni, flash, oob) /\ Flash(flash, oob) /\ ni \in Ni
    BY DEF StoredInv, IInv, On
  <2>2. ni.main # 0
    BY <2>1 DEF Ram, Ranges, Rest
  <2>3. Live(flash, oob) # {}
    BY <2>1, <2>2 DEF Ram, Held, Rest
  <2>4. PICK b \in Live(flash, oob) : \A c \in Live(flash, oob) : flash[c].wc <= flash[b].wc
    BY <2>1, <2>3, OneIsNewest
  <2>5. Stored = flash[b].map
    BY <2>1, <2>4, StoredAt DEF FoundNewest
  <2>6. flash[b].map = ni.cache.map
    BY <2>1 DEF Recorded, Copies
  <2>7. ni.cache.map[lb] = ni.map[lb]
    BY <2>1 DEF Recorded, Noted, Named
  <2> QED
    BY <2>5, <2>6, <2>7
<1> QED
  BY <1>1, <1>2, <1>3, PTL DEF Spec

----------------------------------------------------------------------------
(* What the next attach finds                                                *)

Rolls == Tables # {} => Tables' # {} /\ (Stored' # Stored => Stored' = ni.cache.map)

(* A newest table of the next state gives its mapping.                       *)
LEMMA StoredNext ==
  ASSUME IInv', NEW x \in Live(flash', oob'),
         \A c \in Live(flash', oob') : flash'[c].wc <= flash'[x].wc
  PROVE  Tables' # {} /\ Stored' = flash'[x].map
<1>1. FoundNewest'
  BY StoredAt, PTL
<1> QED
  BY <1>1 DEF FoundNewest, IInv

(* Tables that stay are found as before.                                     *)
LEMMA TablesStay ==
  ASSUME IInv, IInv', Live(flash', oob') = Live(flash, oob),
         \A b \in Live(flash, oob) : flash'[b] = flash[b]
  PROVE  Rolls
<1> SUFFICES ASSUME Tables # {}
             PROVE  Tables' # {} /\ Stored' = Stored
  BY DEF Rolls
<1>1. Flash(flash, oob)
  BY DEF IInv
<1>2. Live(flash, oob) # {}
  BY <1>1, TablesLive
<1>3. PICK b \in Live(flash, oob) : \A c \in Live(flash, oob) : flash[c].wc <= flash[b].wc
  BY <1>1, <1>2, OneIsNewest
<1>4. Stored = flash[b].map
  BY <1>1, <1>3, StoredAt DEF FoundNewest
<1>5. Tables' # {} /\ Stored' = flash'[b].map
  BY <1>3, StoredNext
<1> QED
  BY <1>3, <1>4, <1>5

(* A hit on the block a writer works on loses no table, or one that another  *)
(* stands for.                                                               *)
LEMMA HitRolls ==
  ASSUME IInv, IInv', StoredInv, NotAlone, On(ni), ni.to \in Writes \cup Wipes,
         NEW c, Hits(c)
  PROVE  Rolls
<1> DEFINE L == Live(flash, oob)
           K == Live(flash', oob')
<1>1. K = L \ {c} /\ \A b \in K : flash'[b] = flash[b]
  BY HitLeft
<1>2. /\ ni \in Ni /\ Core(ni, flash, oob) /\ Ranges(ni) /\ Held(ni, L)
      /\ Flash(flash, oob) /\ Copies(ni, flash, oob)
  BY DEF IInv, Ram, StoredInv, Recorded
<1>3. c \in ni.at..ni.limit - 1
  BY DEF Hits
<1>4. Held(ni, L \ {c})
  BY <1>2, <1>3, HeldKept
<1>5. CASE c \notin L
  BY <1>1, <1>5, TablesStay
<1>6. CASE c \in L
  <2>1. ni.to \in {"backup", "oneBackup", "main", "oneMain", "wipeBehind", "temp", "rescued"}
    BY <1>2, <1>4, <1>6 DEF Held, Writes, Wipes
  <2>2. L \ {c} # {}
    BY <1>2, <1>4, <2>1 DEF Held, Ranges, NotAlone
  <2>3. Flash(flash', oob')
    BY DEF IInv
  <2>4. PICK b \in K : \A d \in K : flash'[d].wc <= flash'[b].wc
    BY <1>1, <2>2, <2>3, OneIsNewest
  <2>5. Tables' # {} /\ Stored' = flash'[b].map
    BY <2>4, StoredNext
  <2>6. b \in L /\ b # c /\ flash'[b] = flash[b]
    BY <1>1, <2>4
  <2>7. CASE ni.to = "backup"
    <3>1. PICK x \in L : \A d \in L : flash[d].wc <= flash[x].wc
      BY <1>2, <1>6, OneIsNewest
    <3>2. Stored = flash[x].map
      BY <1>2, <3>1, StoredAt DEF FoundNewest
    <3>3. flash[x].map = flash[b].map
      BY <1>2, <2>6, <2>7, <3>1 DEF Copies
    <3> QED
      BY <2>5, <2>6, <3>2, <3>3 DEF Rolls
  <2>8. CASE ni.to \in {"main", "oneMain"}
    <3>1. ni.backup # 0 /\ ni.backup \in L \ {c} /\ L \subseteq {ni.main, ni.backup}
      BY <1>2, <1>4, <2>8 DEF Held, Ranges, NotAlone
    <3>2. c = ni.main /\ b = ni.backup
      BY <1>6, <2>6, <3>1
    <3> QED
      BY <1>2, <2>5, <2>6, <2>8, <3>1, <3>2 DEF Rolls, Copies
  <2>9. CASE ni.to = "oneBackup"
    <3>1. ni.main \in L \ {c} /\ L \subseteq {ni.main, ni.backup}
      BY <1>2, <1>4, <2>9 DEF Held
    <3>2. b = ni.main
      BY <1>6, <2>6, <3>1
    <3> QED
      BY <1>2, <2>5, <2>6, <2>9, <3>2 DEF Rolls, Copies
  <2>10. CASE ni.to \in {"wipeBehind", "temp", "rescued"}
    BY <1>2, <2>5, <2>6, <2>10 DEF Rolls, Copies
  <2> QED
    BY <2>1, <2>7, <2>8, <2>9, <2>10
<1> QED
  BY <1>5, <1>6

(* What a power loss does to the flash: nothing, a hit on the block of a     *)
(* writer, or one on a block in use.                                         *)
LEMMA PowerLossIs ==
  ASSUME IInv, PowerLoss
  PROVE  /\ ni' = Detached /\ oob' = oob /\ acked' = acked
         /\ DOMAIN flash' = Blocks
         /\ \/ \A b \in Blocks : flash'[b] = flash[b]
            \/ /\ On(ni) /\ ni.to \in Writes \cup Wipes /\ Usable # {}
               /\ Hits(Min(Usable))
            \/ /\ On(ni) /\ ni.to = "erase" /\ ni.map[ni.lb] >= 0
               /\ flash'[ni.map[ni.lb]] = Torn
               /\ \A b \in Blocks \ {ni.map[ni.lb]} : flash'[b] = flash[b]
<1> DEFINE busy == ni.to \in Writes \cup Wipes /\ Usable # {}
           erasing == ni.to = "erase" /\ ni.map[ni.lb] >= 0
           c == IF busy THEN Min(Usable) ELSE ni.map[ni.lb]
           hit == IF busy THEN {Min(Usable)} ELSE IF erasing THEN {ni.map[ni.lb]} ELSE {}
<1>1. ni' = Detached /\ oob' = oob /\ acked' = acked
  BY DEF PowerLoss
<1>2. \E T \in {{}, hit} : flash' = [b \in Blocks |-> IF b \in T THEN Torn ELSE flash[b]]
  BY DEF PowerLoss
<1>3. hit = IF busy \/ erasing THEN {c} ELSE {}
  OBVIOUS
<1>4. ~(busy /\ erasing) /\ (busy \/ erasing => On(ni))
  BY DEF On, Writes, Wipes
<1>5. busy => c = Min(Usable) /\ c \in ni.at..ni.limit - 1 /\ c \in Blocks
  BY <1>4, UsableIs
<1>6. erasing => c = ni.map[ni.lb] /\ c \in Blocks
  <2> SUFFICES ASSUME erasing
               PROVE  c = ni.map[ni.lb] /\ c \in Blocks
    OBVIOUS
  <2>1. c = ni.map[ni.lb] /\ ni \in Ni /\ ni.lb \in Logic /\ ni.map[ni.lb] >= 0
    BY <1>4 DEF IInv, Ni
  <2>2. Flash(flash, oob) /\ Core(ni, flash, oob)
    BY <1>4 DEF IInv, Ram
  <2> HIDE DEF c
  <2> QED
    BY <2>1, <2>2, MappedAbove
<1> HIDE DEF hit, c
<1>7. DOMAIN flash' = Blocks
  BY <1>2
<1>8. CASE \A b \in Blocks : flash'[b] = flash[b]
  BY <1>1, <1>7, <1>8
<1>9. CASE ~\A b \in Blocks : flash'[b] = flash[b]
  <2>1. busy \/ erasing
    BY <1>2, <1>3, <1>9
  <2>2. c \in Blocks
    BY <1>5, <1>6, <2>1
  <2>3. flash' = [b \in Blocks |-> IF b \in {c} THEN Torn ELSE flash[b]]
    BY <1>2, <1>3, <1>9, <2>1
  <2>4. flash'[c] = Torn /\ \A b \in Blocks \ {c} : flash'[b] = flash[b]
    BY <2>2, <2>3
  <2>5. CASE busy
    <3>1. Hits(c)
      BY <1>1, <1>5, <1>7, <2>4, <2>5, Contents DEF Hits
    <3> QED
      BY <1>1, <1>4, <1>5, <1>7, <2>5, <3>1
  <2>6. CASE erasing
    BY <1>1, <1>4, <1>6, <1>7, <2>4, <2>6
  <2> QED
    BY <2>1, <2>5, <2>6
<1> QED
  BY <1>8, <1>9

(* Every step but a table's writing leaves the tables, or hits one that      *)
(* another stands for.                                                       *)
LEMMA RollStep ==
  ASSUME IInv, IInv', StoredInv, NotAlone, [Next]_vars
  PROVE  Rolls
<1>1. CASE BlockWritten
  <2> DEFINE c == Min(Usable)
             n == Passed(c)
  <2>1. /\ flash' = [flash EXCEPT ![c] = ni.cache] /\ oob' = oob
        /\ ni.to \in Writes /\ Usable # {} /\ On(ni) /\ ni \in Ni
    BY <1>1 DEF BlockWritten, IInv, On, Writes
  <2>2. c \in Int
    BY <2>1, UsableIs, ConstTypes
  <2>3. WritesAt(n, flash, oob, c, flash')
    BY <1>1, WrittenAt
  <2>4. n.wc = ni.wc /\ n.cache = ni.cache
    BY <2>1, <2>2, PassedSame
  <2> HIDE DEF n, c
  <2>5. Core(n, flash', oob) /\ c \in Live(flash', oob) /\ flash'[c] = ni.cache
    BY <2>3, <2>4, WriteTables DEF WritesAt
  <2>6. \A b \in Live(flash', oob') : flash'[b].wc <= flash'[c].wc
    BY <2>1, <2>4, <2>5 DEF Core
  <2>7. Tables' # {} /\ Stored' = ni.cache.map
    BY <2>1, <2>5, <2>6, StoredNext
  <2> QED
    BY <2>7 DEF Rolls
<1>2. CASE BlockFails \/ BlockWiped
  <2>1. On(ni) /\ ni.to \in Writes \cup Wipes /\ Hits(Min(Usable))
    BY <1>2, HitIs
  <2> QED
    BY <2>1, HitRolls
<1>3. CASE PowerLoss
  <2>1. oob' = oob /\ DOMAIN flash' = Blocks
    BY <1>3, PowerLossIs
  <2>2. CASE \A b \in Blocks : flash'[b] = flash[b]
    <3>1. /\ Live(flash', oob') = Live(flash, oob)
          /\ \A b \in Live(flash, oob) : flash'[b] = flash[b]
      BY <2>1, <2>2 DEF Live
    <3> QED
      BY <3>1, TablesStay
  <2>3. CASE On(ni) /\ ni.to \in Writes \cup Wipes /\ Hits(Min(Usable))
    BY <2>3, HitRolls
  <2>4. CASE /\ On(ni) /\ ni.to = "erase" /\ ni.map[ni.lb] >= 0
             /\ flash'[ni.map[ni.lb]] = Torn
             /\ \A b \in Blocks \ {ni.map[ni.lb]} : flash'[b] = flash[b]
    <3>1. ni.lb \in Logic
      BY DEF IInv, Ni
    <3>2. flash'[ni.map[ni.lb]].kind # "table"
      BY <2>4, Contents
    <3>3. /\ Live(flash', oob') = Live(flash, oob)
          /\ \A b \in Live(flash, oob) : flash'[b] = flash[b]
      BY <2>1, <2>4, <3>1, <3>2, Untouched
    <3> QED
      BY <3>3, TablesStay
  <2> QED
    BY <1>3, <2>2, <2>3, <2>4, PowerLossIs
<1>4. CASE NoBlockLeft \/ Attach \/ Completed \/ Detach \/ UNCHANGED vars
           \/ \E lb \in Logic : StartErase(lb)
  <2>1. flash' = flash /\ oob' = oob
    BY <1>4 DEF NoBlockLeft, Attach, Completed, Detach, vars, StartErase
  <2> QED
    BY <2>1, TablesStay
<1>5. CASE EraseBlock
  <2>1. /\ On(ni) /\ ni.lb \in Logic
        /\ \/ flash' = flash /\ oob' = oob
           \/ /\ ni.map[ni.lb] >= 0 /\ flash'[ni.map[ni.lb]].kind # "table"
              /\ \A b \in Blocks \ {ni.map[ni.lb]} : flash'[b] = flash[b]
              /\ oob \subseteq oob' /\ oob' \subseteq oob \cup {ni.map[ni.lb]}
    BY <1>5, EraseBlockIs
  <2>2. /\ Live(flash', oob') = Live(flash, oob)
        /\ \A b \in Live(flash, oob) : flash'[b] = flash[b]
    BY <2>1, Untouched
  <2> QED
    BY <2>2, TablesStay
<1>6. ASSUME NEW lb \in Logic, MarkBad(lb)
      PROVE  Rolls
  <2>1. On(ni) /\ ni.map[lb] >= 0 /\ flash' = flash /\ oob' = oob \cup {ni.map[lb]}
    BY <1>6, MarkBadIs
  <2>2. /\ Live(flash', oob') = Live(flash, oob)
        /\ \A b \in Live(flash, oob) : flash'[b] = flash[b]
    BY <2>1, Untouched
  <2> QED
    BY <2>2, TablesStay
<1>7. ASSUME NEW lb \in Logic, NEW v \in Vals, WriteBlock(lb, v)
      PROVE  Rolls
  <2>1. /\ On(ni) /\ ni.map[lb] >= 0 /\ flash'[ni.map[lb]].kind # "table"
        /\ \A b \in Blocks \ {ni.map[lb]} : flash'[b] = flash[b]
        /\ oob' = oob
    BY <1>7, WriteBlockIs
  <2>2. /\ Live(flash', oob') = Live(flash, oob)
        /\ \A b \in Live(flash, oob) : flash'[b] = flash[b]
    BY <2>1, Untouched
  <2> QED
    BY <2>2, TablesStay
<1> QED
  BY <1>1, <1>2, <1>3, <1>4, <1>5, <1>6, <1>7 DEF Next, Steps

(* What the next attach finds changes only to the table being written,       *)
(* whatever fails and whenever power is lost, if no bad block is passed over *)
(* and the main table is not written in place while there is no backup.      *)
THEOREM MappingNeverRollsBack ==
  Spec /\ []TopSpareGood /\ []NotAlone => NeverRollsBack
<1>1. Init => IInv /\ LostBlock(ni) /\ StoredInv
  BY InitStep DEF Init, Detached, LostBlock, StoredInv, On
<1>2. IInv /\ LostBlock(ni) /\ StoredInv /\ TopSpareGood /\ [Next]_vars
        => (IInv /\ LostBlock(ni) /\ StoredInv)'
  BY IInvStep, StoredStep
<1>3. IInv /\ IInv' /\ StoredInv /\ NotAlone /\ [Next]_vars
        => [Tables # {} => Tables' # {} /\ (Stored' # Stored => Stored' = ni.cache.map)]_vars
  BY RollStep DEF Rolls
<1> QED
  BY <1>1, <1>2, <1>3, PTL DEF Spec, NeverRollsBack

----------------------------------------------------------------------------
(* What was written                                                          *)

\* Block p holds what lb was written with, and every table and the instance say
\* so.
DataAt(lb, p) ==
  /\ flash[p] = Data(lb, acked[lb])
  /\ \A b \in Live(flash, oob) : flash[b].map[lb] = p
  /\ On(ni) => ni.map[lb] = p /\ ni.cache.map[lb] = p

Holds(lb) == acked[lb] # None => Live(flash, oob) # {} /\ \E p \in Blocks : DataAt(lb, p)

\* Nothing was written before the tables are created, nor is the block written
\* that is being erased.
NotYet ==
  /\ On(ni) /\ ni.op = "create" => \A lb \in Logic : acked[lb] = None
  /\ On(ni) /\ (ni.to = "erase" \/ ni.op \in {"erase", "lost"}) => acked[ni.lb] = None

DataInv ==
  /\ acked \in [Logic -> Vals \cup {None}]
  /\ NotYet
  /\ \A lb \in Logic : Holds(lb)

FoundAll == Flash(flash, oob) => Tables = Live(flash, oob)

(* The search finds every live table.                                        *)
LEMMA FoundAlways == FoundAll
BY TablesLive DEF FoundAll

(* As long as there was a table there is one.                                *)
LEMMA LivesOn ==
  ASSUME IInv, IInv', StoredInv, NotAlone, [Next]_vars, Live(flash, oob) # {}
  PROVE  Live(flash', oob') # {}
<1>1. Tables # {}
  BY TablesLive DEF IInv
<1>2. Tables' # {}
  BY <1>1, RollStep DEF Rolls
<1>3. FoundAll'
  BY FoundAlways, PTL
<1> QED
  BY <1>2, <1>3 DEF FoundAll, IInv

(* A block in use serves one logic block and is none a table writer tries.   *)
LEMMA DataBlock ==
  ASSUME IInv, On(ni), NEW lb \in Logic, NEW p \in Blocks, DataAt(lb, p)
  PROVE  /\ p = ni.map[lb] /\ p >= 0 /\ p \notin Mgmt..ni.top
         /\ \A l \in Logic \ {lb} : ni.map[l] # p
<1>1. p = ni.map[lb] /\ p >= 0
  BY ConstTypes DEF DataAt
<1>2. /\ Core(ni, flash, oob) /\ Flash(flash, oob) /\ ni \in Ni
  BY DEF IInv, Ram
<1>3. p \notin Mgmt..ni.top
  BY <1>1, <1>2, MappedAbove
<1>4. \A l \in Logic \ {lb} : ni.map[l] # p
  BY <1>1, <1>2 DEF Core, Placed, OneToOne
<1> QED
  BY <1>1, <1>3, <1>4

\* What a step must leave of a block that was written
Keeps(lb, p) ==
  /\ acked'[lb] = acked[lb]
  /\ flash'[p] = flash[p]
  /\ \A b \in Live(flash', oob') :
       (b \in Live(flash, oob) /\ flash'[b] = flash[b]) \/ flash'[b].map[lb] = p
  /\ On(ni') => ni'.map[lb] = p /\ ni'.cache.map[lb] = p

(* Then it stays written.                                                    *)
LEMMA HoldsOn ==
  ASSUME NEW lb \in Logic, Holds(lb), acked'[lb] # None => acked[lb] # None,
         Live(flash, oob) # {} => Live(flash', oob') # {},
         \A p \in Blocks : acked'[lb] # None /\ DataAt(lb, p) => Keeps(lb, p)
  PROVE  Holds(lb)'
<1> SUFFICES ASSUME acked'[lb] # None
             PROVE  Live(flash', oob') # {} /\ \E p \in Blocks : DataAt(lb, p)'
  BY DEF Holds
<1>1. PICK p \in Blocks : DataAt(lb, p)
  BY DEF Holds
<1>2. Keeps(lb, p)
  BY <1>1
<1>3. flash'[p] = Data(lb, acked'[lb])
  BY <1>1, <1>2 DEF Keeps, DataAt
<1>4. \A b \in Live(flash', oob') : flash'[b].map[lb] = p
  BY <1>1, <1>2 DEF Keeps, DataAt
<1>5. DataAt(lb, p)'
  BY <1>2, <1>3, <1>4 DEF Keeps, DataAt
<1>6. Live(flash', oob') # {}
  BY DEF Holds
<1> QED
  BY <1>5, <1>6

(* The table writers leave it.                                               *)
LEMMA WritersData ==
  ASSUME IInv, NEW lb \in Logic, NEW p \in Blocks, DataAt(lb, p),
         BlockWritten \/ BlockWiped \/ BlockFails \/ NoBlockLeft
  PROVE  Keeps(lb, p)
<1>1. /\ On(ni) /\ ni.to \in Writes \cup Wipes /\ acked' = acked
      /\ ni.top \in Nat /\ DOMAIN flash = Blocks
  BY DEF BlockWritten, BlockWiped, BlockFails, NoBlockLeft, On, Writes, Wipes, IInv, Ni, Flash
<1>2. ni'.map = ni.map /\ ni'.cache = ni.cache
  BY WritersKeep DEF Kept
<1>3. p \notin Mgmt..ni.top /\ ni.map[lb] = p /\ ni.cache.map[lb] = p
  BY <1>1, DataBlock DEF DataAt
<1>4. Usable # {} => Min(Usable) # p
  BY <1>1, <1>3, UsableIs
<1>5. CASE BlockWritten
  <2> DEFINE c == Min(Usable)
  <2>1. flash' = [flash EXCEPT ![c] = ni.cache] /\ oob' = oob /\ c # p
    BY <1>4, <1>5 DEF BlockWritten
  <2> HIDE DEF c
  <2>2. flash'[p] = flash[p] /\ \A b \in Blocks \ {c} : flash'[b] = flash[b]
    BY <1>1, <2>1
  <2>3. ASSUME NEW b \in Live(flash', oob')
        PROVE  (b \in Live(flash, oob) /\ flash'[b] = flash[b]) \/ flash'[b].map[lb] = p
    BY <1>1, <1>3, <2>1, <2>2 DEF Live
  <2> QED
    BY <1>1, <1>2, <1>3, <2>2, <2>3 DEF Keeps
<1>6. CASE BlockFails \/ BlockWiped
  <2>1. Hits(Min(Usable)) /\ Usable # {}
    BY <1>6, HitIs
  <2>2. flash'[p] = flash[p]
    BY <1>4, <2>1 DEF Hits
  <2>3. \A b \in Live(flash', oob') : b \in Live(flash, oob) /\ flash'[b] = flash[b]
    BY <2>1, HitLeft
  <2> QED
    BY <1>1, <1>2, <1>3, <2>2, <2>3 DEF Keeps
<1>7. CASE NoBlockLeft
  <2>1. flash' = flash /\ oob' = oob
    BY <1>7 DEF NoBlockLeft
  <2> QED
    BY <1>1, <1>2, <1>3, <2>1 DEF Keeps
<1> QED
  BY <1>5, <1>6, <1>7

(* So does a power loss.                                                     *)
LEMMA PowerLossData ==
  ASSUME IInv, DataInv, NEW lb \in Logic, acked[lb] # None, NEW p \in Blocks,
         DataAt(lb, p), PowerLoss
  PROVE  Keeps(lb, p)
<1>1. ni' = Detached /\ oob' = oob /\ acked' = acked /\ DOMAIN flash' = Blocks /\ ~On(ni')
  BY PowerLossIs DEF On, Detached
<1>2. CASE \A b \in Blocks : flash'[b] = flash[b]
  BY <1>1, <1>2 DEF Keeps, Live
<1>3. CASE On(ni) /\ ni.to \in Writes \cup Wipes /\ Usable # {} /\ Hits(Min(Usable))
  <2>1. Min(Usable) # p
    <3>1. ni.top \in Nat
      BY DEF IInv, Ni
    <3> QED
      BY <1>3, <3>1, UsableIs, DataBlock
  <2>2. flash'[p] = flash[p]
    BY <1>3, <2>1 DEF Hits
  <2>3. \A b \in Live(flash', oob') : b \in Live(flash, oob) /\ flash'[b] = flash[b]
    BY <1>3, HitLeft
  <2> QED
    BY <1>1, <2>2, <2>3 DEF Keeps
<1>4. CASE /\ On(ni) /\ ni.to = "erase" /\ ni.map[ni.lb] >= 0
           /\ flash'[ni.map[ni.lb]] = Torn
           /\ \A b \in Blocks \ {ni.map[ni.lb]} : flash'[b] = flash[b]
  <2>1. ni.lb \in Logic /\ ni.lb # lb
    BY <1>4 DEF IInv, Ni, DataInv, NotYet
  <2>2. ni.map[ni.lb] # p
    BY <1>4, <2>1, DataBlock
  <2>3. flash'[ni.map[ni.lb]].kind # "table"
    BY <1>4, Contents
  <2>4. /\ Live(flash', oob') = Live(flash, oob)
        /\ \A b \in Live(flash, oob) : flash'[b] = flash[b]
    BY <1>1, <1>4, <2>1, <2>3, Untouched
  <2> QED
    BY <1>1, <1>4, <2>2, <2>4 DEF Keeps
<1> QED
  BY <1>2, <1>3, <1>4, PowerLossIs

(* Attaching finds it.                                                       *)
LEMMA AttachData ==
  ASSUME IInv, DataInv, NEW lb \in Logic, acked[lb] # None, NEW p \in Blocks,
         DataAt(lb, p), Attach
  PROVE  Keeps(lb, p)
<1>1. Flash(flash, oob) /\ Live(flash, oob) # {}
  BY DEF IInv, DataInv, Holds
<1>2. /\ flash' = flash /\ oob' = oob /\ acked' = acked
      /\ \E ecc \in SUBSET Unreadable : ni' = Load(ecc)
  BY <1>1, TablesLive DEF Attach
<1>3. ni'.map = flash[Newest].map /\ ni'.cache.map = flash[Newest].map
  BY <1>1, <1>2, LoadStep
<1>4. Newest \in Live(flash, oob)
  BY <1>1, NewestIs
<1> QED
  BY <1>2, <1>3, <1>4 DEF Keeps, DataAt

(* So does an operation on another block, one that changes the mapping of    *)
(* its own block only and touches no other.                                  *)
LEMMA OtherData ==
  ASSUME IInv, On(ni), NEW lb \in Logic, NEW l \in Logic, l # lb, NEW p \in Blocks,
         DataAt(lb, p), Changes(ni, ni', l), acked'[lb] = acked[lb],
         \/ flash' = flash /\ oob' = oob
         \/ /\ ni.map[l] >= 0 /\ (flash' = flash \/ flash'[ni.map[l]].kind # "table")
            /\ \A b \in Blocks \ {ni.map[l]} : flash'[b] = flash[b]
            /\ oob \subseteq oob' /\ oob' \subseteq oob \cup {ni.map[l]}
  PROVE  Keeps(lb, p)
<1>1. p = ni.map[lb] /\ ni.map[l] # p /\ ni.cache.map[lb] = p
  BY DataBlock DEF DataAt
<1>2. ni'.map[lb] = p /\ ni'.cache.map[lb] = p
  BY <1>1 DEF Changes
<1>3. CASE flash' = flash /\ oob' = oob
  BY <1>2, <1>3 DEF Keeps
<1>4. CASE /\ ni.map[l] >= 0 /\ (flash' = flash \/ flash'[ni.map[l]].kind # "table")
           /\ \A b \in Blocks \ {ni.map[l]} : flash'[b] = flash[b]
           /\ oob \subseteq oob' /\ oob' \subseteq oob \cup {ni.map[l]}
  <2>1. /\ Live(flash', oob') = Live(flash, oob)
        /\ \A b \in Live(flash, oob) : flash'[b] = flash[b]
    BY <1>4, Untouched
  <2>2. flash'[p] = flash[p]
    BY <1>1, <1>4
  <2> QED
    BY <1>2, <2>1, <2>2 DEF Keeps
<1> QED
  BY <1>3, <1>4

(* What follows the writers, but for creating the tables: the mapping stays, *)
(* except that of a block given up.                                          *)
LEMMA CompletedIs ==
  ASSUME IInv, IInv', LostBlock(ni), Completed, ni.op # "create"
  PROVE  LET m == ni'
         IN  On(m) =>
               /\ m.op # "create" /\ m.lb = ni.lb
               /\ m.to = "erase" \/ m.op \in {"erase", "lost"} => ni.op \in {"erase", "lost"}
               /\ \A l \in Logic : l # ni.lb \/ ni.op # "lost" => m.map[l] = ni.map[l]
               /\ m.cache = ni.cache \/ m.cache.map = ni.map
<1> DEFINE m == ni'
<1>1. /\ ni \in Ni /\ Flash(flash, oob) /\ ni.to = "done" /\ ni.to \in Rest /\ On(ni)
      /\ Ram(ni, flash, oob) /\ ni.lb \in Logic /\ Core(ni, flash, oob) /\ Ranges(ni)
      /\ ni.op \in Ops
  BY DEF Completed, IInv, On, Rest, Ram, Ni
<1>2. SUFFICES ASSUME On(m)
               PROVE  /\ m.op # "create" /\ m.lb = ni.lb
                      /\ m.to = "erase" \/ m.op \in {"erase", "lost"}
                           => ni.op \in {"erase", "lost"}
                      /\ \A l \in Logic : l # ni.lb \/ ni.op # "lost" => m.map[l] = ni.map[l]
                      /\ m.cache = ni.cache \/ m.cache.map = ni.map
  OBVIOUS
<1>3. CASE UpdateAgain(ni)
  <2>1. m = UpdateOnce(ni)
    BY <1>3 DEF Completed
  <2>2. ni.dirty /\ ni.main # 0
    BY <1>1, <1>3 DEF UpdateAgain, Ranges, Ni
  <2> HIDE DEF m
  <2> QED
    BY <1>1, <2>1, <2>2, UpdateOnceRam DEF m
<1>4. CASE ~UpdateAgain(ni) /\ ni.op = "load"
  <2> DEFINE prot == (ni.mapBa = ni.top \/ ~ni.ok)
             k == [ni EXCEPT !.prot = prot]
  <2>1. m = Idle(k)
    BY <1>4 DEF Completed
  <2>2. prot \in BOOLEAN
    OBVIOUS
  <2> HIDE DEF prot, m
  <2>3. k \in Ni /\ k.map = ni.map /\ k.cache = ni.cache /\ k.lb = ni.lb
    BY <1>1, <2>2 DEF Ni
  <2> HIDE DEF k
  <2> QED
    BY <2>1, <2>3, IdleFields DEF SameTables, m
<1>5. CASE ~UpdateAgain(ni) /\ (ni.op \in {"created", "none"})
  <2>1. m = Idle(ni) \/ m.to = "failed"
    BY <1>1, <1>5 DEF Completed, Ni
  <2> QED
    BY <1>1, <1>2, <2>1, IdleFields DEF SameTables, On
<1>6. CASE ~UpdateAgain(ni) /\ ni.op = "erase"
  <2>1. m = [ni EXCEPT !.to = "erase"]
    BY <1>6 DEF Completed
  <2> HIDE DEF m
  <2> QED
    BY <1>1, <1>6, <2>1 DEF Ni, m
<1>7. CASE ~UpdateAgain(ni) /\ ni.op \in {"lost", "full"}
  <2> DEFINE k == [ni EXCEPT !.top = ni.mapBa]
  <2>1. k \in Ni /\ k.map = ni.map /\ k.lb = ni.lb /\ k.pb = ni.pb
    BY <1>1, TopFalls
  <2>2. Changes(ni, k, ni.lb)
    BY <1>1, SmallChanges
  <2>3. CASE ni.op = "full"
    <3>1. m = Idle(k)
      BY <1>7, <2>3 DEF Completed
    <3> HIDE DEF m, k
    <3>2. m.to = "idle" /\ m.op = "none" /\ m.map = ni.map /\ m.cache = k.cache /\ m.lb = ni.lb
      BY <2>1, <3>1, IdleFields DEF SameTables
    <3> QED
      BY <2>2, <3>2 DEF Changes, m
  <2>4. CASE ni.op = "lost"
    <3>1. m = Unusable(k)
      BY <1>7, <2>4 DEF Completed
    <3>2. ni.pb = ni.map[ni.lb] /\ ni.map[ni.lb] >= 0
      BY <2>4 DEF LostBlock
    <3> HIDE DEF m, k
    <3>3. k.pb \in Blocks
      BY <1>1, <2>1, <3>2, MappedAbove
    <3>4. Changes(k, m, k.lb) /\ m.to = "done" /\ m.op = "none"
      BY <2>1, <3>1, <3>3, UnusableChanges
    <3>5. Changes(ni, m, ni.lb)
      BY <2>1, <2>2, <3>4, ChangesTwice
    <3> QED
      BY <2>4, <3>4, <3>5 DEF Changes, m
  <2> QED
    BY <1>7, <2>3, <2>4
<1> QED
  BY <1>1, <1>3, <1>4, <1>5, <1>6, <1>7 DEF Ops

(* So it is left by what follows the writers.                                *)
LEMMA CompletedData ==
  ASSUME IInv, IInv', LostBlock(ni), DataInv, NEW lb \in Logic, acked[lb] # None,
         NEW p \in Blocks, DataAt(lb, p), Completed
  PROVE  Keeps(lb, p)
<1>1. /\ On(ni) /\ flash' = flash /\ oob' = oob /\ acked' = acked
  BY DEF Completed, On
<1>2. ni.op # "create" /\ (ni.op = "lost" => lb # ni.lb)
  BY <1>1 DEF DataInv, NotYet
<1>3. ni.map[lb] = p /\ ni.cache.map[lb] = p
  BY <1>1 DEF DataAt
<1>4. On(ni') => ni'.map[lb] = p /\ ni'.cache.map[lb] = p
  BY <1>2, <1>3, CompletedIs
<1> QED
  BY <1>1, <1>4 DEF Keeps

(* Erasing or remapping another block leaves it.                             *)
LEMMA EraseBlockData ==
  ASSUME IInv, DataInv, NEW lb \in Logic, acked[lb] # None, NEW p \in Blocks,
         DataAt(lb, p), EraseBlock
  PROVE  Keeps(lb, p)
<1>1. /\ On(ni) /\ ni.to = "erase" /\ ni.lb \in Logic /\ Changes(ni, ni', ni.lb)
      /\ acked' = acked
      /\ \/ flash' = flash /\ oob' = oob
         \/ /\ ni.map[ni.lb] >= 0 /\ flash'[ni.map[ni.lb]].kind # "table"
            /\ \A b \in Blocks \ {ni.map[ni.lb]} : flash'[b] = flash[b]
            /\ oob \subseteq oob' /\ oob' \subseteq oob \cup {ni.map[ni.lb]}
  BY EraseBlockIs DEF EraseBlock
<1>2. ni.lb # lb
  BY <1>1 DEF DataInv, NotYet
<1> QED
  BY <1>1, <1>2, OtherData

(* What the layer above does to one block leaves the others, and a block it  *)
(* has written holds it and is mapped by every table.                        *)
LEMMA UserData ==
  ASSUME IInv, StoredInv, DataInv, NEW l \in Logic,
         StartErase(l) \/ MarkBad(l) \/ \E v \in Vals : WriteBlock(l, v),
         Live(flash, oob) # {} => Live(flash', oob') # {}, NEW lb \in Logic
  PROVE  Holds(lb)'
<1>1. acked \in [Logic -> Vals \cup {None}] /\ Holds(lb) /\ Recorded(ni, flash, oob) /\ On(ni)
  BY DEF DataInv, StoredInv, StartErase, MarkBad, WriteBlock, Usual, On
<1>2. CASE StartErase(l)
  <2>1. /\ ni' = [ni EXCEPT !.to = "erase", !.lb = l] /\ flash' = flash /\ oob' = oob
        /\ acked' = [acked EXCEPT ![l] = None] /\ ni \in Ni
    BY <1>2 DEF StartErase, IInv
  <2>2. ni'.map = ni.map /\ ni'.cache = ni.cache
    BY <2>1 DEF Ni
  <2>3. acked'[lb] # None => acked'[lb] = acked[lb]
    BY <1>1, <2>1
  <2>4. ASSUME NEW p \in Blocks, acked'[lb] # None, DataAt(lb, p)
        PROVE  Keeps(lb, p)
    BY <1>1, <2>1, <2>2, <2>3, <2>4 DEF Keeps, DataAt
  <2> QED
    BY <1>1, <2>3, <2>4, HoldsOn
<1>3. CASE MarkBad(l)
  <2>1. /\ ni.map[l] >= 0 /\ Changes(ni, ni', l) /\ flash' = flash
        /\ oob' = oob \cup {ni.map[l]} /\ acked' = [acked EXCEPT ![l] = None]
    BY <1>3, MarkBadIs
  <2>2. acked'[lb] # None => l # lb /\ acked'[lb] = acked[lb]
    BY <1>1, <2>1
  <2>3. ASSUME NEW p \in Blocks, acked'[lb] # None, DataAt(lb, p)
        PROVE  Keeps(lb, p)
    BY <1>1, <2>1, <2>2, <2>3, OtherData
  <2> QED
    BY <1>1, <2>2, <2>3, HoldsOn
<1>4. ASSUME NEW v \in Vals, WriteBlock(l, v)
      PROVE  Holds(lb)'
  <2> DEFINE pb == ni.map[l]
  <2>1. /\ ni.to = "idle" /\ pb >= 0 /\ pb \in Blocks /\ flash[pb] = Erased /\ ~ni.prot
        /\ \/ ni' = ni /\ flash' = [flash EXCEPT ![pb] = Data(l, v)]
              /\ acked' = [acked EXCEPT ![l] = v]
           \/ Changes(ni, ni', l) /\ ni'.map = ni.map /\ acked' = acked
        /\ DOMAIN flash = Blocks /\ flash'[pb].kind # "table"
        /\ \A b \in Blocks \ {pb} : flash'[b] = flash[b]
        /\ oob' = oob
    BY <1>4, WriteBlockIs
  <2>2. /\ Live(flash', oob') = Live(flash, oob)
        /\ \A b \in Live(flash, oob) : flash'[b] = flash[b]
    BY <1>1, <2>1, Untouched
  <2>3. Changes(ni, ni', l)
    BY <2>1 DEF Changes
  <2>4. CASE lb # l
    <3>1. acked'[lb] = acked[lb]
      BY <1>1, <2>1, <2>4
    <3>2. ASSUME NEW p \in Blocks, DataAt(lb, p)
          PROVE  Keeps(lb, p)
      BY <1>1, <2>1, <2>3, <2>4, <3>1, <3>2, OtherData
    <3> QED
      BY <1>1, <3>1, <3>2, HoldsOn
  <2>5. CASE lb = l /\ acked' = acked
    <3>1. acked[l] = None
      <4> SUFFICES ASSUME acked[l] # None
                   PROVE  FALSE
        OBVIOUS
      <4>1. PICK p \in Blocks : DataAt(l, p)
        BY <1>1, <2>5 DEF Holds
      <4>2. flash[pb] = Data(l, acked[l])
        BY <1>1, <4>1 DEF DataAt
      <4> QED
        BY <2>1, <4>2 DEF Erased, Data
    <3> QED
      BY <2>5, <3>1 DEF Holds
  <2>6. CASE lb = l /\ acked' # acked
    <3>1. /\ ni' = ni /\ flash' = [flash EXCEPT ![pb] = Data(l, v)]
          /\ acked' = [acked EXCEPT ![l] = v]
      BY <2>1, <2>6
    <3>2. flash'[pb] = Data(l, acked'[l])
      BY <1>1, <2>1, <3>1
    <3>3. ni.cache.map[l] = pb
      BY <1>1, <2>1 DEF Recorded, Noted, Named
    <3>4. \A b \in Live(flash, oob) : flash[b].map[l] = pb
      BY <1>1, <2>1, <3>3 DEF Recorded, Copies
    <3>5. Live(flash, oob) # {}
      <4>1. Ranges(ni) /\ Held(ni, Live(flash, oob))
        BY <1>1 DEF IInv, Ram
      <4> QED
        BY <2>1, <4>1 DEF Ranges, Held, Rest
    <3> PICK p \in Blocks : p = pb
      BY <2>1
    <3>6. DataAt(l, p)'
      BY <2>2, <3>1, <3>2, <3>3, <3>4 DEF DataAt
    <3>7. Live(flash', oob') # {}
      BY <2>2, <3>5
    <3> QED
      BY <2>6, <3>6, <3>7 DEF Holds
  <2> QED
    BY <2>4, <2>5, <2>6
<1> QED
  BY <1>2, <1>3, <1>4

(* No step writes a block that is being erased, or before there are tables.  *)
LEMMA NotYetStep ==
  ASSUME IInv, IInv', LostBlock(ni), StoredInv, DataInv, [Next]_vars
  PROVE  NotYet'
<1>1. /\ NotYet /\ ni' \in Ni /\ (On(ni') => ni'.lb \in Logic)
      /\ acked \in [Logic -> Vals \cup {None}]
  BY DEF DataInv, IInv, Ni
<1>2. CASE BlockWritten \/ BlockWiped \/ BlockFails \/ NoBlockLeft
  <2>1. acked' = acked /\ On(ni)
    BY <1>2 DEF BlockWritten, BlockWiped, BlockFails, NoBlockLeft, On, Writes, Wipes
  <2>2. ni'.op = ni.op /\ ni'.lb = ni.lb /\ ni'.to # "erase"
    BY <1>2, WritersKeep DEF Kept, Writes, Wipes
  <2> QED
    BY <1>1, <2>1, <2>2 DEF NotYet
<1>3. CASE Attach
  <2>1. Flash(flash, oob) /\ acked' = acked
        /\ (Live(flash, oob) # {} => \E ecc \in SUBSET Unreadable : ni' = Load(ecc))
    BY <1>3, TablesLive DEF IInv, Attach
  <2>2. CASE Live(flash, oob) = {}
    <3>1. \A lb \in Logic : acked[lb] = None
      BY <2>2 DEF DataInv, Holds
    <3> QED
      BY <1>1, <2>1, <3>1 DEF NotYet
  <2>3. CASE Live(flash, oob) # {}
    <3>1. PICK ecc \in SUBSET Unreadable : ni' = Load(ecc)
      BY <2>1, <2>3
    <3>2. Load(ecc).op = "load" /\ Load(ecc).to # "erase"
      BY <2>1, <2>3, LoadStep
    <3> QED
      BY <2>1, <3>1, <3>2 DEF NotYet
  <2> QED
    BY <2>2, <2>3
<1>4. CASE PowerLoss
  BY <1>4, PowerLossIs DEF NotYet, On, Detached
<1>5. CASE Completed
  <2>1. acked' = acked /\ On(ni)
    BY <1>5 DEF Completed, On
  <2>2. CASE ni.op = "create"
    BY <1>1, <2>1, <2>2 DEF NotYet
  <2>3. CASE ni.op # "create"
    BY <1>1, <1>5, <2>1, <2>3, CompletedIs DEF NotYet
  <2> QED
    BY <2>2, <2>3
<1>6. CASE EraseBlock
  <2>1. /\ acked' = acked /\ On(ni) /\ ni.to = "erase" /\ ni'.lb = ni.lb /\ ni'.op # "create"
    BY <1>6, EraseBlockIs DEF EraseBlock, Changes
  <2> QED
    BY <1>1, <2>1 DEF NotYet
<1>7. CASE Detach
  <2>1. ni' = Update(ni, "none") /\ ni \in Ni /\ "none" \in Ops
    BY <1>7 DEF Detach, IInv, Ops
  <2>2. ni'.to = "done" /\ ni'.op = "none"
    BY <2>1, UpdateFields
  <2> QED
    BY <2>2 DEF NotYet
<1>8. ASSUME NEW l \in Logic, StartErase(l)
      PROVE  NotYet'
  <2>1. /\ ni' = [ni EXCEPT !.to = "erase", !.lb = l] /\ ni.to = "idle" /\ ni \in Ni
        /\ acked' = [acked EXCEPT ![l] = None]
    BY <1>8 DEF StartErase, Usual, IInv
  <2>2. ni.op = "none"
    BY <2>1 DEF StoredInv, On, Recorded, Noted
  <2>3. ni'.lb = l /\ ni'.op = "none"
    BY <2>1, <2>2 DEF Ni
  <2> QED
    BY <1>1, <2>1, <2>3 DEF NotYet
<1>9. ASSUME NEW l \in Logic, MarkBad(l)
      PROVE  NotYet'
  <2>1. ni'.to = "done" /\ ni'.op = "none"
    BY <1>9, MarkBadIs
  <2> QED
    BY <2>1 DEF NotYet
<1>10. ASSUME NEW l \in Logic, NEW v \in Vals, WriteBlock(l, v)
       PROVE  NotYet'
  <2>1. /\ On(ni) /\ ni.to = "idle"
        /\ ni' = ni \/ (ni'.to = "done" /\ ni'.op = "none")
    BY <1>10, WriteBlockIs
  <2>2. ni.op = "none"
    BY <2>1 DEF StoredInv, On, Recorded, Noted
  <2> QED
    BY <2>1, <2>2 DEF NotYet
<1>11. CASE UNCHANGED vars
  BY <1>1, <1>11 DEF vars, NotYet
<1> QED
  BY <1>2, <1>3, <1>4, <1>5, <1>6, <1>7, <1>8, <1>9, <1>10, <1>11 DEF Next, Steps

(* Every step keeps what was written.                                        *)
LEMMA DataStep ==
  ASSUME IInv, IInv', LostBlock(ni), StoredInv, DataInv, NotAlone, [Next]_vars
  PROVE  DataInv'
<1>1. NotYet'
  BY NotYetStep
<1>2. Live(flash, oob) # {} => Live(flash', oob') # {}
  BY LivesOn
<1>3. acked \in [Logic -> Vals \cup {None}] /\ \A lb \in Logic : Holds(lb)
  BY DEF DataInv
<1>4. CASE \E l \in Logic : StartErase(l) \/ MarkBad(l) \/ \E v \in Vals : WriteBlock(l, v)
  <2>1. acked' \in [Logic -> Vals \cup {None}]
    BY <1>3, <1>4 DEF StartErase, MarkBad, WriteBlock
  <2>2. ASSUME NEW lb \in Logic
        PROVE  Holds(lb)'
    BY <1>2, <1>4, UserData
  <2> QED
    BY <1>1, <2>1, <2>2 DEF DataInv
<1>5. CASE ~\E l \in Logic : StartErase(l) \/ MarkBad(l) \/ \E v \in Vals : WriteBlock(l, v)
  <2>1. acked' = acked
    BY <1>5 DEF Next, Steps, BlockWritten, BlockWiped, BlockFails, NoBlockLeft, Attach,
                Completed, EraseBlock, PowerLoss, Detach, vars
  <2>2. ASSUME NEW lb \in Logic
        PROVE  Holds(lb)'
    <3>1. ASSUME NEW p \in Blocks, acked[lb] # None, DataAt(lb, p)
          PROVE  Keeps(lb, p)
      <4>1. CASE Attach
        BY <3>1, <4>1, AttachData
      <4>2. CASE Detach
        <5>1. /\ ni' = Update(ni, "none") /\ ni \in Ni /\ "none" \in Ops /\ On(ni)
              /\ flash' = flash /\ oob' = oob
          BY <4>2 DEF Detach, IInv, Ops, On
        <5>2. ni'.map = ni.map /\ ni'.cache = ni.cache
          BY <5>1, UpdateFields DEF SameTables
        <5> QED
          BY <2>1, <3>1, <5>1, <5>2 DEF Keeps, DataAt
      <4>3. CASE UNCHANGED vars
        BY <3>1, <4>3 DEF vars, Keeps, DataAt
      <4> QED
        BY <1>5, <3>1, <4>1, <4>2, <4>3, WritersData, CompletedData, EraseBlockData,
           PowerLossData DEF Next, Steps
    <3>2. acked'[lb] = acked[lb] /\ Holds(lb)
      BY <1>3, <2>1
    <3> QED
      BY <1>2, <3>1, <3>2, HoldsOn
  <2> QED
    BY <1>1, <1>3, <2>1, <2>2 DEF DataInv
<1> QED
  BY <1>4, <1>5

(* What a logic block was successfully written with is what it holds, and    *)
(* what it will hold if power is lost now, whatever blocks fail, if no bad   *)
(* block is passed over when a spare one is taken and the main table is not  *)
(* written in place while there is no backup.                                *)
THEOREM WrittenDataSurvives ==
  Spec /\ []TopSpareGood /\ []NotAlone => []DataSurvives
<1>1. Init => IInv /\ LostBlock(ni) /\ StoredInv /\ DataInv
  <2> SUFFICES ASSUME Init
               PROVE  IInv /\ LostBlock(ni) /\ StoredInv /\ DataInv
    OBVIOUS
  <2>1. IInv /\ LostBlock(ni) /\ StoredInv /\ ~On(ni)
    BY InitStep DEF Init, Detached, LostBlock, StoredInv, On
  <2>2. acked = [lb \in Logic |-> None]
    BY DEF Init
  <2> QED
    BY <2>1, <2>2 DEF DataInv, NotYet, Holds
<1>2. IInv /\ LostBlock(ni) /\ StoredInv /\ DataInv /\ TopSpareGood /\ NotAlone /\ [Next]_vars
        => (IInv /\ LostBlock(ni) /\ StoredInv /\ DataInv)'
  BY IInvStep, StoredStep, DataStep
<1>3. IInv /\ DataInv => DataSurvives
  <2> SUFFICES ASSUME IInv, DataInv, NEW lb \in Logic, acked[lb] # None,
                      NEW map \in {Stored} \cup (IF Attached THEN {ni.map} ELSE {})
               PROVE  map[lb] >= 0 /\ flash[map[lb]] = Data(lb, acked[lb])
    BY DEF DataSurvives
  <2>1. Live(flash, oob) # {} /\ \E p \in Blocks : DataAt(lb, p)
    BY DEF DataInv, Holds
  <2>2. PICK p \in Blocks : DataAt(lb, p)
    BY <2>1
  <2>3. Stored[lb] = p
    <3>1. Flash(flash, oob)
      BY DEF IInv
    <3>2. PICK b \in Live(flash, oob) : \A c \in Live(flash, oob) : flash[c].wc <= flash[b].wc
      BY <2>1, <3>1, OneIsNewest
    <3>3. Stored = flash[b].map
      BY <3>1, <3>2, StoredAt DEF FoundNewest
    <3> QED
      BY <2>2, <3>2, <3>3 DEF DataAt
  <2>4. Attached => ni.map[lb] = p
    BY <2>2 DEF Attached, On, DataAt
  <2>5. map[lb] = p
    BY <2>3, <2>4
  <2>6. p >= 0
    BY ConstTypes
  <2> QED
    BY <2>2, <2>5, <2>6 DEF DataAt
<1> QED
  BY <1>1, <1>2, <1>3, PTL DEF Spec

----------------------------------------------------------------------------
(* Types                                                                     *)

Content == Saved \cup {Erased, Torn} \cup {Data(lb, v) : lb \in Logic, v \in Vals}

TypeOK ==
  /\ flash \in [Blocks -> Content] /\ oob \subseteq Blocks /\ ni \in Ni
  /\ acked \in [Logic -> Vals \cup {None}]
  /\ bads \in Nat /\ losses \in Nat

(* Every variable has its type, as long as no bad block is passed over when  *)
(* a spare one is taken: the proof rests on where the tables are then.       *)
THEOREM NmbmTypeCorrect == Spec /\ []TopSpareGood => []TypeOK
<1> DEFINE Typed == /\ flash \in [Blocks -> Content] /\ acked \in [Logic -> Vals \cup {None}]
                    /\ bads \in Nat /\ losses \in Nat
<1>1. Init => IInv /\ LostBlock(ni) /\ Typed
  BY InitStep DEF Init, Detached, LostBlock, Content
<1>2. IInv /\ LostBlock(ni) /\ TopSpareGood /\ Typed /\ [Next]_vars
        => (IInv /\ LostBlock(ni) /\ Typed)'
  <2> SUFFICES ASSUME IInv, LostBlock(ni), TopSpareGood, Typed, [Next]_vars
               PROVE  Typed'
    BY IInvStep
  <2>1. bads' \in Nat /\ losses' \in Nat /\ acked' \in [Logic -> Vals \cup {None}]
    <3>1. CASE BlockWritten \/ BlockWiped \/ BlockFails \/ NoBlockLeft \/ Attach \/ Completed
      BY <3>1 DEF BlockWritten, BlockWiped, BlockFails, NoBlockLeft, Attach, Completed
    <3>2. CASE EraseBlock \/ PowerLoss \/ Detach
      BY <3>2 DEF EraseBlock, PowerLoss, Detach
    <3>3. CASE UNCHANGED vars
      BY <3>3 DEF vars
    <3>4. ASSUME NEW lb \in Logic, StartErase(lb) \/ MarkBad(lb)
          PROVE  bads' \in Nat /\ losses' \in Nat /\ acked' \in [Logic -> Vals \cup {None}]
      BY <3>4 DEF StartErase, MarkBad
    <3>5. ASSUME NEW lb \in Logic, NEW v \in Vals, WriteBlock(lb, v)
          PROVE  bads' \in Nat /\ losses' \in Nat /\ acked' \in [Logic -> Vals \cup {None}]
      BY <3>5 DEF WriteBlock
    <3> QED
      BY <3>1, <3>2, <3>3, <3>4, <3>5 DEF Next, Steps
  <2>2. SUFFICES flash' \in [Blocks -> Content]
    BY <2>1
  <2>3. Erased \in Content /\ Torn \in Content /\ (ni.to \in Writes => ni.cache \in Content)
    BY DEF Content, IInv, Ram, Core, On, Writes
  <2>4. ASSUME NEW c, NEW x \in Content, flash' = [flash EXCEPT ![c] = x]
        PROVE  flash' \in [Blocks -> Content]
    BY <2>4
  <2>5. CASE BlockWritten
    BY <2>3, <2>4, <2>5 DEF BlockWritten
  <2>6. CASE BlockWiped \/ BlockFails
    BY <2>3, <2>4, <2>6 DEF BlockWiped, BlockFails
  <2>7. CASE EraseBlock
    BY <2>3, <2>4, <2>7 DEF EraseBlock
  <2>8. CASE PowerLoss
    <3>1. PICK T : flash' = [b \in Blocks |-> IF b \in T THEN Torn ELSE flash[b]]
      BY <2>8 DEF PowerLoss
    <3> HIDE DEF Content
    <3>2. ASSUME NEW b \in Blocks
          PROVE  (IF b \in T THEN Torn ELSE flash[b]) \in Content
      BY <2>3
    <3> QED
      BY <3>1, <3>2
  <2>9. ASSUME NEW lb \in Logic, NEW v \in Vals, WriteBlock(lb, v)
        PROVE  flash' \in [Blocks -> Content]
    <3>1. Data(lb, v) \in Content
      BY DEF Content
    <3> QED
      BY <2>3, <2>4, <2>9, <3>1 DEF WriteBlock
  <2>10. CASE NoBlockLeft \/ Attach \/ Completed \/ Detach \/ UNCHANGED vars
              \/ \E lb \in Logic : StartErase(lb) \/ MarkBad(lb)
    <3>1. flash' = flash
      BY <2>10 DEF NoBlockLeft, Attach, Completed, Detach, vars, StartErase, MarkBad
    <3> QED
      BY <3>1
  <2> QED
    BY <2>5, <2>6, <2>7, <2>8, <2>9, <2>10 DEF Next, Steps
<1>3. IInv /\ Typed => TypeOK
  BY DEF TypeOK, IInv
<1> QED
  BY <1>1, <1>2, <1>3, PTL DEF Spec

============================================================================
