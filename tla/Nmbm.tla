-------------------------------- MODULE Nmbm --------------------------------
(***************************************************************************)
(* NAND mapped-block management (drivers/mtd/nmbm/nmbm-core.c).  The layer *)
(* hides bad blocks: logic block lb lives in physical block map[lb].  A    *)
(* logic block whose physical block goes bad is given a spare one, taken   *)
(* from the top of the management area downwards; the mapping is kept in   *)
(* two info tables at the bottom of that area, written one after the       *)
(* other.  Power may be lost between any two block operations, and a block *)
(* may fail at any erase or write.                                         *)
(*                                                                         *)
(* ni is struct nmbm_instance plus the control of the operation under way: *)
(* "to" names the write (or wipe) in progress in the blocks at..limit-1,   *)
(* "op" what its caller does next.  An info table fits one erase block.    *)
(***************************************************************************)
EXTENDS Integers, FiniteSets, FiniteSetsExt

CONSTANTS
  Mgmt,        \* mgmt_start_ba: blocks below it hold data
  Sig,         \* signature_ba, the last block
  Spare,       \* info_table_spare_blocks
  FactoryBad,  \* the sets of blocks that may be bad from the start
  Vals,        \* what a logic block may be written with
  None,        \* no acknowledged content
  Env,         \* "markSpare": blocks given out as spares are marked bad by hand
  MaxBad,      \* bound: blocks that go bad in use
  MaxLoss      \* bound: power losses

ASSUME GeometryAssumption ==
  /\ Mgmt \in Nat \ {0} /\ Sig \in Nat /\ Mgmt < Sig /\ Spare \in Nat
  /\ \A F \in FactoryBad : F \subseteq 0..Sig - 1
  /\ None \notin Vals /\ Env \subseteq {"markSpare"}

VARIABLES
  flash,   \* what each block holds
  oob,     \* the blocks marked bad in their spare bytes
  ni,      \* the instance in RAM
  acked,   \* what each logic block was last successfully written with
  bads, losses

vars == <<flash, oob, ni, acked, bads, losses>>

Blocks == 0..Sig
Logic  == 0..Mgmt - 1

Erased     == [kind |-> "erased"]
Torn       == [kind |-> "torn"]
Data(lb, v) == [kind |-> "data", lb |-> lb, v |-> v]
Table(n)   == [kind |-> "table", wc |-> n.wc, st |-> n.st, map |-> n.map]

(***************************************************************************)
(* Walking over good blocks.                                               *)
(***************************************************************************)
Good(n, S) == {b \in S : n.st[b] = "good"}

\* nmbm_try_reserve_blocks: skip Spare good blocks from b, or as many as fit
Reserved(n, b) ==
  LET fit == Good(n, b..n.top - 2)
      skip == Min({Spare, Cardinality(fit) - 1})
  IN {c \in fit : Cardinality({d \in fit : d < c}) = skip}

\* nmbm_map_block
NoRoom(n)     == n.mapBa = n.top
SpareFor(n)   == Max(Good(n, n.mapBa + 1..n.top))
CanMap(n)     == ~NoRoom(n) /\ Good(n, n.mapBa + 1..n.top) # {}
\* Mutant: the top stays
NotLowered(n) == n.top
\* one block is given away, however many bad ones were passed over
Lowered(n) == n.top - 1
\* Mutant: the change is not noted
MappedQuietly(n, lb) == [n EXCEPT !.map[lb] = SpareFor(n), !.top = Lowered(n)]
Mapped(n, lb) ==
  [n EXCEPT !.map[lb] = SpareFor(n), !.top = Lowered(n), !.dirty = TRUE]

\* nmbm_set_block_state
SetState(n, b, s) == [n EXCEPT !.st[b] = s, !.dirty = @ \/ n.st[b] # s]

(***************************************************************************)
(* Writing the info tables.  Write starts a nmbm_write_mgmt_range; Written *)
(* and Full are what its callers do when it succeeded in block b and when  *)
(* it ran out of blocks.                                                   *)
(***************************************************************************)
Write(n, to, at, limit) ==
  [n EXCEPT !.to = to, !.at = at, !.from = at, !.limit = limit]
Done(n, ok) == [n EXCEPT !.to = "done", !.ok = ok]
Clean(n)    == [n EXCEPT !.dirty = FALSE]
Generated(n) ==
  LET m == [n EXCEPT !.wc = @ + (IF n.dirty THEN 1 ELSE 0)]
  IN [m EXCEPT !.cache = Table(m)]

\* nmbm_update_info_table_once, from its label write_main_table on
WriteMain(n) == Write(n, "main", n.main, IF n.backup = 0 THEN n.top ELSE n.backup)

UpdateOnce(n) ==
  LET g == Generated(n)
  IN IF g.backup = 0 THEN WriteMain(g) ELSE Write(g, "backup", g.backup, g.top)

Rebuild(n) ==
  Write([n EXCEPT !.main = 0, !.backup = 0, !.mapBa = n.top], "rebuild", Mgmt, n.top)

\* main and backup tables become one
OnlyBackup(n) == [n EXCEPT !.main = n.backup, !.backup = 0]

\* Mutant: both tables are written anew from the start
RescueByRebuilding(n) == Rebuild(n)
RescueMain(n) ==
  LET r == Reserved(n, n.mapBa)
  IN IF r = {} THEN Done(OnlyBackup(n), TRUE)
     ELSE Write(n, "temp", Max(r), n.top)

RescueSingle(n) == Write(n, "front", Mgmt, n.main)

Written(n, b) ==
  LET backupAt == [n EXCEPT !.backup = b, !.mapBa = b + 1]
      after == [n EXCEPT !.main = b, !.mapBa = b + 1, !.dirty = FALSE]
      front == [n EXCEPT !.main = b, !.backup = n.main, !.dirty = FALSE]
  IN CASE n.to = "backup"  -> WriteMain(Clean(backupAt))
       [] n.to = "main"    -> Done(IF n.backup = 0 THEN after
                                   ELSE [after EXCEPT !.mapBa = n.mapBa], TRUE)
       [] n.to = "rebuild" -> IF Reserved(after, b + 1) = {} THEN Done(after, TRUE)
                              ELSE Write(after, "second", Max(Reserved(after, b + 1)), n.top)
       [] n.to = "second"  -> Write(backupAt, "wipe", n.main + 1, b)
       [] n.to = "front"   -> Write(front, "wipe", b + 1, n.main)
       [] n.to = "behind"  -> Write(n, "wipeBehind", n.mapBa, b)
       [] n.to = "temp"    -> Write([n EXCEPT !.mapBa = b + 1], "rescued", Mgmt, b)
       [] n.to = "rescued" -> Done(Clean([n EXCEPT !.main = b, !.backup = n.limit]), TRUE)
       [] n.to = "oneMain" -> Done(Clean([n EXCEPT !.main = b]), TRUE)
       [] n.to = "oneBackup" -> Done(Clean(backupAt), TRUE)

Full(n) ==
  LET gone == [n EXCEPT !.mapBa = n.backup, !.backup = 0]
      lower == n.from - 1 >= n.mapBa
      nextLower == Write(n, n.to, n.from - 1, n.limit)
      r == Reserved(n, n.mapBa)
  IN CASE n.to = "backup"  -> WriteMain(gone)
       [] n.to = "main"    -> IF n.backup = 0 THEN Rebuild(n) ELSE RescueMain(n)
       [] n.to = "rebuild" -> Done([n EXCEPT !.prot = TRUE], FALSE)
       [] n.to = "second"  -> Done(n, TRUE)
       [] n.to = "front"   -> IF r = {} THEN Done(n, FALSE)
                              ELSE Write(n, "behind", Max(r), n.top)
       [] n.to = "temp"    -> IF lower THEN nextLower ELSE Done(OnlyBackup(n), TRUE)
       [] n.to = "behind"  -> IF lower THEN nextLower ELSE Done(n, FALSE)
       [] n.to = "rescued" -> Done(Clean([n EXCEPT !.main = n.limit, !.backup = 0]), TRUE)
       [] n.to = "oneMain" -> RescueSingle(OnlyBackup(n))
       [] n.to = "oneBackup" -> Done(gone, FALSE)

\* nmbm_erase_range at its end
Wiped(n) ==
  IF n.to = "wipe" THEN Done(n, TRUE)
  ELSE Done(Clean([n EXCEPT !.backup = n.limit, !.mapBa = n.limit + 1]), TRUE)

Writes == {"backup", "main", "rebuild", "second", "front", "behind", "temp", "rescued",
           "oneMain", "oneBackup"}
Wipes  == {"wipe", "wipeBehind"}

\* the blocks an operation in at..limit-1 may still use, and the instance once
\* it passed those before c: good ones that carry a bad mark are noted as bad
Usable == Good(ni, ni.at..ni.limit - 1) \ oob
Passed(c) ==
  LET found == Good(ni, ni.at..c - 1) \cap oob
  IN [ni EXCEPT !.st = [b \in Blocks |-> IF b \in found THEN "bad" ELSE ni.st[b]],
                !.dirty = @ \/ found # {}]

BlockWritten ==
  /\ ni.to \in Writes /\ Usable # {}
  /\ LET c == Min(Usable)
     IN /\ flash' = [flash EXCEPT ![c] = ni.cache]
        /\ ni' = Written(Passed(c), c)
  /\ UNCHANGED <<oob, acked, bads, losses>>

BlockWiped ==
  /\ ni.to \in Wipes /\ Usable # {}
  /\ LET c == Min(Usable)
     IN /\ flash' = [flash EXCEPT ![c] = Erased]
        /\ ni' = [Passed(c) EXCEPT !.at = c + 1]
  /\ UNCHANGED <<oob, acked, bads, losses>>

\* the erase or the write of the block fails: it is marked and passed over
BlockFails ==
  /\ ni.to \in Writes \cup Wipes /\ Usable # {} /\ bads < MaxBad
  /\ LET c == Min(Usable)
     IN /\ flash' = [flash EXCEPT ![c] = Torn]
        /\ oob' = oob \cup {c}
        /\ ni' = [SetState(Passed(c), c, "bad") EXCEPT !.at = c + 1]
  /\ bads' = bads + 1
  /\ UNCHANGED <<acked, losses>>

NoBlockLeft ==
  /\ ni.to \in Writes \cup Wipes /\ Usable = {}
  /\ ni' = IF ni.to \in Writes THEN Full(Passed(ni.limit)) ELSE Wiped(Passed(ni.limit))
  /\ UNCHANGED <<flash, oob, acked, bads, losses>>

(***************************************************************************)
(* Attaching: the tables are searched from the bottom of the area.         *)
(***************************************************************************)
\* nmbm_check_info_table and the checks before it, of the table in block b,
\* by an instance whose block states are st
Valid(b, st) ==
  /\ st[b] = "good" /\ b \notin oob /\ flash[b].kind = "table"
  /\ flash[b].st[b] = "good"
  /\ \A lb \in Logic : flash[b].map[lb] \notin (Mgmt..b) \cup {Sig}

Searched(b, st) == {c \in b..Sig - 2 : Valid(c, st)}
TopOf(b) ==
  Min({Sig} \cup {flash[b].map[lb] : lb \in {l \in Logic : flash[b].map[l] > b}}) - 1

AllGood == [b \in Blocks |-> "good"]
Lowest(S) == {b \in S : \A c \in S : b <= c}
Tables ==
  UNION {{m} \cup Lowest(Searched(m + 1, flash[m].st)) : m \in Lowest(Searched(Mgmt, AllGood))}
Newest == CHOOSE b \in Tables : \A c \in Tables :
            flash[c].wc < flash[b].wc \/ (flash[c].wc = flash[b].wc /\ b <= c)

\* Torn blocks of the area; a search may be unable to read any of them (ecc below), and
\* takes those for bad
Unreadable == {b \in Mgmt..Sig - 2 : flash[b].kind = "torn"}

\* nmbm_scan_badblocks and nmbm_build_mapping_table
Scanned(ecc) == [b \in Blocks |-> IF b \in oob \cup ecc THEN "bad" ELSE "good"]
Built ==
  [lb \in Logic |->
     LET S == {b \in Logic \ oob : Cardinality({c \in Logic \ oob : c < b}) = lb}
     IN IF S = {} THEN -1 ELSE Max(S)]

Detached ==
  [st |-> AllGood, map |-> [lb \in Logic |-> -1], data |-> Mgmt, main |-> 0, backup |-> 0,
   mapBa |-> 0, top |-> Sig - 1, wc |-> 0, dirty |-> FALSE, prot |-> FALSE,
   cache |-> Erased, to |-> "off", at |-> 0, from |-> 0, limit |-> 0, ok |-> TRUE,
   op |-> "none", lb |-> 0, pb |-> 0]

\* nmbm_create_info_table up to the mapping of the missing blocks
Create(ecc) ==
  LET n == [Detached EXCEPT !.st = Scanned(ecc), !.map = Built,
                            !.data = Cardinality(Logic \ oob), !.dirty = oob \cup ecc # {},
                            !.op = "create"]
      room == Good(n, Mgmt + 1..Sig - 1)
  IN IF room = {} THEN [n EXCEPT !.to = "failed"]
     ELSE Rebuild(Generated([n EXCEPT !.top = Max(room)]))

\* nmbm_load_info_table: a block that is found marked while searching, or that cannot be
\* read, is noted
Load(ecc) ==
  LET m == Min(Tables)
      s == Max(Tables)
      seen == IF s = m THEN m + 1..Sig - 2 ELSE m + 1..s - 1
      late == {b \in seen \cap (oob \cup ecc) : flash[m].st[b] = "good"}
      t == flash[Newest]
      live == {l \in Logic : t.map[l] >= 0}
      n == [Detached EXCEPT
              !.map = t.map, !.wc = t.wc, !.top = TopOf(Newest),
              !.st = [b \in Blocks |-> IF Newest = m /\ b \in late THEN "bad" ELSE t.st[b]],
              !.dirty = (Mgmt..m - 1) \cap (oob \cup ecc) # {} \/ late # {},
              !.data = IF live = {} THEN Mgmt ELSE Max(live) + 1,
              !.main = m, !.backup = IF s = m THEN 0 ELSE s, !.mapBa = s + 1,
              !.op = "load"]
      g == Generated(n)
  IN IF s = m THEN RescueSingle(g)
     ELSE IF flash[m].wc = flash[s].wc THEN Done(g, TRUE)
     ELSE IF flash[m].wc < flash[s].wc
          THEN Write([g EXCEPT !.dirty = TRUE], "oneMain", m, s)
          ELSE Write([g EXCEPT !.dirty = TRUE], "oneBackup", s, g.top)

Attach ==
  /\ ni.to = "off"
  /\ \E ecc \in SUBSET Unreadable : ni' = IF Tables = {} THEN Create(ecc) ELSE Load(ecc)
  /\ UNCHANGED <<flash, oob, acked, bads, losses>>

\* power is lost, and with it the content of a block being erased or written
PowerLoss ==
  /\ ni.to # "off" /\ losses < MaxLoss
  /\ LET hit == IF ni.to \in Writes \cup Wipes /\ Usable # {} THEN {Min(Usable)}
                ELSE IF ni.to = "erase" /\ ni.map[ni.lb] >= 0 THEN {ni.map[ni.lb]} ELSE {}
     IN \E T \in {{}, hit} :
          flash' = [b \in Blocks |-> IF b \in T THEN Torn ELSE flash[b]]
  /\ ni' = Detached
  /\ losses' = losses + 1
  /\ UNCHANGED <<oob, acked, bads>>

(***************************************************************************)
(* What the callers of the table writers go on with.                       *)
(***************************************************************************)
Idle(n) == [n EXCEPT !.to = "idle", !.op = "none"]
Update(n, op) == [Done(n, TRUE) EXCEPT !.op = op]

\* one turn of the loop at the end of nmbm_create_info_table
MapMissing(n) ==
  IF n.data < Mgmt /\ CanMap(n) THEN [Mapped(n, n.data) EXCEPT !.data = n.data + 1]
  ELSE Update(n, IF n.data = Mgmt \/ NoRoom(n) THEN "created" ELSE "full")

\* nmbm_erase_logic_block after remapping failed
Unusable(n) ==
  LET m == [n EXCEPT !.map[n.lb] = -1]
  IN Update(IF n.st[n.pb] = "remap" THEN m ELSE SetState(m, n.pb, "bad"), "none")

\* Mutant: the block is used before the tables name it
RemapUnsaved(n) ==
  IF CanMap(n) THEN [SetState(Mapped(n, n.lb), n.pb, "bad") EXCEPT !.to = "erase"]
  ELSE IF NoRoom(n) THEN Unusable(n) ELSE Update(n, "lost")
\* label remap_logic_block of nmbm_erase_logic_block
Remap(n) ==
  IF CanMap(n)
  THEN Update(IF n.st[n.pb] = "remap" THEN Mapped(n, n.lb)
              ELSE SetState(Mapped(n, n.lb), n.pb, "bad"), "erase")
  ELSE IF NoRoom(n) THEN Unusable(n) ELSE Update(n, "lost")

\* nmbm_update_info_table loops while something changed meanwhile
UpdateAgain(n) == n.op \notin {"load", "create"} /\ n.ok /\ n.dirty /\ ~n.prot

Completed ==
  /\ ni.to = "done"
  /\ ni' = IF UpdateAgain(ni) THEN UpdateOnce(ni)
           ELSE CASE ni.op = "load" ->
                       Idle([ni EXCEPT !.prot = ni.mapBa = ni.top \/ ~ni.ok])
                  [] ni.op = "create" ->
                       IF ni.ok THEN MapMissing(ni) ELSE [ni EXCEPT !.to = "failed"]
                  [] ni.op = "created" -> IF ni.ok THEN Idle(ni) ELSE [ni EXCEPT !.to = "failed"]
                  [] ni.op = "erase"   -> [ni EXCEPT !.to = "erase"]
                  [] ni.op = "lost"    -> Unusable([ni EXCEPT !.top = ni.mapBa])
                  [] ni.op = "full"    -> Idle([ni EXCEPT !.top = ni.mapBa])
                  [] OTHER             -> Idle(ni)
  /\ UNCHANGED <<flash, oob, acked, bads, losses>>

(***************************************************************************)
(* The operations of the layer above.                                      *)
(***************************************************************************)
Usual(lb) == ni.to = "idle" /\ ~ni.prot /\ lb < ni.data

\* nmbm_erase_block_range, for one block
StartErase(lb) ==
  /\ Usual(lb)
  /\ ni' = [ni EXCEPT !.to = "erase", !.lb = lb]
  /\ acked' = [acked EXCEPT ![lb] = None]
  /\ UNCHANGED <<flash, oob, bads, losses>>

\* one turn of the loop of nmbm_erase_logic_block
EraseBlock ==
  LET pb == ni.map[ni.lb]
      n == [ni EXCEPT !.pb = pb]
      unfit == ni.st[pb] # "good" \/ pb \in oob
  IN /\ ni.to = "erase"
     /\ \/ /\ pb < 0
           /\ ni' = Idle(ni)
           /\ UNCHANGED <<flash, oob, bads>>
        \/ /\ pb >= 0 /\ unfit
           /\ ni' = Remap(IF pb \in oob /\ ni.st[pb] = "good" THEN SetState(n, pb, "bad") ELSE n)
           /\ UNCHANGED <<flash, oob, bads>>
        \/ /\ pb >= 0 /\ ~unfit
           /\ flash' = [flash EXCEPT ![pb] = Erased]
           /\ ni' = Idle(ni)
           /\ UNCHANGED <<oob, bads>>
        \/ /\ pb >= 0 /\ ~unfit /\ bads < MaxBad
           /\ flash' = [flash EXCEPT ![pb] = Torn]
           /\ oob' = oob \cup {pb}
           /\ ni' = Remap(SetState(n, pb, "bad"))
           /\ bads' = bads + 1
     /\ UNCHANGED <<acked, losses>>

\* nmbm_write_logic_page, for a whole block its user has erased before
WriteBlock(lb, v) ==
  LET pb == ni.map[lb]
  IN /\ Usual(lb) /\ pb >= 0
     /\ ni.st[pb] # "bad" /\ flash[pb] = Erased
     /\ \/ /\ flash' = [flash EXCEPT ![pb] = Data(lb, v)]
           /\ acked' = [acked EXCEPT ![lb] = v]
           /\ UNCHANGED <<ni, bads>>
        \/ /\ bads < MaxBad
           /\ flash' = [flash EXCEPT ![pb] = Torn]
           /\ ni' = Update(SetState(ni, pb, "remap"), "none")
           /\ bads' = bads + 1
           /\ UNCHANGED acked
     /\ UNCHANGED <<oob, losses>>

\* nmbm_mark_bad_block
MarkBad(lb) ==
  LET pb == ni.map[lb]
  IN /\ Usual(lb) /\ pb >= 0 /\ bads < MaxBad
     /\ pb > Mgmt => "markSpare" \in Env
     /\ ni' = Update(SetState([ni EXCEPT !.map[lb] = -1], pb, "bad"), "none")
     /\ oob' = oob \cup {pb}
     /\ acked' = [acked EXCEPT ![lb] = None]
     /\ bads' = bads + 1
     /\ UNCHANGED <<flash, losses>>

\* nmbm_detach
Detach ==
  /\ ni.to = "idle" /\ ni.dirty
  /\ ni' = Update(ni, "none")
  /\ UNCHANGED <<flash, oob, acked, bads, losses>>

Init ==
  /\ oob \in FactoryBad
  /\ flash = [b \in Blocks |-> Erased]
  /\ ni = Detached
  /\ acked = [lb \in Logic |-> None]
  /\ bads = 0 /\ losses = 0

Steps == BlockWritten \/ BlockWiped \/ BlockFails \/ NoBlockLeft \/ Attach \/ Completed
           \/ EraseBlock

Next ==
  \/ Steps \/ PowerLoss \/ Detach
  \/ \E lb \in Logic : StartErase(lb) \/ MarkBad(lb) \/ \E v \in Vals : WriteBlock(lb, v)

Spec == Init /\ [][Next]_vars

-----------------------------------------------------------------------------
Attached == ni.to \notin {"off", "failed"} /\ ni.op # "create"

\* The mapping the next attach finds on flash.
Stored == IF Tables = {} THEN Built ELSE flash[Newest].map

\* For the theorems: when a block is about to be mapped, the topmost spare block
\* is good, so that lowering the top by one gives away no block twice.
Mapping == ni.to = "erase" \/ (ni.to = "done" /\ ni.op = "create")
TopSpareGood == Mapping /\ CanMap(ni) => SpareFor(ni) = ni.top

\* And the main table is never written in place while there is no backup of it.
NotAlone == ni.to = "main" => ni.backup # 0

\* No two logic blocks share a physical block, and none lives in an info table
\* or in the signature.
NoSharedBlock ==
  Attached =>
    \A lb \in Logic : ni.map[lb] >= 0 =>
      /\ ni.map[lb] \notin {ni.main, ni.backup, Sig} \ {0}
      /\ \A l \in Logic \ {lb} : ni.map[l] # ni.map[lb]

\* What a logic block was successfully written with is what it holds, and what
\* it will hold if power is lost now.
DataSurvives ==
  \A lb \in Logic : acked[lb] # None =>
    \A map \in {Stored} \cup (IF Attached THEN {ni.map} ELSE {}) :
      map[lb] >= 0 /\ flash[map[lb]] = Data(lb, acked[lb])

\* At rest the flash records every mapping in use.
StoredIsCurrent ==
  ni.to = "idle" /\ ~ni.prot /\ ~ni.dirty =>
    \A lb \in Logic : ni.map[lb] >= 0 => Stored[lb] = ni.map[lb]

\* What the next attach finds changes only to the table being written: neither
\* a power loss nor a failing block brings an older mapping back.
NeverRollsBack ==
  [][Tables # {} => Tables' # {} /\ (Stored' # Stored => Stored' = ni.cache.map)]_vars
=============================================================================
