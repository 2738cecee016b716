------------------------------- MODULE MmapKv -------------------------------
(* inference/mmap_kv_cache.rs: a key/value cache whose oldest rows are moved *)
(* from RAM to one keys file and one values file per layer, which are opened *)
(* for appending and mapped again after every spill.  A row is a number; in  *)
(* a file it is two cells, so that a write which fails in the middle of a    *)
(* row shifts what follows it.  A spill fails while it opens the files,      *)
(* writes them or maps them.  Memory is counted in rows.                     *)
EXTENDS Collections

CONSTANTS LayerCount,   \* n_layers
          Budget,       \* ram_budget in rows
          SpillShare,   \* a spill moves one row in so many, 4 in the code
          MaxAppends,   \* bound: rows appended
          MaxIoFaults     \* bound: spills that fail and crashes

ASSUME MmapAssumption == /\ LayerCount \in Nat \ {0} /\ Budget \in Nat
                         /\ SpillShare \in Nat \ {0}
                         /\ MaxAppends \in Nat /\ MaxIoFaults \in Nat

KvLayers == 1..LayerCount

VARIABLES
  kv_layers,  \* MmapLayerKv: hot rows, cold_len, total_len, the two files, how far they are mapped
  opened,  \* cold_key_file, cold_value_file: "none", "keys" or "both"
  ramUsed,  \* ram_used
  written,  \* history: the rows appended since the layer was last emptied
  stale,    \* history: layers with something in their files that is not a row of theirs
  unmapped,  \* history: layers whose last spill did not map its files again
  appends,  \* rows appended so far
  ioFaults    \* failures and crashes so far

kvVars == <<kv_layers, opened, ramUsed, written, stale, unmapped, appends, ioFaults>>

NewLayer(keys, vals) ==
  [hot |-> <<>>, cold |-> 0, total |-> 0, keys |-> keys, vals |-> vals, kmap |-> 0, vmap |-> 0]

KvInit == /\ kv_layers = [l \in KvLayers |-> NewLayer(<<>>, <<>>)]
          /\ opened = [l \in KvLayers |-> "none"]
          /\ ramUsed = 0 /\ stale = {} /\ unmapped = {} /\ appends = 0 /\ ioFaults = 0
          /\ written = [l \in KvLayers |-> <<>>]

KvMin(a, b) == IF a <= b THEN a ELSE b
KvMax(a, b) == IF a <= b THEN b ELSE a
HotRows == SumOver([l \in KvLayers |-> Len(kv_layers[l].hot)], KvLayers)

Cells(rows, n) == [i \in 1..2 * n |-> <<rows[(i + 1) \div 2], 2 - (i % 2)>>]

(* Reading a row: from the mapping as far as it reaches, or from RAM; 0 is   *)
(* anything that is no row.                                                  *)
ReadCold(cells, mapped, pos) ==
  IF 2 * pos + 2 <= mapped /\ \A h \in 1..2 : cells[2 * pos + h] = <<cells[2 * pos + 1][1], h>>
    THEN cells[2 * pos + 1][1] ELSE 0
KeyAt(l, pos) == LET y == kv_layers[l] IN
  IF pos < y.cold THEN ReadCold(y.keys, y.kmap, pos) ELSE y.hot[pos - y.cold + 1]
ValueAt(l, pos) == LET y == kv_layers[l] IN
  IF pos < y.cold THEN ReadCold(y.vals, y.vmap, pos) ELSE y.hot[pos - y.cold + 1]

-----------------------------------------------------------------------------
SpillCount == KvMax(Len(kv_layers[1].hot) \div SpillShare, 1)
Moved(l) == KvMin(SpillCount, Len(kv_layers[l].hot))
Spilling == {l \in KvLayers : Moved(l) > 0}

FreedTwice == 2 * SumOver([m \in KvLayers |-> Moved(m)], KvLayers)
Freed == SumOver([m \in KvLayers |-> Moved(m)], KvLayers)

SpillMapsFirst(l) ==
  LET y == kv_layers[l]
      n == Moved(l)
      k == y.keys \o Cells(y.hot, n)
      v == y.vals \o Cells(y.hot, n)
  IN  IF n = 0 THEN y
      ELSE [y EXCEPT !.hot = SubSeq(y.hot, n + 1, Len(y.hot)), !.cold = @ + n,
                     !.keys = k, !.vals = v, !.kmap = Len(y.keys), !.vmap = Len(y.vals)]

(* spill_to_cold: the oldest rows are written behind what the files hold,    *)
(* then leave RAM, and the files are mapped again.                           *)
SpillToCold(l) ==
  LET y == kv_layers[l]
      n == Moved(l)
      k == y.keys \o Cells(y.hot, n)
      v == y.vals \o Cells(y.hot, n)
  IN  IF n = 0 THEN y
      ELSE [y EXCEPT !.hot = SubSeq(y.hot, n + 1, Len(y.hot)), !.cold = @ + n,
                     !.keys = k, !.vals = v, !.kmap = Len(k), !.vmap = Len(v)]

(* A spill whose write fails: whole rows and a part of the next one may be   *)
(* in the files; no row has left RAM and no mapping has changed.             *)
Torn(l, rows, keyCells, valCells) ==
  LET y == kv_layers[l]
      cells == Cells(y.hot, Len(y.hot))
  IN  [y EXCEPT !.keys = @ \o SubSeq(cells, 1, 2 * rows + keyCells),
                !.vals = @ \o SubSeq(cells, 1, 2 * rows + valCells)]

(* A spill whose mapping fails comes after its rows have left RAM: the old   *)
(* mapping of the values stays, and that of the keys unless theirs was made. *)
Remapped(l, keysMapped) ==
  [SpillToCold(l) EXCEPT !.kmap = IF keysMapped THEN @ ELSE kv_layers[l].kmap,
                         !.vmap = kv_layers[l].vmap]

(* The keys file is there and the values file is not: unwrap panics.         *)
HalfOpen == {l \in Spilling : opened[l] = "keys"}

StoreRow(l, row, ls) == [ls EXCEPT ![l].hot = Append(@, row), ![l].total = @ + 1]

(* A token's rows arrive layer by layer.                                     *)
Turn(l) == IF l = 1 THEN \A m \in KvLayers : kv_layers[m].total >= kv_layers[1].total
           ELSE kv_layers[l].total < kv_layers[l - 1].total

AppendFits(l) ==
  /\ Turn(l) /\ appends < MaxAppends /\ ramUsed + 1 <= Budget
  /\ kv_layers' = StoreRow(l, appends + 1, kv_layers)
  /\ ramUsed' = ramUsed + 1
  /\ written' = [written EXCEPT ![l] = Append(@, appends + 1)]
  /\ appends' = appends + 1
  /\ UNCHANGED <<opened, stale, unmapped, ioFaults>>

(* spill_oldest_hot: the same number of rows leaves every layer that has     *)
(* them; then the row is stored, whether or not that made room.              *)
AppendSpills(l) ==
  /\ Turn(l) /\ appends < MaxAppends /\ ramUsed + 1 > Budget /\ HalfOpen = {}
  /\ kv_layers' = StoreRow(l, appends + 1, [m \in KvLayers |-> SpillToCold(m)])
  /\ opened' = [m \in KvLayers |-> IF m \in Spilling THEN "both" ELSE opened[m]]
  /\ ramUsed' = KvMax(ramUsed - Freed, 0) + 1
  /\ written' = [written EXCEPT ![l] = Append(@, appends + 1)]
  /\ unmapped' = unmapped \ Spilling
  /\ appends' = appends + 1
  /\ UNCHANGED <<stale, ioFaults>>

(* The spill of layer f fails and leaves it as z, with these files open: the *)
(* layers before it have spilled, their memory is not given back, and the    *)
(* row is not stored.                                                        *)
FailsAt(l, f, z, files) ==
  /\ Turn(l) /\ appends < MaxAppends /\ ramUsed + 1 > Budget /\ ioFaults < MaxIoFaults
  /\ f \in Spilling /\ \A m \in HalfOpen : m > f
  /\ kv_layers' = [m \in KvLayers |-> IF m < f THEN SpillToCold(m) ELSE IF m = f THEN z ELSE kv_layers[m]]
  /\ opened' = [m \in KvLayers |-> IF m \in Spilling /\ m < f THEN "both"
                                   ELSE IF m = f THEN files ELSE opened[m]]
  /\ ioFaults' = ioFaults + 1
  /\ UNCHANGED <<ramUsed, written, appends>>

Mended(f) == unmapped \ {m \in Spilling : m < f}

OpenFails(l, f) ==
  /\ opened[f] = "none"
  /\ \E files \in {"none", "keys"} : FailsAt(l, f, kv_layers[f], files)
  /\ unmapped' = Mended(f)
  /\ UNCHANGED stale

WriteFails(l, f) ==
  \E rows \in 0..Moved(f) - 1 : \E part \in {<<0, 0>>, <<1, 0>>, <<2, 0>>, <<2, 1>>} :
    /\ FailsAt(l, f, Torn(f, rows, part[1], part[2]), "both")
    /\ unmapped' = Mended(f)
    /\ stale' = IF rows + part[1] = 0 THEN stale ELSE stale \union {f}

MapFails(l, f) ==
  /\ \E keysMapped \in BOOLEAN : FailsAt(l, f, Remapped(f, keysMapped), "both")
  /\ unmapped' = Mended(f) \union {f}
  /\ UNCHANGED stale

AppendFails(l) == \E f \in KvLayers : OpenFails(l, f) \/ WriteFails(l, f) \/ MapFails(l, f)

(* No layer has a row, a file that is open or a mapping.                     *)
NothingHeld(files) ==
  /\ kv_layers' = [l \in KvLayers |-> NewLayer(files[l].keys, files[l].vals)]
  /\ opened' = [l \in KvLayers |-> "none"]
  /\ ramUsed' = 0 /\ written' = [l \in KvLayers |-> <<>>] /\ unmapped' = {}
  /\ stale' = {l \in KvLayers : files[l].keys # <<>>}

NoFiles == [l \in KvLayers |-> [keys |-> <<>>, vals |-> <<>>]]

(* A panic unwinds through the owner of the cache, whose drop clears it.     *)
SpillPanics(l) ==
  /\ Turn(l) /\ appends < MaxAppends /\ ramUsed + 1 > Budget /\ HalfOpen # {}
  /\ NothingHeld(NoFiles)
  /\ UNCHANGED <<appends, ioFaults>>

(* clear, also what a drop does: the files go too.                           *)
ClearKv == NothingHeld(NoFiles) /\ UNCHANGED <<appends, ioFaults>>

(* rollback of one layer: within RAM it truncates; into cold storage it      *)
(* empties the layer and leaves its files and mappings.                      *)
Rolled(y, n) ==
  IF n >= y.total THEN y
  ELSE IF n <= y.cold THEN [y EXCEPT !.hot = <<>>, !.cold = 0, !.total = 0]
  ELSE [y EXCEPT !.hot = SubSeq(y.hot, 1, n - y.cold), !.total = n]

Emptied(n) == {l \in KvLayers : n < kv_layers[l].total /\ n <= kv_layers[l].cold}

RollbackKv(n) ==
  /\ n < kv_layers[1].total
  /\ kv_layers' = [l \in KvLayers |-> Rolled(kv_layers[l], n)]
  /\ ramUsed' = SumOver([l \in KvLayers |-> Len(Rolled(kv_layers[l], n).hot)], KvLayers)
  /\ written' = [l \in KvLayers |-> IF l \in Emptied(n) THEN <<>> ELSE SubSeq(written[l], 1, KvMin(n, Len(written[l])))]
  /\ stale' = stale \union {l \in Emptied(n) : kv_layers[l].keys # <<>>}
  /\ UNCHANGED <<opened, unmapped, appends, ioFaults>>

(* The process dies and another one opens the same backing directory.        *)
Reopen ==
  /\ ioFaults < MaxIoFaults
  /\ NothingHeld(kv_layers)
  /\ ioFaults' = ioFaults + 1
  /\ UNCHANGED appends

KvNext == \/ \E l \in KvLayers : AppendFits(l) \/ AppendSpills(l) \/ AppendFails(l) \/ SpillPanics(l)
          \/ ClearKv \/ Reopen
          \/ \E n \in 0..MaxAppends : RollbackKv(n)

KvSpec == KvInit /\ [][KvNext]_kvVars

-----------------------------------------------------------------------------
(* The cache is a sequence of rows to its reader, wherever they are: every   *)
(* position of a layer reads the key and the value that were appended there, *)
(* unless the layer's files hold something else.  A cold row of a layer      *)
(* whose last spill did not map its files again may read as nothing, never   *)
(* as another row, and the layer's next spill that succeeds brings it back.  *)
TiersReadBack ==
  \A l \in KvLayers :
    /\ kv_layers[l].total = Len(written[l]) /\ kv_layers[l].total = kv_layers[l].cold + Len(kv_layers[l].hot)
    /\ l \notin stale => \A p \in 0..kv_layers[l].total - 1 :
         LET reads == {written[l][p + 1]} \union (IF l \in unmapped /\ p < kv_layers[l].cold THEN {0} ELSE {})
         IN  KeyAt(l, p) \in reads /\ ValueAt(l, p) \in reads

(* Whatever fails, no more rows are in RAM than the budget has room for (one *)
(* when it has room for none), and none of them is uncounted.                *)
RamRespected == HotRows <= KvMax(Budget, 1) /\ HotRows <= ramUsed

TierInv == TiersReadBack /\ RamRespected

-----------------------------------------------------------------------------
(* What the comments of rollback and append say, for every layer: "Rollback  *)
(* to a given sequence length", a row that is read back whatever happened    *)
(* before, one that a failed spill does not take away, and an append that    *)
(* returns its errors.  TLC refutes the four.                                *)
RollsBackToLength ==
  [][\A n \in 0..MaxAppends : RollbackKv(n) => \A l \in KvLayers : kv_layers'[l].total = KvMin(n, kv_layers[l].total)]_kvVars
ColdReadsBack ==
  \A l \in KvLayers : \A p \in 0..kv_layers[l].total - 1 : KeyAt(l, p) = written[l][p + 1]
FailedSpillKeepsRows ==
  \A l \in KvLayers \ stale : \A p \in 0..kv_layers[l].total - 1 : KeyAt(l, p) = written[l][p + 1]
SpillsNeverPanic == [][\A l \in KvLayers : ~SpillPanics(l)]_kvVars

=============================================================================
