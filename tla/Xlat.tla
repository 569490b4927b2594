-------------------------------- MODULE Xlat --------------------------------
(***************************************************************************)
(* lib/xlat_tables_v2/xlat_tables_core.c: static regions, the tables built *)
(* from them, and dynamic regions that are mapped and unmapped afterwards. *)
(*                                                                         *)
(* A context is used by one CPU at a time: a call is one step.  Addresses  *)
(* and sizes are in pages; the end of a range is the page after it.  The   *)
(* tables are walked by recursive operators, which take and return the     *)
(* memory [tables, count, bad]: the descriptors, tables_mapped_regions,    *)
(* and whether an assertion failed.  Table 0 is the base table.            *)
(***************************************************************************)
EXTENDS Integers, Sequences, FiniteSets, FiniteSetsExt, SequencesExt

CONSTANTS ENTRIES,     \* XLAT_TABLE_ENTRIES
          BaseLevel, BaseEntries,
          TablesNum, MmapNum,
          MinLvlBlock, \* MIN_LVL_BLOCK_DESC
          PaMax,       \* pages of physical address space
          MaxCount,    \* bound on the count of a table that failed calls add to
          Static,      \* regions that may be added before the tables are built ...
          Dynamic      \* ... and at any time

ASSUME XlatAssumption == BaseLevel \in 1..3 /\ ENTRIES > 1 /\ BaseEntries > 0

VARIABLES mmap, mem, initialized,
          max_va, max_pa, \* the page after the highest one, 0 when there is none
          last,           \* the result of the last call
          spoilt          \* history: a call that failed left the tables changed

vars == <<mmap, mem, initialized, max_va, max_pa, last, spoilt>>

Subtables == 1..TablesNum
XLAT_BLOCK_SIZE(level) == ENTRIES^(3 - level)
Entries(t) == IF t = 0 THEN BaseEntries ELSE ENTRIES
VaMax == BaseEntries * XLAT_BLOCK_SIZE(BaseLevel)
End(mm) == mm.va + mm.size

INVALID_DESC == [type |-> "invalid"]
TableDesc(t) == [type |-> "table", table |-> t]
BlockDesc(mm, pa) == [type |-> "block", pa |-> pa, attr |-> mm.attr]

Empty == [tables |-> [t \in 0..TablesNum |-> [i \in 0..(Entries(t) - 1) |-> INVALID_DESC]],
          count |-> [t \in Subtables |-> 0], bad |-> FALSE]

-----------------------------------------------------------------------------
\* xlat_table_get_empty(): the first table that no region counts in, or 0.
EmptyTable(m) == LET free == {t \in Subtables : m.count[t] = 0} IN IF free = {} THEN 0 ELSE Min(free)

\* The tables below the base table count the regions in them.
Inc(m, t) == IF t = 0 THEN m ELSE [m EXCEPT !.count[t] = @ + 1]
Dec(m, t) == IF t = 0 THEN m ELSE [m EXCEPT !.count[t] = @ - 1]

\* xlat_tables_find_start_va() and xlat_tables_va_to_index().
StartIdx(mm, base, level) == IF mm.va > base THEN (mm.va - base) \div XLAT_BLOCK_SIZE(level) ELSE 0

Covers(mm, va, level) == mm.va <= va /\ End(mm) >= va + XLAT_BLOCK_SIZE(level)

\* Mutant: a region whose physical address is not aligned gets a block.
MapAction_AnyPa(mm, desc, pa, va, level) ==
  LET fits == level >= MinLvlBlock /\ mm.granularity >= XLAT_BLOCK_SIZE(level) IN
  CASE desc.type = "table" -> "recurse"
    [] Covers(mm, va, level) /\ desc.type = "block" -> "none"
    [] Covers(mm, va, level) /\ (level = 3 \/ fits) -> "block"
    [] OTHER -> IF level < 3 /\ desc.type = "invalid" THEN "create" ELSE "assert"

\* xlat_tables_map_region_action(): what is mapped stays; a block is used
\* where level, granularity and the physical address allow it.
MapAction(mm, desc, pa, va, level) ==
  LET fits == /\ pa % XLAT_BLOCK_SIZE(level) = 0 /\ level >= MinLvlBlock
              /\ mm.granularity >= XLAT_BLOCK_SIZE(level) IN
  CASE desc.type = "table" -> "recurse"
    [] Covers(mm, va, level) /\ desc.type = "block" -> "none"
    [] Covers(mm, va, level) /\ (level = 3 \/ fits) -> "block"
    [] OTHER -> IF level < 3 /\ desc.type = "invalid" THEN "create" ELSE "assert"

\* xlat_tables_map_region() from an entry on.  The result holds the memory, and
\* where the mapping ended: after the last page it mapped, or, when it ran out
\* of tables, at the entry it could not map.
RECURSIVE MapRegion(_, _, _, _, _, _)
MapRegion(m, mm, base, t, level, idx) ==
  LET size == XLAT_BLOCK_SIZE(level)
      va == base + idx * size
      pa == mm.pa + va - mm.va
      desc == m.tables[t][idx]
      action == MapAction(mm, desc, pa, va, level)
      GoOn(n) == IF idx + 1 < Entries(t) /\ va + size < End(mm)
                 THEN MapRegion(n, mm, base, t, level, idx + 1)
                 ELSE [mem |-> n, end |-> va + size, ok |-> TRUE]
      Into(n, s) == LET r == MapRegion(Inc(n, s), mm, va, s, level + 1, StartIdx(mm, va, level + 1)) IN
                    IF r.ok /\ r.end = va + size THEN GoOn(r.mem) ELSE r
      new == EmptyTable(m) IN
  CASE action = "none" -> GoOn(m)
    [] action = "block" -> GoOn([m EXCEPT !.tables[t][idx] = BlockDesc(mm, pa), !.bad = @ \/ pa % size # 0])
    [] action = "recurse" -> Into(m, desc.table)
    [] action = "create" /\ new = 0 -> [mem |-> m, end |-> va, ok |-> FALSE]
    [] action = "create" /\ new # 0 -> Into([m EXCEPT !.tables[t][idx] = TableDesc(new)], new)
    [] action = "assert" -> GoOn([m EXCEPT !.bad = TRUE])

MapTop(m, mm) == MapRegion(m, mm, 0, 0, BaseLevel, StartIdx(mm, 0, BaseLevel))

\* Mutant: a table stays referenced when its last region is gone.
Unlink_Never(m, t, idx, s) == m

\* An empty subtable loses its reference.
Unlink(m, t, idx, s) == IF m.count[s] = 0 THEN [m EXCEPT !.tables[t][idx] = INVALID_DESC] ELSE m

\* xlat_tables_unmap_region() from an entry on.
RECURSIVE UnmapRegion(_, _, _, _, _, _)
UnmapRegion(m, mm, base, t, level, idx) ==
  LET size == XLAT_BLOCK_SIZE(level)
      va == base + idx * size
      desc == m.tables[t][idx]
      GoOn(n) == IF idx + 1 < Entries(t) /\ va + size < End(mm)
                 THEN UnmapRegion(n, mm, base, t, level, idx + 1)
                 ELSE Dec(n, t) IN
  CASE desc.type = "table" ->
         GoOn(Unlink(UnmapRegion(m, mm, va, desc.table, level + 1, StartIdx(mm, va, level + 1)),
                     t, idx, desc.table))
    [] desc.type = "block" /\ Covers(mm, va, level) -> GoOn([m EXCEPT !.tables[t][idx] = INVALID_DESC])
    [] OTHER -> GoOn([m EXCEPT !.bad = TRUE])

UnmapTop(m, mm) == UnmapRegion(m, mm, 0, 0, BaseLevel, StartIdx(mm, 0, BaseLevel))

-----------------------------------------------------------------------------
\* mmap_add_region_check(), for the overlaps of two regions.
Compatible(mm, r) ==
  LET inside(a, b) == b.va <= a.va /\ End(a) <= End(b) IN
  IF inside(mm, r) \/ inside(r, mm)
  THEN ~mm.dynamic /\ ~r.dynamic /\ r.va - r.pa = mm.va - mm.pa /\ <<r.va, r.size>> # <<mm.va, mm.size>>
  ELSE /\ End(mm) <= r.va \/ End(r) <= mm.va
       /\ mm.pa + mm.size <= r.pa \/ r.pa + r.size <= mm.pa

Allowed(mm) == /\ End(mm) <= VaMax /\ mm.pa + mm.size <= PaMax
               /\ Len(mmap) < MmapNum
               /\ \A k \in DOMAIN mmap : Compatible(mm, mmap[k])

\* The regions are sorted by their end, and the smaller first.
Inserted(mm) ==
  LET before(r) == End(r) < End(mm) \/ (End(r) = End(mm) /\ r.size < mm.size)
      pos == Cardinality({k \in DOMAIN mmap : \A j \in 1..k : before(mmap[j])}) IN
  InsertAt(mmap, pos + 1, mm)

Highest(a, b) == IF a > b THEN a ELSE b

Added(mm) == /\ mmap' = Inserted(mm)
             /\ max_va' = Highest(max_va, End(mm)) /\ max_pa' = Highest(max_pa, mm.pa + mm.size)
             /\ last' = "ok" /\ UNCHANGED <<initialized, spoilt>>

Init == /\ mmap = <<>> /\ mem = Empty /\ initialized = FALSE
        /\ max_va = 0 /\ max_pa = 0 /\ last = "ok" /\ spoilt = FALSE

\* mmap_add_region_ctx(), before the tables are built.
AddStatic(mm) == /\ ~initialized /\ Allowed(mm)
                 /\ Added(mm) /\ UNCHANGED mem

\* mmap_alloc_va_align_ctx() for the address after max_va.  When there is no
\* region yet this is the second byte, which only rounding makes a page.
AllocVa(mm) ==
  LET aligned == {l \in BaseLevel..2 : mm.pa % XLAT_BLOCK_SIZE(l) = 0 /\ mm.size % XLAT_BLOCK_SIZE(l) = 0}
      block == XLAT_BLOCK_SIZE(Min(aligned))
      from == IF max_va = 0 THEN 1 ELSE max_va IN
  IF aligned # {} THEN ((from + block - 1) \div block) * block ELSE max_va

\* mmap_add_region_alloc_va_ctx().
AddStaticAlloc(mm) == AllocVa(mm) > 0 /\ AddStatic([mm EXCEPT !.va = AllocVa(mm)])

\* init_xlat_tables_ctx() maps the regions in their order; it panics when the
\* tables do not suffice.
InitTables ==
  LET step(acc, mm) == LET r == MapTop(acc.mem, mm) IN
                       [mem |-> r.mem, ok |-> acc.ok /\ r.ok /\ r.end = End(mm)]
      result == FoldLeft(step, [mem |-> Empty, ok |-> TRUE], mmap) IN
  /\ ~initialized /\ result.ok
  /\ mem' = result.mem /\ initialized' = TRUE
  /\ last' = "ok" /\ UNCHANGED <<mmap, max_va, max_pa, spoilt>>

\* What is mapped of a region that ran out of tables is unmapped, up to the
\* entry that failed.
Undone(r, mm) == IF mm.va >= r.end THEN r.mem ELSE UnmapTop(r.mem, [mm EXCEPT !.size = r.end - mm.va])

\* mmap_add_dynamic_region_ctx().
AddDynamic(mm) ==
  LET r == MapTop(mem, mm) IN
  /\ Allowed(mm)
  /\ IF ~initialized THEN Added(mm) /\ UNCHANGED mem
     ELSE IF r.ok /\ r.end = End(mm) THEN Added(mm) /\ mem' = r.mem
     ELSE /\ mem' = Undone(r, mm)
          /\ \A t \in Subtables : mem'.count[t] <= MaxCount
          /\ spoilt' = (spoilt \/ mem' # mem)
          /\ last' = "ENOMEM" /\ UNCHANGED <<mmap, initialized, max_va, max_pa>>

\* mmap_add_dynamic_region_alloc_va_ctx().
AddDynamicAlloc(mm) == /\ AllocVa(mm) > 0
                       /\ AddDynamic([mm EXCEPT !.va = AllocVa(mm)])

\* mmap_remove_dynamic_region_ctx().
RemoveDynamic(k) ==
  LET mm == mmap[k]
      rest == RemoveAt(mmap, k)
      top(f(_), old) == IF f(mm) = old THEN Max({0} \cup {f(rest[j]) : j \in DOMAIN rest}) ELSE old
      paEnd(r) == r.pa + r.size IN
  /\ mm.dynamic
  /\ mem' = IF initialized THEN UnmapTop(mem, mm) ELSE mem
  /\ mmap' = rest
  /\ max_va' = top(End, max_va) /\ max_pa' = top(paEnd, max_pa)
  /\ last' = "ok" /\ UNCHANGED <<initialized, spoilt>>

Next == \/ \E mm \in Static : AddStatic(mm) \/ AddStaticAlloc(mm)
        \/ InitTables
        \/ \E mm \in Dynamic : AddDynamic(mm) \/ AddDynamicAlloc(mm)
        \/ \E k \in DOMAIN mmap : RemoveDynamic(k)

Spec == Init /\ [][Next]_vars
-----------------------------------------------------------------------------
\* The tables translate what the regions say, and nothing else: a page of no
\* region faults, another one has the address and attributes of the smallest
\* region it is in, whatever was mapped, refused for want of tables and
\* unmapped before, and whichever tables were used again.
RECURSIVE Walk(_, _, _)
Walk(t, level, va) ==
  LET desc == mem.tables[t][(va \div XLAT_BLOCK_SIZE(level)) % Entries(t)] IN
  CASE desc.type = "invalid" -> <<>>
    [] desc.type = "block" -> <<desc.pa + (va % XLAT_BLOCK_SIZE(level)), desc.attr>>
    [] desc.type = "table" -> Walk(desc.table, level + 1, va)

Expected(va) ==
  LET here == {mmap[k] : k \in {j \in DOMAIN mmap : mmap[j].va <= va /\ va < End(mmap[j])}}
      r == CHOOSE x \in here : \A y \in here : x.size <= y.size IN
  IF here = {} THEN <<>> ELSE <<r.pa + va - r.va, r.attr>>

TranslationIsExact ==
  initialized => /\ ~mem.bad
                 /\ \A va \in 0..(VaMax - 1) : Walk(0, BaseLevel, va) = Expected(va)

\* The subtables on the way to a page.
RECURSIVE PathFrom(_, _, _, _)
PathFrom(m, t, level, va) ==
  LET desc == m.tables[t][(va \div XLAT_BLOCK_SIZE(level)) % Entries(t)] IN
  IF desc.type = "table" THEN {[table |-> desc.table, start |-> va - (va % XLAT_BLOCK_SIZE(level))]}
                              \cup PathFrom(m, desc.table, level + 1, va) ELSE {}

\* A subtable counts every region in its range, so that it is not used again
\* under a region that is left: one that counts none is clean, and no
\* descriptor leads to it.  It counts no more than those, which would lose the
\* table, until a call that ran out of tables was not undone.
SpanOf(t) == {va \in 0..(VaMax - 1) : \E p \in PathFrom(mem, 0, BaseLevel, va) : p.table = t}
RegionsIn(t) == {k \in DOMAIN mmap : \E va \in SpanOf(t) : mmap[k].va <= va /\ va < End(mmap[k])}
CountsAreSound == \A t \in Subtables :
  /\ initialized => mem.count[t] >= Cardinality(RegionsIn(t))
  /\ initialized /\ ~spoilt => mem.count[t] = Cardinality(RegionsIn(t))
  /\ mem.count[t] = 0 => SpanOf(t) = {} /\ \A i \in DOMAIN mem.tables[t] : mem.tables[t][i] = INVALID_DESC

\* "Something went wrong after mapping some table entries, undo every change
\* done up to this point": a call that fails leaves the tables as they were.
FailedAddIsUndone == [][last' = "ENOMEM" => mem' = mem]_vars
=============================================================================
