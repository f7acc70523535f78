-------------------------------- MODULE Paging --------------------------------
(***************************************************************************)
(* Four levels of page tables and the Mapper that extends them             *)
(* (src/mm/paging.rs).  A raw entry is the set of the numbers of its 1     *)
(* bits: an address is a subset of 12 .. 63, flags are single bits, and    *)
(* `|=` is union.  A table is found by the address of its frame; the       *)
(* level 4 table, which the Mapper borrows, is the table Root.             *)
(***************************************************************************)
EXTENDS Integers, Sequences, FiniteSets

CONSTANTS
  Radix,           \* entries per table: 512
  Pages,           \* page numbers, in 0 .. Radix^4 - 1
  Frames,          \* addresses of frames that are mapped
  TableFrames,     \* the frames frame_allocator returns, in order
  LeafFlagSets,    \* leaf_flags
  ParentFlagSets,  \* parent_set_flags
  MaskFlagSets,    \* parent_mask_flags
  OpaqueSets       \* the sets of addresses for which translator returns None

PRESENT == 0
WRITABLE == 1
USER == 2
GLOBAL == 8
APP_PARENT_FROZEN == 62
EXECUTE_DISABLE == 63
AllFlags == 0 .. 8 \cup {APP_PARENT_FROZEN, EXECUTE_DISABLE}

ASSUME PagingAssumption ==
  /\ Radix \in Nat \ {0}
  /\ Pages \subseteq 0 .. (Radix * Radix * Radix * Radix - 1)
  /\ \A set \in LeafFlagSets \cup ParentFlagSets \cup MaskFlagSets : set \subseteq AllFlags

\* frame_allocator hands out no frame twice and never the frame of the level 4
\* table, which is in use; the frames' addresses fit the bits get_addr reads.
ASSUME FramesAssumption ==
  /\ TableFrames \in Seq((SUBSET (12 .. 47)) \ {{}})
  /\ \A i, j \in 1 .. Len(TableFrames) : TableFrames[i] = TableFrames[j] => i = j

VARIABLES
  tables,    \* address -> index -> raw entry
  pool,      \* the frames frame_allocator has left
  lost,      \* frames that were allocated and then dropped
  call,      \* the page and the parent flags of the last call of map
  reply      \* what it returned

vars == <<tables, pool, lost, call, reply>>

Root == {}

(***************************************************************************)
(* Entries                                                                 *)
(***************************************************************************)

Zero == [i \in 0 .. (Radix - 1) |-> {}]

\* MAX_PHYS_ADDR is 2 << 52.
AddrAccepted(addr) == addr \subseteq 12 .. 52

SetAddr(raw, addr) == raw \cup addr
GetAddr(raw) == raw \cap (12 .. 47)
SetFlags(raw, flags) == raw \cup flags
GetFlags(raw) == raw \cap AllFlags

Power(n) == IF n = 0 THEN 1 ELSE IF n = 1 THEN Radix
            ELSE IF n = 2 THEN Radix * Radix ELSE Radix * Radix * Radix

\* l1_index .. l4_index
Index(page, level) == (page \div Power(level - 1)) % Radix

(***************************************************************************)
(* map                                                                     *)
(***************************************************************************)

\* Where a walk stands: the tables, the allocator, and the table reached.
Walk(at, result) ==
  [tables |-> tables, pool |-> pool, lost |-> lost, at |-> at, result |-> result]

\* The table in a frame is cleared.
WithTable(ts, f) == [t \in DOMAIN ts \cup {f} |-> IF t = f THEN Zero ELSE ts[t]]

\* The frame stays with the allocator.
LinkNew_keepFrame(w, i, set) ==
  LET f == Head(w.pool)
  IN  [w EXCEPT
         !.tables = WithTable([w.tables EXCEPT ![w.at][i] =
                                 SetFlags(SetAddr(@, f), set \cup {PRESENT})], f),
         !.at = f]

LinkNew(w, i, set) ==
  LET f == Head(w.pool)
  IN  [w EXCEPT
         !.tables = WithTable([w.tables EXCEPT ![w.at][i] =
                                 SetFlags(SetAddr(@, f), set \cup {PRESENT})], f),
         !.pool = Tail(w.pool),
         !.at = f]

\* The flags to set are forgotten when the entry is present.
Follow_maskOnly(w, i, set, mask, opaque) ==
  LET addr == GetAddr(w.tables[w.at][i])
  IN  [w EXCEPT !.at = addr,
                !.result = IF addr \in opaque THEN "TranslationFailed" ELSE "ok"]

\* The flags of an entry that is present already.
Follow(w, i, set, mask, opaque) ==
  LET old  == w.tables[w.at][i]
      new  == SetFlags(old, (GetFlags(old) \cap mask) \cup set)
      addr == GetAddr(new)
  IN  [w EXCEPT !.tables[w.at][i] = new,
                !.at = addr,
                !.result = IF addr \in opaque THEN "TranslationFailed" ELSE "ok"]

\* next_level_alloc, for the entry of page in the level's table.
NextLevelAlloc(w, page, level, set, mask, opaque) ==
  LET i == Index(page, level)
  IN  IF w.result # "ok"
      THEN w
      ELSE IF PRESENT \in GetFlags(w.tables[w.at][i])
      THEN Follow(w, i, set, mask, opaque)
      ELSE IF w.pool = << >>
      THEN [w EXCEPT !.result = "FrameAllocationFailed"]
      ELSE IF Head(w.pool) \in opaque
      THEN [w EXCEPT !.pool = Tail(w.pool), !.lost = w.lost \cup {Head(w.pool)},
                     !.result = "TranslationFailed"]
      ELSE LinkNew(w, i, set)

\* From level 4 to the level 1 table.
WalkTo(page, set, mask, opaque) ==
  LET l3 == NextLevelAlloc(Walk(Root, "ok"), page, 4, set, mask, opaque)
      l2 == NextLevelAlloc(l3, page, 3, set, mask, opaque)
  IN  NextLevelAlloc(l2, page, 2, set, mask, opaque)

\* The leaf entry's bits are added to what is there.
WriteLeaf_merge(w, page, frame, leaf) ==
  [w.tables EXCEPT ![w.at][Index(page, 1)] = SetFlags(SetAddr(@, frame), leaf)]

\* The leaf entry is built from zero and overwrites what is there.
WriteLeaf(w, page, frame, leaf) ==
  [w.tables EXCEPT ![w.at][Index(page, 1)] = SetFlags(SetAddr({}, frame), leaf)]

Map(page, frame, leaf, set, mask, opaque) ==
  LET w == WalkTo(page, set, mask, opaque)
  IN  /\ call' = [page |-> page, set |-> set, mask |-> mask]
      /\ pool' = w.pool
      /\ lost' = w.lost
      /\ tables' = IF w.result = "ok" /\ AddrAccepted(frame)
                   THEN WriteLeaf(w, page, frame, leaf)
                   ELSE w.tables
      /\ reply' = IF w.result = "ok" /\ ~AddrAccepted(frame) THEN "panic" ELSE w.result

Init ==
  /\ tables = [t \in {Root} |-> Zero]
  /\ pool = TableFrames
  /\ lost = {}
  /\ call = [page |-> 0, set |-> {}, mask |-> {}]
  /\ reply = "none"

MapAny ==
  /\ reply # "panic"
  /\ \E page \in Pages, frame \in Frames, leaf \in LeafFlagSets,
        set \in ParentFlagSets, mask \in MaskFlagSets, opaque \in OpaqueSets :
       Map(page, frame, leaf, set, mask, opaque)

Halted == reply = "panic" /\ UNCHANGED vars

Next == MapAny \/ Halted

Spec == Init /\ [][Next]_vars

(***************************************************************************)
(* Properties                                                              *)
(***************************************************************************)

\* The present entries of some tables, and the tables they point to.
PresentIn(ts) == {r \in ts \X (0 .. (Radix - 1)) : PRESENT \in tables[r[1]][r[2]]}
Children(ts) == {GetAddr(tables[r[1]][r[2]]) : r \in PresentIn(ts)}

\* Every present entry of a level 4, 3 or 2 table.
ParentEntries ==
  LET l3 == Children({Root}) \cap DOMAIN tables
      l2 == Children(l3) \cap DOMAIN tables
  IN  PresentIn({Root} \cup l3 \cup l2)

\* The hardware's walk, on a set that holds the table reached, if there is one.
Below(ts, page, level) ==
  {GetAddr(tables[t][Index(page, level)]) :
     t \in {u \in ts : PRESENT \in tables[u][Index(page, level)]}}

TablesOn(page) ==
  << Below(Below(Below({Root}, page, 4), page, 3), page, 2),
     Below(Below({Root}, page, 4), page, 3),
     Below({Root}, page, 4),
     {Root} >>

\* The parent entries on the way to a page.
PathEntries(page) ==
  UNION {{<<t, Index(page, level)>> : t \in TablesOn(page)[level]} : level \in 2 .. 4}

\* The leaf entry of a page, zero if some table on the way is missing.
Leaf(page) == UNION {tables[t][Index(page, 1)] : t \in TablesOn(page)[1]}

P == INSTANCE PageMap WITH mapping <- [page \in Pages |-> Leaf(page)]

\* The tables implement a map from pages to frames: map changes the mapping of
\* the page it is given, or that of no page when it fails half-way.
ImplementsPageMap == P!Spec

\* next_level_alloc's "entry.get_addr() references a valid physical frame that
\* is not referenced by any other page tables" (paging.rs:274): every table is
\* below exactly one entry, and every frame taken from the allocator is a
\* table, but for those dropped when the translator failed.
TablesOwned ==
  /\ \A r \in ParentEntries : GetAddr(tables[r[1]][r[2]]) \in DOMAIN tables
  /\ \A t \in DOMAIN tables \ {Root} :
       Cardinality({r \in ParentEntries : GetAddr(tables[r[1]][r[2]]) = t}) = 1
  /\ Len(pool) + Cardinality(lost) + Cardinality(DOMAIN tables \ {Root}) = Len(TableFrames)
  /\ lost \cap DOMAIN tables = {}

\* After map succeeds, every entry on the way to the page is present and has the
\* flags asked for: the CPU grants an access only if all levels do.
PathHasFlags ==
  reply = "ok" =>
    /\ TablesOn(call.page)[1] # {}
    /\ \A r \in PathEntries(call.page) :
         call.set \cup {PRESENT} \subseteq tables[r[1]][r[2]]

\* "All parent table entries, if already present, will have their flags masked
\* with `parent_mask_flags`, then those in `parent_set_flags` will be set"
\* (paging.rs:165).
MaskApplied ==
  [][reply' = "ok" =>
       \A r \in ParentEntries \cap PathEntries(call'.page) :
         GetFlags(tables'[r[1]][r[2]]) =
           (GetFlags(tables[r[1]][r[2]]) \cap call'.mask) \cup call'.set]_vars

\* "A non-leaf entry with this bit is "frozen", meaning all descendent tables
\* cannot be modified" (paging.rs:108).
FrozenUnmodified ==
  [][\A r \in ParentEntries :
       APP_PARENT_FROZEN \in tables[r[1]][r[2]] =>
         LET t == GetAddr(tables[r[1]][r[2]]) IN tables'[t] = tables[t]]_vars

\* set_addr "panics if `addr` exceeds 2^52" (paging.rs:52).
AddressInRange ==
  \A page \in Pages : 52 \notin Leaf(page) \/ Leaf(page) \cap (12 .. 51) = {}
==============================================================================
