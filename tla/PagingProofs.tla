----------------------------- MODULE PagingProofs -----------------------------
(***************************************************************************)
(* Proofs about Paging, for every radix, every set of pages and frames and *)
(* every sequence of calls of map: the tables are a tree in which every    *)
(* table has one parent entry and its level one less than its parent's;    *)
(* from the tree follow that map writes the entries it promises and no     *)
(* others, and that the tables implement PageMap.                          *)
(***************************************************************************)
EXTENDS Paging, TLAPS

(***************************************************************************)
(* The hardware's walk in a given set of tables                            *)
(***************************************************************************)

Indices == 0 .. (Radix - 1)

BelowIn(T, ts, page, level) ==
  {GetAddr(T[t][Index(page, level)]) :
     t \in {u \in ts : PRESENT \in T[u][Index(page, level)]}}

\* The table of a level on the way to a page, if there is one.
OnWay(T, page, level) ==
  IF level = 4 THEN {Root}
  ELSE IF level = 3 THEN BelowIn(T, {Root}, page, 4)
  ELSE IF level = 2 THEN BelowIn(T, BelowIn(T, {Root}, page, 4), page, 3)
  ELSE BelowIn(T, BelowIn(T, BelowIn(T, {Root}, page, 4), page, 3), page, 2)

LeafIn(T, page) == UNION {T[t][Index(page, 1)] : t \in OnWay(T, page, 1)}

(***************************************************************************)
(* The tree                                                                *)
(***************************************************************************)

Levels(T, lvl) ==
  /\ lvl \in [DOMAIN T -> 1 .. 4]
  /\ Root \in DOMAIN T
  /\ lvl[Root] = 4
  /\ \A t \in DOMAIN T : DOMAIN T[t] = Indices

IsParent(T, lvl, t, i) == lvl[t] > 1 /\ PRESENT \in T[t][i]

\* A present entry points to a table one level down; any other entry is zero.
Descends(T, lvl) ==
  \A t \in DOMAIN T, i \in Indices :
    /\ IsParent(T, lvl, t, i) =>
         GetAddr(T[t][i]) \in DOMAIN T /\ lvl[GetAddr(T[t][i])] = lvl[t] - 1
    /\ lvl[t] > 1 /\ PRESENT \notin T[t][i] => T[t][i] = {}

OneParent(T, lvl) ==
  \A t, u \in DOMAIN T : \A i, j \in Indices :
    IsParent(T, lvl, t, i) /\ IsParent(T, lvl, u, j) /\ GetAddr(T[t][i]) = GetAddr(T[u][j])
      => t = u /\ i = j

HasParent(T, lvl) ==
  \A t \in DOMAIN T \ {Root} :
    \E u \in DOMAIN T : \E i \in Indices : IsParent(T, lvl, u, i) /\ GetAddr(T[u][i]) = t

Tree(T, lvl) ==
  Levels(T, lvl) /\ Descends(T, lvl) /\ OneParent(T, lvl) /\ HasParent(T, lvl)

FramesOf(seq) == {seq[i] : i \in 1 .. Len(seq)}

\* The frames of the allocator: left, dropped, or a table.
FramesLeft(all, T, left, dropped) ==
  /\ left \in Seq((SUBSET (12 .. 47)) \ {{}})
  /\ \A i, j \in 1 .. Len(left) : left[i] = left[j] => i = j
  /\ \A i \in 1 .. Len(left) : left[i] \notin DOMAIN T /\ left[i] \notin dropped
  /\ dropped \cap DOMAIN T = {}
  /\ FramesOf(left) \cup dropped \cup (DOMAIN T \ {Root}) = all

(***************************************************************************)
(* Entries and indices                                                     *)
(***************************************************************************)

\* set_flags does not touch the address of an entry.
LEMMA FlagsKeepAddr ==
  ASSUME NEW raw, NEW flags, flags \subseteq AllFlags
  PROVE  GetAddr(raw \cup flags) = GetAddr(raw)
<1>1. \A b \in flags : b \notin 12 .. 47
  BY DEF AllFlags, APP_PARENT_FROZEN, EXECUTE_DISABLE
<1>. QED BY <1>1 DEF GetAddr

\* What next_level_alloc stores in an entry that was zero.
LEMMA LinkAddr ==
  ASSUME NEW f, NEW flags, f \subseteq 12 .. 47, flags \subseteq AllFlags
  PROVE  /\ GetAddr(SetFlags(SetAddr({}, f), flags \cup {PRESENT})) = f
         /\ PRESENT \in SetFlags(SetAddr({}, f), flags \cup {PRESENT})
<1>1. flags \cup {PRESENT} \subseteq AllFlags
  BY DEF AllFlags, PRESENT
<1>2. GetAddr(f \cup (flags \cup {PRESENT})) = GetAddr(f)
  BY <1>1, FlagsKeepAddr
<1>. QED BY <1>2 DEF GetAddr, SetFlags, SetAddr

LEMMA IndexIsIndex ==
  ASSUME NEW page \in Pages, NEW level \in 1 .. 4
  PROVE  Index(page, level) \in Indices
<1>1. Radix \in Nat /\ Radix > 0 /\ page \in Nat
  BY PagingAssumption
<1>2. Power(level - 1) \in Nat /\ Power(level - 1) > 0
  <2>1. Radix * Radix \in Nat /\ Radix * Radix > 0
    BY <1>1
  <2>2. Radix * Radix * Radix \in Nat /\ Radix * Radix * Radix > 0
    BY <1>1, <2>1
  <2>. QED BY <1>1, <2>1, <2>2 DEF Power
<1>3. page \div Power(level - 1) \in Nat
  BY <1>1, <1>2
<1>. QED BY <1>1, <1>3 DEF Index, Indices
(***************************************************************************)
(* The way to a page                                                       *)
(***************************************************************************)

LEMMA WayIs ==
  ASSUME NEW T, NEW page
  PROVE  /\ OnWay(T, page, 4) = {Root}
         /\ OnWay(T, page, 3) = BelowIn(T, {Root}, page, 4)
         /\ OnWay(T, page, 2) = BelowIn(T, BelowIn(T, {Root}, page, 4), page, 3)
         /\ OnWay(T, page, 1) =
              BelowIn(T, BelowIn(T, BelowIn(T, {Root}, page, 4), page, 3), page, 2)
<1>1. OnWay(T, page, 4) = {Root}
  BY DEF OnWay
<1>2. OnWay(T, page, 3) = BelowIn(T, {Root}, page, 4)
  BY DEF OnWay
<1>3. OnWay(T, page, 2) = BelowIn(T, BelowIn(T, {Root}, page, 4), page, 3)
  BY DEF OnWay
<1>4. OnWay(T, page, 1) = BelowIn(T, BelowIn(T, BelowIn(T, {Root}, page, 4), page, 3), page, 2)
  BY DEF OnWay
<1>. QED BY <1>1, <1>2, <1>3, <1>4

LEMMA OneDown ==
  ASSUME NEW T, NEW page, NEW level \in 2 .. 4
  PROVE  OnWay(T, page, level - 1) = BelowIn(T, OnWay(T, page, level), page, level)
<1>1. CASE level = 4
  <2>1. level - 1 = 3
    BY <1>1
  <2>. QED BY <1>1, <2>1 DEF OnWay
<1>2. CASE level = 3
  <2>1. level - 1 = 2
    BY <1>2
  <2>. QED BY <1>2, <2>1 DEF OnWay
<1>3. CASE level = 2
  <2>1. level - 1 = 1
    BY <1>3
  <2>. QED BY <1>3, <2>1 DEF OnWay
<1>. QED BY <1>1, <1>2, <1>3

\* One step of the walk: from tables of a level to tables one level down.
LEMMA BelowLevel ==
  ASSUME NEW T, NEW lvl, Tree(T, lvl), NEW page \in Pages, NEW level \in 2 .. 4,
         \A t \in OnWay(T, page, level) : t \in DOMAIN T /\ lvl[t] = level
  PROVE  \A t \in OnWay(T, page, level - 1) : t \in DOMAIN T /\ lvl[t] = level - 1
<1>1. Index(page, level) \in Indices
  BY IndexIsIndex
<1>2. SUFFICES ASSUME NEW u \in OnWay(T, page, level), PRESENT \in T[u][Index(page, level)]
               PROVE  /\ GetAddr(T[u][Index(page, level)]) \in DOMAIN T
                      /\ lvl[GetAddr(T[u][Index(page, level)])] = level - 1
  BY OneDown DEF BelowIn
<1>3. u \in DOMAIN T /\ lvl[u] = level
  BY <1>2
<1>. QED BY <1>1, <1>2, <1>3 DEF Tree, Descends, IsParent

\* The table of a level on the way to a page is a table of that level.
LEMMA WayLevel ==
  ASSUME NEW T, NEW lvl, Tree(T, lvl), NEW page \in Pages, NEW level \in 1 .. 4
  PROVE  \A t \in OnWay(T, page, level) : t \in DOMAIN T /\ lvl[t] = level
<1>4. \A t \in OnWay(T, page, 4) : t \in DOMAIN T /\ lvl[t] = 4
  BY DEF OnWay, Tree, Levels
<1>3. \A t \in OnWay(T, page, 4 - 1) : t \in DOMAIN T /\ lvl[t] = 4 - 1
  BY <1>4, BelowLevel
<1>2. \A t \in OnWay(T, page, 3 - 1) : t \in DOMAIN T /\ lvl[t] = 3 - 1
  <2>1. \A t \in OnWay(T, page, 3) : t \in DOMAIN T /\ lvl[t] = 3
    BY <1>3
  <2>. QED BY <2>1, BelowLevel
<1>1. \A t \in OnWay(T, page, 2 - 1) : t \in DOMAIN T /\ lvl[t] = 2 - 1
  <2>1. \A t \in OnWay(T, page, 2) : t \in DOMAIN T /\ lvl[t] = 2
    BY <1>2
  <2>. QED BY <2>1, BelowLevel
<1>5. level = 4 \/ level = 4 - 1 \/ level = 3 - 1 \/ level = 2 - 1
  OBVIOUS
<1>. QED BY <1>1, <1>2, <1>3, <1>4, <1>5

\* There is at most one.
LEMMA WayIsOne ==
  ASSUME NEW T, NEW page, NEW level \in 1 .. 4
  PROVE  \A t, u \in OnWay(T, page, level) : t = u
<1>4. \A t, u \in OnWay(T, page, 4) : t = u
  BY DEF OnWay
<1>3. \A t, u \in OnWay(T, page, 3) : t = u
  BY <1>4 DEF OnWay, BelowIn
<1>2. \A t, u \in OnWay(T, page, 2) : t = u
  <2>1. OnWay(T, page, 3 - 1) = BelowIn(T, OnWay(T, page, 3), page, 3)
    BY OneDown
  <2>. QED BY <1>3, <2>1 DEF BelowIn
<1>1. \A t, u \in OnWay(T, page, 1) : t = u
  <2>1. OnWay(T, page, 2 - 1) = BelowIn(T, OnWay(T, page, 2), page, 2)
    BY OneDown
  <2>. QED BY <1>2, <2>1 DEF BelowIn
<1>. QED BY <1>1, <1>2, <1>3, <1>4

\* Two pages that meet in a table came through the same entry.
LEMMA WaysMeet ==
  ASSUME NEW T, NEW lvl, Tree(T, lvl), NEW p \in Pages, NEW q \in Pages, NEW level \in 2 .. 4,
         NEW t, t \in OnWay(T, p, level - 1), t \in OnWay(T, q, level - 1)
  PROVE  /\ Index(p, level) = Index(q, level)
         /\ \E u : u \in OnWay(T, p, level) /\ u \in OnWay(T, q, level)
<1>1. PICK u \in OnWay(T, p, level) :
        PRESENT \in T[u][Index(p, level)] /\ t = GetAddr(T[u][Index(p, level)])
  BY OneDown DEF BelowIn
<1>2. PICK v \in OnWay(T, q, level) :
        PRESENT \in T[v][Index(q, level)] /\ t = GetAddr(T[v][Index(q, level)])
  BY OneDown DEF BelowIn
<1>3. u \in DOMAIN T /\ lvl[u] = level /\ v \in DOMAIN T /\ lvl[v] = level
  BY WayLevel
<1>4. Index(p, level) \in Indices /\ Index(q, level) \in Indices
  BY IndexIsIndex
<1>5. IsParent(T, lvl, u, Index(p, level)) /\ IsParent(T, lvl, v, Index(q, level))
  BY <1>1, <1>2, <1>3 DEF IsParent
<1>6. u = v /\ Index(p, level) = Index(q, level)
  BY <1>1, <1>2, <1>3, <1>4, <1>5 DEF Tree, OneParent
<1>. QED BY <1>6
(***************************************************************************)
(* A page is given by its four indices                                     *)
(***************************************************************************)

LEMMA QuotientIs ==
  ASSUME NEW a \in Nat, NEW n \in Nat, n > 0, NEW q \in Nat, NEW r \in Nat, r < n,
         a = q * n + r
  PROVE  a \div n = q
<1>1. a \div n \in Nat /\ a % n \in 0 .. (n - 1) /\ a = (a \div n) * n + (a % n)
  OBVIOUS
<1> DEFINE x == a \div n
           y == a % n
<1>2. x \in Nat /\ y \in Nat /\ y < n /\ q * n + r = x * n + y
  BY <1>1
<1>. HIDE DEF x, y
<1>3. ~(x < q)
  <2>1. SUFFICES ASSUME x + 1 <= q PROVE FALSE
    BY <1>2
  <2>2. (x + 1) * n <= q * n
    BY <2>1, <1>2
  <2>. QED BY <1>2, <2>2
<1>4. ~(q < x)
  <2>1. SUFFICES ASSUME q + 1 <= x PROVE FALSE
    BY <1>2
  <2>2. (q + 1) * n <= x * n
    BY <2>1, <1>2
  <2>. QED BY <1>2, <2>2
<1>5. x = q
  BY <1>2, <1>3, <1>4
<1>. QED BY <1>5 DEF x

LEMMA QuotientTwice ==
  ASSUME NEW a \in Nat, NEW m \in Nat, m > 0, NEW n \in Nat, n > 0
  PROVE  a \div (m * n) = (a \div m) \div n
<1> DEFINE x == a \div m
           r == a % m
           y == x \div n
           s == x % n
<1>1. x \in Nat /\ r \in Nat /\ r < m /\ a = x * m + r
  OBVIOUS
<1>2. y \in Nat /\ s \in Nat /\ s < n /\ x = y * n + s
  BY <1>1
<1>. HIDE DEF x, r, y, s
<1>3. a = y * (m * n) + (s * m + r)
  BY <1>1, <1>2
<1>4. s * m + r < m * n
  <2>1. s + 1 <= n
    BY <1>2
  <2>2. (s + 1) * m <= n * m
    BY <2>1, <1>2
  <2>. QED BY <2>2, <1>1, <1>2
<1>5. m * n \in Nat /\ m * n > 0 /\ s * m + r \in Nat
  BY <1>1, <1>2
<1>6. a \div (m * n) = y
  BY <1>2, <1>3, <1>4, <1>5, QuotientIs
<1>. QED BY <1>6 DEF x, y

LEMMA Division ==
  ASSUME NEW a \in Nat, NEW n \in Nat, n > 0
  PROVE  a \div n \in Nat /\ a % n \in Nat /\ a % n < n /\ a = (a \div n) * n + (a % n)
<1>1. a \div n \in Nat /\ a % n \in 0 .. (n - 1) /\ a = (a \div n) * n + (a % n)
  OBVIOUS
<1>. QED BY <1>1

LEMMA QuotientGrows ==
  ASSUME NEW a \in Nat, NEW n \in Nat, n > 0, NEW m \in Nat, a \div n >= m
  PROVE  a >= m * n
<1> DEFINE q == a \div n
           r == a % n
           x == q * n
           y == m * n
<1>1. q \in Nat /\ r \in Nat /\ a = x + r
  BY Division
<1>. HIDE DEF q, r
<1>2. q >= m
  BY DEF q
<1>3. x \in Nat /\ y \in Nat /\ x >= y
  BY <1>1, <1>2
<1>. HIDE DEF x, y
<1>4. a >= y
  BY <1>1, <1>3
<1>. QED BY <1>4 DEF y

\* The digits of a page in base Radix.
LEMMA PageOfIndices ==
  ASSUME NEW page \in Pages
  PROVE  page = ((Index(page, 4) * Radix + Index(page, 3)) * Radix + Index(page, 2)) * Radix
                  + Index(page, 1)
<1> DEFINE a == page \div Radix
           b == a \div Radix
           c == b \div Radix
<1>1. Radix \in Nat /\ Radix > 0 /\ page \in Nat
  BY PagingAssumption
<1>2. a \in Nat /\ page = a * Radix + (page % Radix) /\ page % Radix \in Nat
  BY <1>1, Division
<1>3. b \in Nat /\ a = b * Radix + (a % Radix) /\ a % Radix \in Nat
  BY <1>1, <1>2, Division
<1>4. c \in Nat /\ b = c * Radix + (b % Radix) /\ b % Radix \in Nat
  BY <1>1, <1>3, Division
<1>5. page \div (Radix * Radix) = b
  BY <1>1, QuotientTwice
<1>6. page \div (Radix * Radix * Radix) = c
  <2>1. Radix * Radix \in Nat /\ Radix * Radix > 0
    BY <1>1
  <2>2. page \div (Radix * Radix * Radix) = (page \div (Radix * Radix)) \div Radix
    BY <1>1, <2>1, QuotientTwice
  <2>. QED BY <2>2, <1>5
<1>7. Index(page, 1) = page % Radix
  <2>1. page \div 1 = page
    BY <1>1
  <2>. QED BY <2>1 DEF Index, Power
<1>8. Index(page, 2) = a % Radix /\ Index(page, 3) = b % Radix /\ Index(page, 4) = c % Radix
  <2>. HIDE DEF b, c
  <2>. QED BY <1>5, <1>6 DEF Index, Power
<1>9. c < Radix
  <2>1. SUFFICES ASSUME c >= Radix PROVE FALSE
    BY <1>1, <1>4
  <2>2. Radix * Radix \in Nat /\ Radix * Radix * Radix \in Nat
    BY <1>1
  <2>3. b >= Radix * Radix
    BY <2>1, <1>1, <1>3, QuotientGrows, Zenon
  <2>4. a >= Radix * Radix * Radix
    BY <2>2, <2>3, <1>1, <1>2, QuotientGrows, Zenon
  <2>5. page >= Radix * Radix * Radix * Radix
    BY <2>2, <2>4, <1>1, QuotientGrows, Zenon
  <2>6. Radix * Radix * Radix * Radix \in Nat /\ page <= Radix * Radix * Radix * Radix - 1
    <3>1. Radix * Radix * Radix * Radix \in Nat
      BY <1>1, <2>2
    <3>. QED BY <3>1, PagingAssumption
  <2>. HIDE DEF a, b, c
  <2>. QED BY <2>5, <2>6, <1>1
<1>10. c % Radix = c
  <2>. HIDE DEF c
  <2>. QED BY <1>1, <1>4, <1>9
<1>. HIDE DEF a, b, c
<1>11. c = Index(page, 4)
  BY <1>8, <1>10
<1>12. b = Index(page, 4) * Radix + Index(page, 3)
  BY <1>4, <1>8, <1>11, Zenon
<1>13. a = (Index(page, 4) * Radix + Index(page, 3)) * Radix + Index(page, 2)
  BY <1>3, <1>8, <1>12, Zenon
<1>. QED BY <1>2, <1>7, <1>13, Zenon

LEMMA SameIndicesSamePage ==
  ASSUME NEW p \in Pages, NEW q \in Pages, \A level \in 1 .. 4 : Index(p, level) = Index(q, level)
  PROVE  p = q
<1>1. /\ Index(p, 1) = Index(q, 1) /\ Index(p, 2) = Index(q, 2)
      /\ Index(p, 3) = Index(q, 3) /\ Index(p, 4) = Index(q, 4)
  OBVIOUS
<1>. QED BY <1>1, PageOfIndices

\* Two pages with the same level 1 table have different entries in it.
LEMMA LeavesApart ==
  ASSUME NEW T, NEW lvl, Tree(T, lvl), NEW p \in Pages, NEW q \in Pages, p # q,
         NEW t, t \in OnWay(T, p, 1), t \in OnWay(T, q, 1)
  PROVE  Index(p, 1) # Index(q, 1)
<1>1. /\ Index(p, 2) = Index(q, 2)
      /\ \E u : u \in OnWay(T, p, 2) /\ u \in OnWay(T, q, 2)
  <2>1. t \in OnWay(T, p, 2 - 1) /\ t \in OnWay(T, q, 2 - 1)
    OBVIOUS
  <2>. QED BY <2>1, WaysMeet
<1>2. /\ Index(p, 3) = Index(q, 3)
      /\ \E u : u \in OnWay(T, p, 3) /\ u \in OnWay(T, q, 3)
  <2>1. PICK u : u \in OnWay(T, p, 3 - 1) /\ u \in OnWay(T, q, 3 - 1)
    BY <1>1
  <2>. QED BY <2>1, WaysMeet
<1>3. Index(p, 4) = Index(q, 4)
  <2>1. PICK u : u \in OnWay(T, p, 4 - 1) /\ u \in OnWay(T, q, 4 - 1)
    BY <1>2
  <2>. QED BY <2>1, WaysMeet
<1>4. SUFFICES ASSUME Index(p, 1) = Index(q, 1) PROVE FALSE
  OBVIOUS
<1>5. \A level \in 1 .. 4 : level = 1 \/ level = 2 \/ level = 3 \/ level = 4
  OBVIOUS
<1>. QED BY <1>1, <1>2, <1>3, <1>4, <1>5, SameIndicesSamePage
(***************************************************************************)
(* Tables that differ in flags and leaf entries only                       *)
(***************************************************************************)

\* The entries of the tables above a level lead where they did.
AgreeAbove(T, T2, lvl, n) ==
  \A t \in DOMAIN T, i \in Indices :
    lvl[t] > n => /\ PRESENT \in T2[t][i] <=> PRESENT \in T[t][i]
                  /\ GetAddr(T2[t][i]) = GetAddr(T[t][i])

SameLinks(T, T2, lvl) ==
  /\ DOMAIN T2 = DOMAIN T
  /\ \A t \in DOMAIN T : DOMAIN T2[t] = Indices
  /\ AgreeAbove(T, T2, lvl, 1)
  /\ \A t \in DOMAIN T, i \in Indices : lvl[t] > 1 /\ T[t][i] = {} => T2[t][i] = {}

LEMMA AgreeStep ==
  ASSUME NEW T, NEW T2, NEW lvl, Tree(T, lvl), NEW n \in 1 .. 4, AgreeAbove(T, T2, lvl, n),
         NEW page \in Pages, NEW level \in 2 .. 4, level > n,
         OnWay(T2, page, level) = OnWay(T, page, level)
  PROVE  OnWay(T2, page, level - 1) = OnWay(T, page, level - 1)
<1> DEFINE i == Index(page, level)
           W == OnWay(T, page, level)
<1>1. i \in Indices
  BY IndexIsIndex
<1>2. \A t \in W : t \in DOMAIN T /\ lvl[t] = level
  BY WayLevel
<1>3. \A t \in W : /\ PRESENT \in T2[t][i] <=> PRESENT \in T[t][i]
                   /\ GetAddr(T2[t][i]) = GetAddr(T[t][i])
  BY <1>1, <1>2 DEF AgreeAbove
<1>4. BelowIn(T2, W, page, level) = BelowIn(T, W, page, level)
  BY <1>3 DEF BelowIn
<1>. QED BY <1>4, OneDown

LEMMA AgreeWay ==
  ASSUME NEW T, NEW T2, NEW lvl, Tree(T, lvl), NEW n \in 1 .. 4, AgreeAbove(T, T2, lvl, n),
         NEW page \in Pages, NEW level \in n .. 4
  PROVE  OnWay(T2, page, level) = OnWay(T, page, level)
<1>4. OnWay(T2, page, 4) = OnWay(T, page, 4)
  BY DEF OnWay
<1>3. n <= 3 => OnWay(T2, page, 3) = OnWay(T, page, 3)
  <2>1. n <= 3 => OnWay(T2, page, 4 - 1) = OnWay(T, page, 4 - 1)
    BY <1>4, AgreeStep
  <2>. QED BY <2>1
<1>2. n <= 2 => OnWay(T2, page, 2) = OnWay(T, page, 2)
  <2>1. n <= 2 => OnWay(T2, page, 3 - 1) = OnWay(T, page, 3 - 1)
    BY <1>3, AgreeStep
  <2>. QED BY <2>1
<1>1. n <= 1 => OnWay(T2, page, 1) = OnWay(T, page, 1)
  <2>1. n <= 1 => OnWay(T2, page, 2 - 1) = OnWay(T, page, 2 - 1)
    BY <1>2, AgreeStep
  <2>. QED BY <2>1
<1>5. level = 4 \/ (level = 3 /\ n <= 3) \/ (level = 2 /\ n <= 2) \/ (level = 1 /\ n <= 1)
  OBVIOUS
<1>. QED BY <1>1, <1>2, <1>3, <1>4, <1>5

LEMMA SameLinksTree ==
  ASSUME NEW T, NEW T2, NEW lvl, Tree(T, lvl), SameLinks(T, T2, lvl)
  PROVE  Tree(T2, lvl)
<1>1. Levels(T2, lvl)
  BY DEF Tree, Levels, SameLinks
<1>2. \A t \in DOMAIN T, i \in Indices :
        /\ IsParent(T2, lvl, t, i) <=> IsParent(T, lvl, t, i)
        /\ IsParent(T, lvl, t, i) => GetAddr(T2[t][i]) = GetAddr(T[t][i])
        /\ lvl[t] > 1 /\ T[t][i] = {} => T2[t][i] = {}
  BY DEF SameLinks, AgreeAbove, IsParent
<1>3. DOMAIN T2 = DOMAIN T
  BY DEF SameLinks
<1>4. Descends(T2, lvl)
  BY <1>2, <1>3 DEF Tree, Descends, IsParent
<1>5. OneParent(T2, lvl)
  <2>1. SUFFICES ASSUME NEW t \in DOMAIN T, NEW u \in DOMAIN T, NEW i \in Indices, NEW j \in Indices,
                        IsParent(T2, lvl, t, i), IsParent(T2, lvl, u, j),
                        GetAddr(T2[t][i]) = GetAddr(T2[u][j])
                 PROVE  t = u /\ i = j
    BY <1>3 DEF OneParent
  <2>2. IsParent(T, lvl, t, i) /\ IsParent(T, lvl, u, j) /\ GetAddr(T[t][i]) = GetAddr(T[u][j])
    BY <1>2, <2>1
  <2>. QED BY <2>2 DEF Tree, OneParent
<1>6. HasParent(T2, lvl)
  BY <1>2, <1>3 DEF Tree, HasParent
<1>. QED BY <1>1, <1>4, <1>5, <1>6 DEF Tree
(***************************************************************************)
(* A table more                                                            *)
(***************************************************************************)

\* T2 is T with the entry i of the table at, which was zero, set to a new table f.
Links(T, T2, lvl, at, i, f) ==
  /\ at \in DOMAIN T /\ i \in Indices /\ lvl[at] > 1 /\ T[at][i] = {}
  /\ f \notin DOMAIN T
  /\ DOMAIN T2 = DOMAIN T \cup {f}
  /\ T2[f] = Zero
  /\ \A t \in DOMAIN T : DOMAIN T2[t] = Indices
  /\ \A t \in DOMAIN T, j \in Indices : ~(t = at /\ j = i) => T2[t][j] = T[t][j]
  /\ PRESENT \in T2[at][i]
  /\ GetAddr(T2[at][i]) = f

Grown(T, lvl, at, f) == [t \in DOMAIN T \cup {f} |-> IF t = f THEN lvl[at] - 1 ELSE lvl[t]]

LEMMA GrownParents ==
  ASSUME NEW T, NEW T2, NEW lvl, Tree(T, lvl), NEW at, NEW i, NEW f, Links(T, T2, lvl, at, i, f)
  PROVE  /\ \A t \in DOMAIN T : Grown(T, lvl, at, f)[t] = lvl[t]
         /\ Grown(T, lvl, at, f)[f] = lvl[at] - 1
         /\ \A t \in DOMAIN T2, j \in Indices :
              IsParent(T2, Grown(T, lvl, at, f), t, j) <=>
                t \in DOMAIN T /\ (IsParent(T, lvl, t, j) \/ (t = at /\ j = i))
         /\ \A t \in DOMAIN T, j \in Indices :
              IsParent(T, lvl, t, j) => ~(t = at /\ j = i) /\ T2[t][j] = T[t][j]
<1> DEFINE g == Grown(T, lvl, at, f)
<1>1. /\ \A t \in DOMAIN T : g[t] = lvl[t]
      /\ g[f] = lvl[at] - 1
  BY DEF Links, Grown
<1>2. \A j \in Indices : PRESENT \notin T2[f][j]
  BY DEF Links, Zero, Indices
<1>3. PRESENT \notin T[at][i]
  BY DEF Links
<1>. HIDE DEF g
<1>4. ASSUME NEW t \in DOMAIN T, NEW j \in Indices
      PROVE  IsParent(T, lvl, t, j) => ~(t = at /\ j = i) /\ T2[t][j] = T[t][j]
  BY <1>3 DEF IsParent, Links
<1>5. ASSUME NEW t \in DOMAIN T2, NEW j \in Indices
      PROVE  IsParent(T2, g, t, j) <=> t \in DOMAIN T /\ (IsParent(T, lvl, t, j) \/ (t = at /\ j = i))
  <2>1. CASE t = f
    BY <1>2, <2>1 DEF IsParent, Links
  <2>2. CASE t \in DOMAIN T /\ t = at /\ j = i
    BY <1>1, <2>2 DEF IsParent, Links
  <2>3. CASE t \in DOMAIN T /\ ~(t = at /\ j = i)
    <3>1. T2[t][j] = T[t][j] /\ g[t] = lvl[t]
      BY <1>1, <2>3 DEF Links
    <3>. QED BY <3>1, <2>3 DEF IsParent
  <2>. QED BY <2>1, <2>2, <2>3 DEF Links
<1>. QED BY <1>1, <1>4, <1>5 DEF g

LEMMA LinkTree ==
  ASSUME NEW T, NEW T2, NEW lvl, Tree(T, lvl), NEW at, NEW i, NEW f, Links(T, T2, lvl, at, i, f)
  PROVE  Tree(T2, Grown(T, lvl, at, f))
<1> DEFINE g == Grown(T, lvl, at, f)
<1>1. /\ \A t \in DOMAIN T : g[t] = lvl[t]
      /\ g[f] = lvl[at] - 1
      /\ \A t \in DOMAIN T2, j \in Indices :
           IsParent(T2, g, t, j) <=>
             t \in DOMAIN T /\ (IsParent(T, lvl, t, j) \/ (t = at /\ j = i))
      /\ \A t \in DOMAIN T, j \in Indices :
           IsParent(T, lvl, t, j) => ~(t = at /\ j = i) /\ T2[t][j] = T[t][j]
  BY GrownParents
<1>2. at \in DOMAIN T /\ i \in Indices /\ f \notin DOMAIN T /\ DOMAIN T2 = DOMAIN T \cup {f}
      /\ GetAddr(T2[at][i]) = f /\ T2[f] = Zero
  BY DEF Links
<1>3. Levels(T2, g)
  <2>1. g \in [DOMAIN T2 -> 1 .. 4]
    BY <1>2 DEF Links, Grown, Tree, Levels
  <2>2. Root \in DOMAIN T2 /\ g[Root] = 4
    BY <1>1, <1>2 DEF Tree, Levels
  <2>3. \A t \in DOMAIN T2 : DOMAIN T2[t] = Indices
    BY <1>2 DEF Links, Zero, Indices
  <2>. QED BY <2>1, <2>2, <2>3 DEF Levels
<1>. HIDE DEF g
<1>4. Descends(T2, g)
  <2>1. SUFFICES ASSUME NEW t \in DOMAIN T2, NEW j \in Indices
                 PROVE  /\ IsParent(T2, g, t, j) =>
                             GetAddr(T2[t][j]) \in DOMAIN T2 /\ g[GetAddr(T2[t][j])] = g[t] - 1
                        /\ g[t] > 1 /\ PRESENT \notin T2[t][j] => T2[t][j] = {}
    BY DEF Descends
  <2>2. CASE t = f
    <3>1. T2[t][j] = {}
      BY <1>2, <2>2 DEF Zero, Indices
    <3>. QED BY <3>1 DEF IsParent
  <2>3. CASE t \in DOMAIN T /\ t = at /\ j = i
    <3>1. PRESENT \in T2[t][j]
      BY <2>3 DEF Links
    <3>. QED BY <1>1, <1>2, <2>3, <3>1
  <2>4. CASE t \in DOMAIN T /\ ~(t = at /\ j = i)
    <3>1. T2[t][j] = T[t][j] /\ g[t] = lvl[t]
      BY <1>1, <2>4 DEF Links
    <3>2. IsParent(T2, g, t, j) => IsParent(T, lvl, t, j)
      BY <1>1, <2>4
    <3>3. /\ IsParent(T, lvl, t, j) =>
               GetAddr(T[t][j]) \in DOMAIN T /\ lvl[GetAddr(T[t][j])] = lvl[t] - 1
          /\ lvl[t] > 1 /\ PRESENT \notin T[t][j] => T[t][j] = {}
      BY <2>4 DEF Tree, Descends
    <3>. QED BY <1>1, <1>2, <3>1, <3>2, <3>3
  <2>. QED BY <1>2, <2>2, <2>3, <2>4
<1>5. OneParent(T2, g)
  <2>1. SUFFICES ASSUME NEW t \in DOMAIN T2, NEW u \in DOMAIN T2, NEW j \in Indices, NEW k \in Indices,
                        IsParent(T2, g, t, j), IsParent(T2, g, u, k),
                        GetAddr(T2[t][j]) = GetAddr(T2[u][k])
                 PROVE  t = u /\ j = k
    BY DEF OneParent
  <2>2. ASSUME NEW s \in DOMAIN T2, NEW l \in Indices, IsParent(T2, g, s, l)
        PROVE  \/ s = at /\ l = i
               \/ s \in DOMAIN T /\ IsParent(T, lvl, s, l)
                  /\ GetAddr(T2[s][l]) = GetAddr(T[s][l]) /\ GetAddr(T[s][l]) # f
    BY <1>1, <1>2, <2>2 DEF Tree, Descends
  <2>3. \/ t = at /\ j = i /\ u = at /\ k = i
        \/ /\ t \in DOMAIN T /\ IsParent(T, lvl, t, j) /\ u \in DOMAIN T /\ IsParent(T, lvl, u, k)
           /\ GetAddr(T[t][j]) = GetAddr(T[u][k])
    BY <1>2, <2>1, <2>2
  <2>. QED BY <2>3 DEF Tree, OneParent
<1>6. HasParent(T2, g)
  <2>1. SUFFICES ASSUME NEW t \in DOMAIN T2 \ {Root}
                 PROVE  \E u \in DOMAIN T2 : \E j \in Indices :
                          IsParent(T2, g, u, j) /\ GetAddr(T2[u][j]) = t
    BY DEF HasParent
  <2>2. CASE t = f
    BY <1>1, <1>2, <2>2
  <2>3. CASE t \in DOMAIN T
    <3>1. PICK u \in DOMAIN T, j \in Indices : IsParent(T, lvl, u, j) /\ GetAddr(T[u][j]) = t
      BY <2>3 DEF Tree, HasParent
    <3>2. u \in DOMAIN T2 /\ IsParent(T2, g, u, j) /\ GetAddr(T2[u][j]) = t
      BY <1>1, <1>2, <3>1
    <3>. QED BY <3>2
  <2>. QED BY <1>2, <2>2, <2>3
<1>7. Tree(T2, g)
  BY <1>3, <1>4, <1>5, <1>6 DEF Tree
<1>. QED BY <1>7 DEF g
\* The way to a page after a table was added: unchanged, or it now ends in the
\* new table where it broke off before.
Extended(T, T2, f, page, level) ==
  \/ OnWay(T2, page, level) = OnWay(T, page, level)
  \/ OnWay(T, page, level) = {} /\ OnWay(T2, page, level) \subseteq {f}

LEMMA ExtendedStep ==
  ASSUME NEW T, NEW T2, NEW lvl, Tree(T, lvl), NEW at, NEW i, NEW f, Links(T, T2, lvl, at, i, f),
         NEW page \in Pages, NEW level \in 2 .. 4, Extended(T, T2, f, page, level)
  PROVE  Extended(T, T2, f, page, level - 1)
<1> DEFINE x == Index(page, level)
           W == OnWay(T, page, level)
<1>1. x \in Indices
  BY IndexIsIndex
<1>2. \A t \in W : t \in DOMAIN T /\ lvl[t] = level
  BY WayLevel
<1>3. /\ OnWay(T, page, level - 1) = BelowIn(T, W, page, level)
      /\ OnWay(T2, page, level - 1) = BelowIn(T2, OnWay(T2, page, level), page, level)
  BY OneDown
<1>4. CASE OnWay(T2, page, level) = W /\ ~(at \in W /\ x = i)
  <2>1. \A t \in W : T2[t][x] = T[t][x]
    BY <1>1, <1>2, <1>4 DEF Links
  <2>2. BelowIn(T2, W, page, level) = BelowIn(T, W, page, level)
    BY <2>1 DEF BelowIn
  <2>. QED BY <1>3, <1>4, <2>2 DEF Extended
<1>5. CASE OnWay(T2, page, level) = W /\ at \in W /\ x = i
  <2>1. \A t \in W : t = at
    BY <1>5, WayIsOne
  <2>2. PRESENT \notin T[at][x] /\ GetAddr(T2[at][x]) = f
    BY <1>5 DEF Links
  <2>3. BelowIn(T, W, page, level) = {} /\ BelowIn(T2, W, page, level) \subseteq {f}
    BY <2>1, <2>2 DEF BelowIn
  <2>. QED BY <1>3, <1>5, <2>3 DEF Extended
<1>6. CASE W = {} /\ OnWay(T2, page, level) \subseteq {f}
  <2>1. PRESENT \notin T2[f][x]
    BY <1>1 DEF Links, Zero, Indices
  <2>2. BelowIn(T, W, page, level) = {} /\ BelowIn(T2, OnWay(T2, page, level), page, level) = {}
    BY <1>6, <2>1 DEF BelowIn
  <2>. QED BY <1>3, <2>2 DEF Extended
<1>. QED BY <1>4, <1>5, <1>6 DEF Extended

\* A new table is zero: no page has another leaf entry for it.
LEMMA LinkLeaves ==
  ASSUME NEW T, NEW T2, NEW lvl, Tree(T, lvl), NEW at, NEW i, NEW f, Links(T, T2, lvl, at, i, f),
         NEW page \in Pages
  PROVE  LeafIn(T2, page) = LeafIn(T, page)
<1>4. Extended(T, T2, f, page, 4)
  BY DEF Extended, OnWay
<1>3. Extended(T, T2, f, page, 4 - 1)
  BY <1>4, ExtendedStep
<1>2. Extended(T, T2, f, page, 3 - 1)
  <2>1. Extended(T, T2, f, page, 3)
    BY <1>3
  <2>. QED BY <2>1, ExtendedStep
<1>1. Extended(T, T2, f, page, 1)
  <2>1. Extended(T, T2, f, page, 2)
    BY <1>2
  <2>2. Extended(T, T2, f, page, 2 - 1)
    BY <2>1, ExtendedStep
  <2>. QED BY <2>2
<1>5. Index(page, 1) \in Indices
  BY IndexIsIndex
<1>6. CASE OnWay(T2, page, 1) = OnWay(T, page, 1)
  <2>1. \A t \in OnWay(T, page, 1) : t \in DOMAIN T /\ lvl[t] = 1
    BY WayLevel
  <2>2. \A t \in OnWay(T, page, 1) : T2[t][Index(page, 1)] = T[t][Index(page, 1)]
    BY <1>5, <2>1 DEF Links
  <2>. QED BY <1>6, <2>2 DEF LeafIn
<1>7. CASE OnWay(T, page, 1) = {} /\ OnWay(T2, page, 1) \subseteq {f}
  <2>1. T2[f][Index(page, 1)] = {}
    BY <1>5 DEF Links, Zero, Indices
  <2>. QED BY <1>7, <2>1 DEF LeafIn
<1>. QED BY <1>1, <1>6, <1>7 DEF Extended

\* The tables down to the one that got the entry are reached as before.
LEMMA LinkAgrees ==
  ASSUME NEW T, NEW T2, NEW lvl, Tree(T, lvl), NEW at, NEW i, NEW f, Links(T, T2, lvl, at, i, f)
  PROVE  AgreeAbove(T, T2, lvl, lvl[at])
<1>1. \A t \in DOMAIN T, j \in Indices : lvl[t] > lvl[at] => T2[t][j] = T[t][j]
  <2>1. lvl[at] \in 1 .. 4
    BY DEF Links, Tree, Levels
  <2>. QED BY <2>1 DEF Links
<1>. QED BY <1>1 DEF AgreeAbove

\* A change of flags on the way changes no leaf entry.
LEMMA SameLeaves ==
  ASSUME NEW T, NEW T2, NEW lvl, Tree(T, lvl), SameLinks(T, T2, lvl), NEW page \in Pages,
         \A t \in OnWay(T, page, 1) : T2[t][Index(page, 1)] = T[t][Index(page, 1)]
  PROVE  LeafIn(T2, page) = LeafIn(T, page)
<1>1. OnWay(T2, page, 1) = OnWay(T, page, 1)
  BY AgreeWay DEF SameLinks
<1>. QED BY <1>1 DEF LeafIn
(***************************************************************************)
(* The frames of the allocator                                             *)
(***************************************************************************)

LEMMA PoolTail ==
  ASSUME NEW all, NEW T, NEW left, NEW dropped, FramesLeft(all, T, left, dropped), left # << >>
  PROVE  /\ Head(left) \subseteq 12 .. 47 /\ Head(left) # {}
         /\ Head(left) \notin DOMAIN T /\ Head(left) \notin dropped
         /\ Tail(left) \in Seq((SUBSET (12 .. 47)) \ {{}})
         /\ FramesOf(left) = FramesOf(Tail(left)) \cup {Head(left)}
         /\ \A i, j \in 1 .. Len(Tail(left)) : Tail(left)[i] = Tail(left)[j] => i = j
         /\ \A i \in 1 .. Len(Tail(left)) :
              /\ Tail(left)[i] \notin DOMAIN T /\ Tail(left)[i] \notin dropped
              /\ Tail(left)[i] # Head(left)
<1> DEFINE S == (SUBSET (12 .. 47)) \ {{}}
<1>1. left \in Seq(S)
  BY DEF FramesLeft
<1>2. Head(left) \in S
  <2>. HIDE DEF S
  <2>. QED BY <1>1
<1>3. /\ Tail(left) \in Seq(S) /\ Len(left) \in Nat /\ Len(left) > 0
      /\ Len(Tail(left)) = Len(left) - 1 /\ Head(left) = left[1]
      /\ \A i \in 1 .. Len(Tail(left)) : Tail(left)[i] = left[i + 1]
  <2>. HIDE DEF S
  <2>. QED BY <1>1
<1>4. \A i, j \in 1 .. Len(left) : left[i] = left[j] => i = j
  BY DEF FramesLeft
<1>5. \A i \in 1 .. Len(left) : left[i] \notin DOMAIN T /\ left[i] \notin dropped
  BY DEF FramesLeft
<1>. HIDE DEF S
<1>6. \A i \in 1 .. Len(Tail(left)) : i + 1 \in 1 .. Len(left) /\ 1 \in 1 .. Len(left) /\ i + 1 # 1
  BY <1>3
<1>7. \A i, j \in 1 .. Len(Tail(left)) : Tail(left)[i] = Tail(left)[j] => i = j
  BY <1>3, <1>4, <1>6
<1>8. \A i \in 1 .. Len(Tail(left)) :
        /\ Tail(left)[i] \notin DOMAIN T /\ Tail(left)[i] \notin dropped
        /\ Tail(left)[i] # Head(left)
  BY <1>3, <1>4, <1>5, <1>6
<1>9. Head(left) \notin DOMAIN T /\ Head(left) \notin dropped
  BY <1>3, <1>5
<1>10. FramesOf(left) = FramesOf(Tail(left)) \cup {Head(left)}
  <2>1. \A i \in 1 .. Len(left) : i = 1 \/ (i - 1 \in 1 .. Len(Tail(left)) /\ (i - 1) + 1 = i)
    BY <1>3
  <2>2. \A i \in 1 .. Len(left) : left[i] = Head(left) \/ left[i] \in FramesOf(Tail(left))
    BY <1>3, <2>1 DEF FramesOf
  <2>3. FramesOf(Tail(left)) \subseteq FramesOf(left) /\ Head(left) \in FramesOf(left)
    BY <1>3, <1>6 DEF FramesOf
  <2>. QED BY <2>2, <2>3 DEF FramesOf
<1>. QED BY <1>2, <1>3, <1>7, <1>8, <1>9, <1>10 DEF S

\* The frame becomes a table.
LEMMA FrameToTable ==
  ASSUME NEW all, NEW T, NEW T2, NEW left, NEW dropped,
         FramesLeft(all, T, left, dropped), left # << >>,
         Root \in DOMAIN T, DOMAIN T2 = DOMAIN T \cup {Head(left)}
  PROVE  FramesLeft(all, T2, Tail(left), dropped)
<1> DEFINE f == Head(left)
<1>1. /\ f \notin DOMAIN T /\ f \notin dropped /\ f # Root
      /\ Tail(left) \in Seq((SUBSET (12 .. 47)) \ {{}})
      /\ FramesOf(left) = FramesOf(Tail(left)) \cup {f}
      /\ \A i, j \in 1 .. Len(Tail(left)) : Tail(left)[i] = Tail(left)[j] => i = j
      /\ \A i \in 1 .. Len(Tail(left)) :
           /\ Tail(left)[i] \notin DOMAIN T /\ Tail(left)[i] \notin dropped
           /\ Tail(left)[i] # f
  BY PoolTail DEF Root
<1>2. /\ dropped \cap DOMAIN T = {}
      /\ FramesOf(left) \cup dropped \cup (DOMAIN T \ {Root}) = all
  BY DEF FramesLeft
<1>. HIDE DEF f
<1>3. FramesOf(Tail(left)) \cup dropped \cup (DOMAIN T2 \ {Root}) = all
  BY <1>1, <1>2 DEF f
<1>4. \A i \in 1 .. Len(Tail(left)) : Tail(left)[i] \notin DOMAIN T2 /\ Tail(left)[i] \notin dropped
  BY <1>1 DEF f
<1>5. dropped \cap DOMAIN T2 = {}
  BY <1>1, <1>2 DEF f
<1>. QED BY <1>1, <1>3, <1>4, <1>5 DEF FramesLeft

\* The frame is dropped.
LEMMA FrameIsDropped ==
  ASSUME NEW all, NEW T, NEW left, NEW dropped, FramesLeft(all, T, left, dropped), left # << >>
  PROVE  FramesLeft(all, T, Tail(left), dropped \cup {Head(left)})
<1> DEFINE f == Head(left)
<1>1. /\ f \notin DOMAIN T /\ f \notin dropped /\ f # Root
      /\ Tail(left) \in Seq((SUBSET (12 .. 47)) \ {{}})
      /\ FramesOf(left) = FramesOf(Tail(left)) \cup {f}
      /\ \A i, j \in 1 .. Len(Tail(left)) : Tail(left)[i] = Tail(left)[j] => i = j
      /\ \A i \in 1 .. Len(Tail(left)) :
           /\ Tail(left)[i] \notin DOMAIN T /\ Tail(left)[i] \notin dropped
           /\ Tail(left)[i] # f
  BY PoolTail DEF Root
<1>2. /\ dropped \cap DOMAIN T = {}
      /\ FramesOf(left) \cup dropped \cup (DOMAIN T \ {Root}) = all
  BY DEF FramesLeft
<1>. HIDE DEF f
<1>3. FramesOf(Tail(left)) \cup (dropped \cup {f}) \cup (DOMAIN T \ {Root}) = all
  BY <1>1, <1>2
<1>4. \A i \in 1 .. Len(Tail(left)) :
        Tail(left)[i] \notin DOMAIN T /\ Tail(left)[i] \notin dropped \cup {f}
  BY <1>1
<1>5. (dropped \cup {f}) \cap DOMAIN T = {}
  BY <1>1, <1>2
<1>6. FramesLeft(all, T, Tail(left), dropped \cup {f})
  BY <1>1, <1>3, <1>4, <1>5 DEF FramesLeft
<1>. QED BY <1>6 DEF f
(***************************************************************************)
(* next_level_alloc                                                        *)
(***************************************************************************)

Results == {"ok", "FrameAllocationFailed", "TranslationFailed"}

\* The walk to a page stands at a table of level n, and every entry above has
\* the flags.
Reached(T, at, page, set, n) ==
  /\ OnWay(T, page, n) = {at}
  /\ \A k \in (n + 1) .. 4 : \A t \in OnWay(T, page, k) :
       set \cup {PRESENT} \subseteq T[t][Index(page, k)]

\* A walk on its way in tables that were T when it began.
WalkInv(all, w, lvl, T, page, set, n) ==
  /\ DOMAIN w = {"tables", "pool", "lost", "at", "result"}
  /\ Tree(w.tables, lvl)
  /\ FramesLeft(all, w.tables, w.pool, w.lost)
  /\ \A p \in Pages : LeafIn(w.tables, p) = LeafIn(T, p)
  /\ w.result \in Results
  /\ w.result = "ok" => Reached(w.tables, w.at, page, set, n)

\* Only the table a walk stands at was changed, and its entry has the flags.
Passed(T, T2, lvl, at, page, set, n) ==
  /\ Tree(T, lvl)
  /\ Reached(T, at, page, set, n)
  /\ AgreeAbove(T, T2, lvl, n)
  /\ \A t \in DOMAIN T, j \in Indices : t # at => T2[t][j] = T[t][j]
  /\ set \cup {PRESENT} \subseteq T2[at][Index(page, n)]

LEMMA ReachedBelow ==
  ASSUME NEW T, NEW T2, NEW lvl, NEW at, NEW page \in Pages, NEW set, NEW n \in 2 .. 4,
         Passed(T, T2, lvl, at, page, set, n)
  PROVE  Reached(T2, GetAddr(T2[at][Index(page, n)]), page, set, n - 1)
<1> DEFINE i == Index(page, n)
<1>0. /\ Tree(T, lvl) /\ Reached(T, at, page, set, n) /\ AgreeAbove(T, T2, lvl, n)
      /\ \A t \in DOMAIN T, j \in Indices : t # at => T2[t][j] = T[t][j]
      /\ set \cup {PRESENT} \subseteq T2[at][Index(page, n)]
  BY DEF Passed
<1>1. \A k \in n .. 4 : OnWay(T2, page, k) = OnWay(T, page, k)
  BY <1>0, AgreeWay
<1>2. OnWay(T2, page, n) = {at}
  BY <1>0, <1>1 DEF Reached
<1>3. OnWay(T2, page, n - 1) = {GetAddr(T2[at][i])}
  <2>1. OnWay(T2, page, n - 1) = BelowIn(T2, {at}, page, n)
    BY <1>2, OneDown
  <2>2. PRESENT \in T2[at][i]
    BY <1>0
  <2>. QED BY <2>1, <2>2 DEF BelowIn
<1>4. at \in DOMAIN T /\ lvl[at] = n
  <2>1. at \in OnWay(T, page, n) /\ n \in 1 .. 4
    BY <1>0 DEF Reached
  <2>. QED BY <1>0, <2>1, WayLevel
<1>5. ASSUME NEW k \in n .. 4, NEW t \in OnWay(T2, page, k)
      PROVE  set \cup {PRESENT} \subseteq T2[t][Index(page, k)]
  <2>1. CASE k = n
    BY <1>0, <1>2, <1>5, <2>1
  <2>2. CASE k # n
    <3>1. t \in OnWay(T, page, k) /\ k \in (n + 1) .. 4 /\ k \in 1 .. 4
      BY <1>1, <1>5, <2>2
    <3>2. t \in DOMAIN T /\ lvl[t] = k
      BY <1>0, <3>1, WayLevel
    <3>3. Index(page, k) \in Indices
      BY <3>1, IndexIsIndex
    <3>4. T2[t][Index(page, k)] = T[t][Index(page, k)]
      BY <1>0, <1>4, <2>2, <3>2, <3>3
    <3>. QED BY <1>0, <3>1, <3>4 DEF Reached
  <2>. QED BY <2>1, <2>2
<1>6. \A k \in ((n - 1) + 1) .. 4 : \A t \in OnWay(T2, page, k) :
        set \cup {PRESENT} \subseteq T2[t][Index(page, k)]
  BY <1>5
<1>. QED BY <1>3, <1>6 DEF Reached

\* A walk stands at a parent entry.
StandsAt(T, lvl, at, i) == Tree(T, lvl) /\ at \in DOMAIN T /\ i \in Indices /\ lvl[at] > 1

FlagsAdded(T, T2, lvl, at, i, flags) ==
  /\ SameLinks(T, T2, lvl)
  /\ \A t \in DOMAIN T, j \in Indices : ~(t = at /\ j = i) => T2[t][j] = T[t][j]
  /\ T2[at][i] = T[at][i] \cup flags
  /\ GetAddr(T2[at][i]) = GetAddr(T[at][i])

\* A present entry gets flags.
LEMMA FlagsStep ==
  ASSUME NEW T, NEW T2, NEW lvl, NEW at, NEW i, StandsAt(T, lvl, at, i), PRESENT \in T[at][i],
         NEW flags, flags \subseteq AllFlags, T2 = [T EXCEPT ![at][i] = T[at][i] \cup flags]
  PROVE  FlagsAdded(T, T2, lvl, at, i, flags)
<1> DEFINE e == T[at][i] \cup flags
<1>1. GetAddr(e) = GetAddr(T[at][i]) /\ PRESENT \in e
  BY FlagsKeepAddr
<1>2. T2 = [T EXCEPT ![at][i] = e]
  OBVIOUS
<1>. HIDE DEF e
<1>3. at \in DOMAIN T /\ i \in Indices /\ \A t \in DOMAIN T : DOMAIN T[t] = Indices
  BY DEF StandsAt, Tree, Levels
<1>4. /\ DOMAIN T2 = DOMAIN T
      /\ \A t \in DOMAIN T : DOMAIN T2[t] = Indices
      /\ \A t \in DOMAIN T, j \in Indices : ~(t = at /\ j = i) => T2[t][j] = T[t][j]
      /\ T2[at][i] = e
  BY <1>2, <1>3
<1>5. AgreeAbove(T, T2, lvl, 1)
  BY <1>1, <1>4 DEF AgreeAbove
<1>6. \A t \in DOMAIN T, j \in Indices : lvl[t] > 1 /\ T[t][j] = {} => T2[t][j] = {}
  BY <1>4
<1>7. SameLinks(T, T2, lvl)
  BY <1>4, <1>5, <1>6 DEF SameLinks
<1>. QED BY <1>1, <1>4, <1>7 DEF FlagsAdded, e

\* An entry that is not present is set to a new table.
LEMMA NewTableStep ==
  ASSUME NEW T, NEW T2, NEW lvl, NEW at, NEW i, StandsAt(T, lvl, at, i), PRESENT \notin T[at][i],
         NEW f, f \subseteq 12 .. 47, f \notin DOMAIN T, NEW set, set \subseteq AllFlags,
         T2 = WithTable([T EXCEPT ![at][i] = SetFlags(SetAddr(@, f), set \cup {PRESENT})], f)
  PROVE  Links(T, T2, lvl, at, i, f) /\ set \cup {PRESENT} \subseteq T2[at][i]
<1> DEFINE e == SetFlags(SetAddr(T[at][i], f), set \cup {PRESENT})
           T1 == [T EXCEPT ![at][i] = e]
<1>1. at \in DOMAIN T /\ i \in Indices /\ lvl[at] > 1 /\ T[at][i] = {}
  BY DEF StandsAt, Tree, Descends
<1>2. GetAddr(e) = f /\ PRESENT \in e
  BY <1>1, LinkAddr
<1>3. set \cup {PRESENT} \subseteq e
  BY DEF SetFlags
<1>4. \A t \in DOMAIN T : DOMAIN T[t] = Indices
  BY DEF StandsAt, Tree, Levels
<1>5. T2 = WithTable(T1, f)
  BY <1>1, <1>4
<1>. HIDE DEF e
<1>6. /\ DOMAIN T1 = DOMAIN T
      /\ \A t \in DOMAIN T : DOMAIN T1[t] = Indices
      /\ \A t \in DOMAIN T, j \in Indices : ~(t = at /\ j = i) => T1[t][j] = T[t][j]
      /\ T1[at][i] = e
  BY <1>1, <1>4
<1>. HIDE DEF T1
<1>7. /\ DOMAIN T2 = DOMAIN T1 \cup {f}
      /\ T2[f] = Zero
      /\ \A t \in DOMAIN T1 : t # f => T2[t] = T1[t]
  BY <1>5 DEF WithTable
<1>8. ASSUME NEW t \in DOMAIN T PROVE T2[t] = T1[t]
  BY <1>6, <1>7
<1>9. T2[at][i] = e
  BY <1>1, <1>6, <1>8
<1>10. Links(T, T2, lvl, at, i, f)
  <2>1. DOMAIN T2 = DOMAIN T \cup {f} /\ T2[f] = Zero
    BY <1>6, <1>7
  <2>2. /\ \A t \in DOMAIN T : DOMAIN T2[t] = Indices
        /\ \A t \in DOMAIN T, j \in Indices : ~(t = at /\ j = i) => T2[t][j] = T[t][j]
    BY <1>6, <1>8
  <2>. QED BY <1>1, <1>2, <1>9, <2>1, <2>2 DEF Links
<1>. QED BY <1>3, <1>9, <1>10

\* Where a walk stands that has not failed.
LEMMA WalkStands ==
  ASSUME NEW all, NEW w, NEW lvl, NEW T, NEW page \in Pages,
         NEW set, NEW n \in 2 .. 4,
         WalkInv(all, w, lvl, T, page, set, n), w.result = "ok"
  PROVE  /\ w.at \in DOMAIN w.tables /\ lvl[w.at] = n /\ Index(page, n) \in Indices
         /\ Reached(w.tables, w.at, page, set, n)
         /\ Tree(w.tables, lvl)
<1>1. Reached(w.tables, w.at, page, set, n) /\ Tree(w.tables, lvl)
  BY DEF WalkInv
<1>2. w.at \in OnWay(w.tables, page, n) /\ n \in 1 .. 4
  BY <1>1 DEF Reached
<1>3. w.at \in DOMAIN w.tables /\ lvl[w.at] = n
  BY <1>1, <1>2, WayLevel
<1>4. Index(page, n) \in Indices
  BY <1>2, IndexIsIndex
<1>. QED BY <1>1, <1>3, <1>4

LEMMA FollowStep ==
  ASSUME NEW all, NEW w, NEW lvl, NEW T, NEW page \in Pages,
         NEW set, NEW mask, NEW opaque, NEW n \in 2 .. 4,
         set \subseteq AllFlags, WalkInv(all, w, lvl, T, page, set, n), w.result = "ok",
         PRESENT \in w.tables[w.at][Index(page, n)]
  PROVE  WalkInv(all, Follow(w, Index(page, n), set, mask, opaque), lvl, T, page, set, n - 1)
<1> DEFINE i == Index(page, n)
           flags == (GetFlags(w.tables[w.at][i]) \cap mask) \cup set
           T2 == [w.tables EXCEPT ![w.at][i] = w.tables[w.at][i] \cup flags]
           w2 == Follow(w, i, set, mask, opaque)
           r2 == IF GetAddr(w.tables[w.at][i] \cup flags) \in opaque
                 THEN "TranslationFailed" ELSE "ok"
<1>1. /\ w.at \in DOMAIN w.tables /\ lvl[w.at] = n /\ i \in Indices
      /\ Reached(w.tables, w.at, page, set, n)
      /\ Tree(w.tables, lvl)
  BY WalkStands
<1>2. flags \subseteq AllFlags /\ set \subseteq flags
  BY DEF GetFlags
<1>3. DOMAIN w = {"tables", "pool", "lost", "at", "result"}
  BY DEF WalkInv
<1>4. /\ DOMAIN w2 = {"tables", "pool", "lost", "at", "result"}
      /\ w2.tables = T2 /\ w2.pool = w.pool /\ w2.lost = w.lost /\ w2.result = r2
      /\ w2.at = GetAddr(w.tables[w.at][i] \cup flags)
  BY <1>3 DEF Follow, SetFlags
<1>. HIDE DEF flags
<1>5. FlagsAdded(w.tables, T2, lvl, w.at, i, flags)
  <2>1. PRESENT \in w.tables[w.at][i] /\ StandsAt(w.tables, lvl, w.at, i)
    BY <1>1 DEF StandsAt
  <2>. HIDE DEF i
  <2>2. T2 = [w.tables EXCEPT ![w.at][i] = w.tables[w.at][i] \cup flags]
    OBVIOUS
  <2>. HIDE DEF T2
  <2>. QED BY <1>2, <2>1, <2>2, FlagsStep
<1>. HIDE DEF T2, w2, r2
<1>6. Tree(T2, lvl)
  BY <1>1, <1>5, SameLinksTree DEF FlagsAdded
<1>7. FramesLeft(all, T2, w.pool, w.lost)
  BY <1>5 DEF WalkInv, FramesLeft, FlagsAdded, SameLinks
<1>8. ASSUME NEW p \in Pages PROVE LeafIn(T2, p) = LeafIn(T, p)
  <2>1. \A t \in OnWay(w.tables, p, 1) : t \in DOMAIN w.tables /\ lvl[t] = 1
    BY <1>1, WayLevel
  <2>2. Index(p, 1) \in Indices
    BY IndexIsIndex
  <2>3. ASSUME NEW t \in OnWay(w.tables, p, 1)
        PROVE  T2[t][Index(p, 1)] = w.tables[t][Index(p, 1)]
    <3>1. t \in DOMAIN w.tables /\ t # w.at
      BY <1>1, <2>1
    <3>. QED BY <1>5, <2>2, <3>1 DEF FlagsAdded
  <2>4. LeafIn(T2, p) = LeafIn(w.tables, p)
    <3>1. SameLinks(w.tables, T2, lvl)
      BY <1>5 DEF FlagsAdded
    <3>. QED BY <1>1, <2>3, <3>1, SameLeaves
  <2>. QED BY <2>4 DEF WalkInv
<1>9. Reached(T2, GetAddr(T2[w.at][i]), page, set, n - 1)
  <2>1. AgreeAbove(w.tables, T2, lvl, n)
    <3>1. SameLinks(w.tables, T2, lvl)
      BY <1>5 DEF FlagsAdded
    <3>2. lvl \in [DOMAIN w.tables -> 1 .. 4]
      BY <1>1 DEF Tree, Levels
    <3>. QED BY <3>1, <3>2 DEF SameLinks, AgreeAbove
  <2>2. set \cup {PRESENT} \subseteq T2[w.at][i]
    BY <1>2, <1>5 DEF FlagsAdded
  <2>3. \A t \in DOMAIN w.tables, j \in Indices : t # w.at => T2[t][j] = w.tables[t][j]
    BY <1>5 DEF FlagsAdded
  <2>4. Passed(w.tables, T2, lvl, w.at, page, set, n)
    BY <1>1, <2>1, <2>2, <2>3 DEF Passed
  <2>. QED BY <2>4, ReachedBelow
<1>10. r2 \in Results
  BY DEF r2, Results
<1>11. GetAddr(T2[w.at][i]) = GetAddr(w.tables[w.at][i] \cup flags)
  BY <1>5 DEF FlagsAdded
<1>12. WalkInv(all, w2, lvl, T, page, set, n - 1)
  BY <1>4, <1>6, <1>7, <1>8, <1>9, <1>10, <1>11 DEF WalkInv
<1>. QED BY <1>12 DEF w2
LEMMA LinkStep ==
  ASSUME NEW all, NEW w, NEW lvl, NEW T, NEW page \in Pages,
         NEW set, NEW n \in 2 .. 4,
         set \subseteq AllFlags, WalkInv(all, w, lvl, T, page, set, n), w.result = "ok",
         PRESENT \notin w.tables[w.at][Index(page, n)], w.pool # << >>
  PROVE  \E g : WalkInv(all, LinkNew(w, Index(page, n), set), g, T, page, set, n - 1)
<1> DEFINE i == Index(page, n)
           f == Head(w.pool)
           T2 == WithTable([w.tables EXCEPT ![w.at][i] =
                              SetFlags(SetAddr(@, f), set \cup {PRESENT})], f)
           w2 == LinkNew(w, i, set)
           g == Grown(w.tables, lvl, w.at, f)
<1>1. /\ w.at \in DOMAIN w.tables /\ lvl[w.at] = n /\ i \in Indices
      /\ Reached(w.tables, w.at, page, set, n)
      /\ Tree(w.tables, lvl)
  BY WalkStands
<1>2. DOMAIN w = {"tables", "pool", "lost", "at", "result"} /\ FramesLeft(all, w.tables, w.pool, w.lost)
  BY DEF WalkInv
<1>3. /\ DOMAIN w2 = {"tables", "pool", "lost", "at", "result"}
      /\ w2.tables = T2 /\ w2.pool = Tail(w.pool) /\ w2.lost = w.lost /\ w2.result = "ok"
      /\ w2.at = f
  BY <1>2 DEF LinkNew
<1>4. f \subseteq 12 .. 47 /\ f \notin DOMAIN w.tables
  BY <1>2, PoolTail
<1>5. PRESENT \notin w.tables[w.at][i] /\ StandsAt(w.tables, lvl, w.at, i)
  BY <1>1 DEF StandsAt
<1>6. T2 = WithTable([w.tables EXCEPT ![w.at][i] = SetFlags(SetAddr(@, f), set \cup {PRESENT})], f)
  OBVIOUS
<1>. HIDE DEF T2, w2
<1>7. Links(w.tables, T2, lvl, w.at, i, f) /\ set \cup {PRESENT} \subseteq T2[w.at][i]
  <2>. HIDE DEF i, f
  <2>. QED BY <1>4, <1>5, <1>6, NewTableStep
<1>8. DOMAIN T2 = DOMAIN w.tables \cup {f} /\ GetAddr(T2[w.at][i]) = f
  BY <1>7 DEF Links
<1>9. Tree(T2, g)
  <2>. HIDE DEF i, f
  <2>. QED BY <1>1, <1>7, LinkTree
<1>10. FramesLeft(all, T2, Tail(w.pool), w.lost)
  <2>1. Root \in DOMAIN w.tables
    BY <1>1 DEF Tree, Levels
  <2>. QED BY <1>2, <1>8, <2>1, FrameToTable
<1>11. ASSUME NEW p \in Pages PROVE LeafIn(T2, p) = LeafIn(T, p)
  <2>1. LeafIn(T2, p) = LeafIn(w.tables, p)
    <3>. HIDE DEF i, f
    <3>. QED BY <1>1, <1>7, LinkLeaves
  <2>. QED BY <2>1 DEF WalkInv
<1>12. Reached(T2, f, page, set, n - 1)
  <2>1. AgreeAbove(w.tables, T2, lvl, n)
    <3>1. AgreeAbove(w.tables, T2, lvl, lvl[w.at])
      <4>. HIDE DEF i, f
      <4>. QED BY <1>1, <1>7, LinkAgrees
    <3>. QED BY <1>1, <3>1
  <2>2. \A t \in DOMAIN w.tables, j \in Indices : t # w.at => T2[t][j] = w.tables[t][j]
    BY <1>7 DEF Links
  <2>3. Passed(w.tables, T2, lvl, w.at, page, set, n)
    BY <1>1, <1>7, <2>1, <2>2 DEF Passed
  <2>4. Reached(T2, GetAddr(T2[w.at][i]), page, set, n - 1)
    BY <2>3, ReachedBelow
  <2>. QED BY <1>8, <2>4
<1>13. WalkInv(all, w2, g, T, page, set, n - 1)
  <2>. HIDE DEF f, g
  <2>. QED BY <1>3, <1>9, <1>10, <1>11, <1>12 DEF WalkInv, Results
<1>. QED BY <1>13 DEF w2

LEMMA WalkStep ==
  ASSUME NEW all, NEW w, NEW lvl, NEW T, NEW page \in Pages,
         NEW set, NEW mask, NEW opaque, NEW n \in 2 .. 4,
         set \subseteq AllFlags, WalkInv(all, w, lvl, T, page, set, n)
  PROVE  \E g : WalkInv(all, NextLevelAlloc(w, page, n, set, mask, opaque), g, T, page, set, n - 1)
<1> DEFINE i == Index(page, n)
           w2 == NextLevelAlloc(w, page, n, set, mask, opaque)
<1>1. CASE w.result # "ok"
  <2>1. w2 = w
    BY <1>1 DEF NextLevelAlloc
  <2>2. WalkInv(all, w, lvl, T, page, set, n - 1)
    BY <1>1 DEF WalkInv
  <2>. QED BY <2>1, <2>2
<1>2. CASE w.result = "ok" /\ PRESENT \in w.tables[w.at][i]
  <2>1. PRESENT \in GetFlags(w.tables[w.at][i])
    BY <1>2 DEF GetFlags, AllFlags, PRESENT
  <2>2. w2 = Follow(w, i, set, mask, opaque)
    BY <1>2, <2>1 DEF NextLevelAlloc
  <2>3. WalkInv(all, Follow(w, i, set, mask, opaque), lvl, T, page, set, n - 1)
    BY <1>2, FollowStep
  <2>. QED BY <2>2, <2>3
<1>3. CASE w.result = "ok" /\ PRESENT \notin w.tables[w.at][i]
  <2>1. PRESENT \notin GetFlags(w.tables[w.at][i])
    BY <1>3 DEF GetFlags
  <2>2. CASE w.pool = << >>
    <3>1. w2 = [w EXCEPT !.result = "FrameAllocationFailed"]
      BY <1>3, <2>1, <2>2 DEF NextLevelAlloc
    <3>2. WalkInv(all, w2, lvl, T, page, set, n - 1)
      BY <3>1 DEF WalkInv, Results
    <3>. QED BY <3>2
  <2>3. CASE w.pool # << >> /\ Head(w.pool) \in opaque
    <3>1. w2 = [w EXCEPT !.pool = Tail(w.pool), !.lost = w.lost \cup {Head(w.pool)},
                         !.result = "TranslationFailed"]
      BY <1>3, <2>1, <2>3 DEF NextLevelAlloc
    <3>2. FramesLeft(all, w.tables, Tail(w.pool), w.lost \cup {Head(w.pool)})
      BY <2>3, FrameIsDropped DEF WalkInv
    <3>3. WalkInv(all, w2, lvl, T, page, set, n - 1)
      BY <3>1, <3>2 DEF WalkInv, Results
    <3>. QED BY <3>3
  <2>4. CASE w.pool # << >> /\ Head(w.pool) \notin opaque
    <3>1. w2 = LinkNew(w, i, set)
      BY <1>3, <2>1, <2>4 DEF NextLevelAlloc
    <3>2. \E g : WalkInv(all, LinkNew(w, i, set), g, T, page, set, n - 1)
      BY <1>3, <2>4, LinkStep
    <3>. QED BY <3>1, <3>2
  <2>. QED BY <2>2, <2>3, <2>4
<1>. QED BY <1>1, <1>2, <1>3
(***************************************************************************)
(* map                                                                     *)
(***************************************************************************)

LEMMA WalkReaches ==
  ASSUME NEW all, NEW lvl, Tree(tables, lvl), FramesLeft(all, tables, pool, lost),
         NEW page \in Pages, NEW set, set \subseteq AllFlags, NEW mask, NEW opaque
  PROVE  \E g : WalkInv(all, WalkTo(page, set, mask, opaque), g, tables, page, set, 1)
<1> DEFINE w4 == Walk(Root, "ok")
           w3 == NextLevelAlloc(w4, page, 4, set, mask, opaque)
           w2 == NextLevelAlloc(w3, page, 3, set, mask, opaque)
           w1 == NextLevelAlloc(w2, page, 2, set, mask, opaque)
<1>1. WalkInv(all, w4, lvl, tables, page, set, 4)
  <2>1. /\ DOMAIN w4 = {"tables", "pool", "lost", "at", "result"}
        /\ w4.tables = tables /\ w4.pool = pool /\ w4.lost = lost /\ w4.at = Root
        /\ w4.result = "ok"
    BY DEF Walk
  <2>2. Reached(tables, Root, page, set, 4)
    <3>1. OnWay(tables, page, 4) = {Root}
      BY WayIs
    <3>2. (4 + 1) .. 4 = {}
      OBVIOUS
    <3>. QED BY <3>1, <3>2 DEF Reached
  <2>. HIDE DEF w4
  <2>. QED BY <2>1, <2>2 DEF WalkInv, Results
<1>. HIDE DEF w4
<1>2. \E g : WalkInv(all, w3, g, tables, page, set, 4 - 1)
  BY <1>1, WalkStep
<1>. HIDE DEF w3
<1>3. PICK g3 : WalkInv(all, w3, g3, tables, page, set, 3)
  BY <1>2
<1>4. \E g : WalkInv(all, w2, g, tables, page, set, 3 - 1)
  BY <1>3, WalkStep
<1>. HIDE DEF w2
<1>5. PICK g2 : WalkInv(all, w2, g2, tables, page, set, 2)
  BY <1>4
<1>6. \E g : WalkInv(all, w1, g, tables, page, set, 2 - 1)
  BY <1>5, WalkStep
<1>7. PICK g1 : WalkInv(all, w1, g1, tables, page, set, 1)
  BY <1>6
<1>8. WalkTo(page, set, mask, opaque) = w1
  BY DEF WalkTo, w4, w3, w2
<1>. QED BY <1>7, <1>8

\* The leaf entry is written in the table the walk ends in.
Written(T, T2, lvl, page, entry) ==
  /\ Tree(T2, lvl)
  /\ DOMAIN T2 = DOMAIN T
  /\ LeafIn(T2, page) = entry
  /\ \A p \in Pages : p # page => LeafIn(T2, p) = LeafIn(T, p)

LEMMA LeafStep ==
  ASSUME NEW T, NEW T2, NEW lvl, Tree(T, lvl), NEW page \in Pages, NEW set, NEW at,
         Reached(T, at, page, set, 1), NEW entry, T2 = [T EXCEPT ![at][Index(page, 1)] = entry]
  PROVE  Written(T, T2, lvl, page, entry) /\ Reached(T2, at, page, set, 1)
<1> DEFINE i == Index(page, 1)
<1>1. OnWay(T, page, 1) = {at}
  BY DEF Reached
<1>2. at \in DOMAIN T /\ lvl[at] = 1 /\ i \in Indices
  BY <1>1, WayLevel, IndexIsIndex
<1>3. \A t \in DOMAIN T : DOMAIN T[t] = Indices
  BY DEF Tree, Levels
<1>4. T2 = [T EXCEPT ![at][i] = entry]
  OBVIOUS
<1>5. /\ DOMAIN T2 = DOMAIN T
      /\ \A t \in DOMAIN T : DOMAIN T2[t] = Indices
      /\ \A t \in DOMAIN T, j \in Indices : ~(t = at /\ j = i) => T2[t][j] = T[t][j]
      /\ T2[at][i] = entry
  <2>. HIDE DEF i
  <2>. QED BY <1>2, <1>3, <1>4
<1>6. \A t \in DOMAIN T, j \in Indices : lvl[t] > 1 => T2[t][j] = T[t][j]
  BY <1>2, <1>5
<1>7. AgreeAbove(T, T2, lvl, 1)
  BY <1>6 DEF AgreeAbove
<1>8. SameLinks(T, T2, lvl)
  BY <1>5, <1>6, <1>7 DEF SameLinks
<1>9. \A k \in 1 .. 4 : OnWay(T2, page, k) = OnWay(T, page, k)
  BY <1>7, AgreeWay
<1>10. LeafIn(T2, page) = entry
  BY <1>1, <1>5, <1>9 DEF LeafIn
<1>11. ASSUME NEW p \in Pages, p # page PROVE LeafIn(T2, p) = LeafIn(T, p)
  <2>1. ASSUME NEW t \in OnWay(T, p, 1) PROVE T2[t][Index(p, 1)] = T[t][Index(p, 1)]
    <3>1. t \in DOMAIN T /\ Index(p, 1) \in Indices
      BY WayLevel, IndexIsIndex
    <3>2. t = at => Index(p, 1) # i
      BY <1>1, <1>11, <2>1, LeavesApart
    <3>. QED BY <1>5, <3>1, <3>2
  <2>. QED BY <1>8, <2>1, SameLeaves
<1>12. Tree(T2, lvl)
  BY <1>8, SameLinksTree
<1>13. Reached(T2, at, page, set, 1)
  <2>1. OnWay(T2, page, 1) = {at}
    BY <1>1, <1>9
  <2>2. ASSUME NEW k \in (1 + 1) .. 4, NEW t \in OnWay(T2, page, k)
        PROVE  set \cup {PRESENT} \subseteq T2[t][Index(page, k)]
    <3>1. k \in 1 .. 4 /\ t \in OnWay(T, page, k)
      BY <1>9, <2>2
    <3>2. t \in DOMAIN T /\ lvl[t] = k /\ Index(page, k) \in Indices
      BY <3>1, WayLevel, IndexIsIndex
    <3>3. T2[t][Index(page, k)] = T[t][Index(page, k)]
      BY <1>6, <3>2
    <3>. QED BY <3>1, <3>3 DEF Reached
  <2>. QED BY <2>1, <2>2 DEF Reached
<1>. QED BY <1>5, <1>10, <1>11, <1>12, <1>13 DEF Written
\* What a call of map does.
MapDoes(all, page, entry, set, T, T2, left, dropped, answer) ==
  /\ \E g : Tree(T2, g)
  /\ FramesLeft(all, T2, left, dropped)
  /\ answer \in Results \cup {"panic"}
  /\ answer = "ok" => /\ LeafIn(T2, page) = entry
                      /\ \A p \in Pages : p # page => LeafIn(T2, p) = LeafIn(T, p)
                      /\ \E at : Reached(T2, at, page, set, 1)
  /\ answer # "ok" => \A p \in Pages : LeafIn(T2, p) = LeafIn(T, p)

LEMMA MapEffect ==
  ASSUME NEW all, NEW lvl, Tree(tables, lvl), FramesLeft(all, tables, pool, lost),
         NEW page \in Pages, NEW frame, NEW leaf, NEW set, set \subseteq AllFlags, NEW mask,
         NEW opaque, Map(page, frame, leaf, set, mask, opaque)
  PROVE  MapDoes(all, page, frame \cup leaf, set, tables, tables', pool', lost', reply')
<1> DEFINE w == WalkTo(page, set, mask, opaque)
           entry == SetFlags(SetAddr({}, frame), leaf)
<1>1. PICK g : WalkInv(all, w, g, tables, page, set, 1)
  BY WalkReaches
<1>2. /\ pool' = w.pool /\ lost' = w.lost
      /\ w.result = "ok" /\ AddrAccepted(frame) =>
           tables' = [w.tables EXCEPT ![w.at][Index(page, 1)] = entry]
      /\ ~(w.result = "ok" /\ AddrAccepted(frame)) => tables' = w.tables
      /\ reply' = IF w.result = "ok" /\ ~AddrAccepted(frame) THEN "panic" ELSE w.result
  BY DEF Map, WriteLeaf
<1>3. entry = frame \cup leaf
  BY DEF SetFlags, SetAddr
<1>. HIDE DEF w, entry
<1>4. /\ Tree(w.tables, g) /\ FramesLeft(all, w.tables, w.pool, w.lost) /\ w.result \in Results
      /\ \A p \in Pages : LeafIn(w.tables, p) = LeafIn(tables, p)
      /\ w.result = "ok" => Reached(w.tables, w.at, page, set, 1)
  BY <1>1 DEF WalkInv
<1>5. CASE w.result = "ok" /\ AddrAccepted(frame)
  <2>1. reply' = "ok" /\ tables' = [w.tables EXCEPT ![w.at][Index(page, 1)] = entry]
    BY <1>2, <1>5
  <2>2. Written(w.tables, tables', g, page, entry) /\ Reached(tables', w.at, page, set, 1)
    BY <1>4, <1>5, <2>1, LeafStep
  <2>3. FramesLeft(all, tables', pool', lost')
    BY <1>2, <1>4, <2>2 DEF FramesLeft, Written
  <2>. QED BY <1>3, <1>4, <2>1, <2>2, <2>3 DEF MapDoes, Written, Results
<1>6. CASE ~(w.result = "ok" /\ AddrAccepted(frame))
  <2>1. tables' = w.tables /\ reply' # "ok" /\ reply' \in Results \cup {"panic"}
    BY <1>2, <1>4, <1>6
  <2>. QED BY <1>2, <1>4, <2>1 DEF MapDoes
<1>. QED BY <1>5, <1>6

(***************************************************************************)
(* The invariant                                                           *)
(***************************************************************************)

\* The tables are a tree, and every frame is with the allocator, dropped, or
\* one of them.
PagingInv == (\E lvl : Tree(tables, lvl)) /\ FramesLeft(FramesOf(TableFrames), tables, pool, lost)

\* The tables at the start: the level 4 table, and all frames with the allocator.
LEMMA TreeStarts ==
  ASSUME NEW frames, frames \in Seq((SUBSET (12 .. 47)) \ {{}}),
         \A i, j \in 1 .. Len(frames) : frames[i] = frames[j] => i = j,
         tables = [t \in {Root} |-> Zero], pool = frames, lost = {}
  PROVE  (\E lvl : Tree(tables, lvl)) /\ FramesLeft(FramesOf(frames), tables, pool, lost)
<1> DEFINE lvl == [t \in {Root} |-> 4]
<1>1. DOMAIN tables = {Root} /\ tables[Root] = Zero
  OBVIOUS
<1>2. \A i \in Indices : tables[Root][i] = {}
  BY <1>1 DEF Zero, Indices
<1>3. Levels(tables, lvl)
  BY <1>1 DEF Levels, Zero, Indices
<1>. HIDE DEF lvl
<1>4. Descends(tables, lvl) /\ OneParent(tables, lvl) /\ HasParent(tables, lvl)
  BY <1>1, <1>2 DEF Descends, OneParent, HasParent, IsParent
<1>5. FramesLeft(FramesOf(frames), tables, pool, lost)
  <2>1. DOMAIN tables \ {Root} = {}
    BY <1>1
  <2>4. \A i \in 1 .. Len(frames) : frames[i] # Root
    <3> DEFINE S == (SUBSET (12 .. 47)) \ {{}}
    <3>1. \A f \in S : f # Root
      BY DEF Root
    <3>2. frames \in Seq(S)
      OBVIOUS
    <3>. HIDE DEF S
    <3>. QED BY <3>1, <3>2
  <2>6. FramesOf(pool) \cup lost \cup (DOMAIN tables \ {Root}) = FramesOf(frames)
    BY <2>1
  <2>7. \A i \in 1 .. Len(pool) : pool[i] \notin DOMAIN tables /\ pool[i] \notin lost
    BY <1>1, <2>4
  <2>10. lost \cap DOMAIN tables = {}
    OBVIOUS
  <2>. QED BY <2>6, <2>7, <2>10 DEF FramesLeft
<1>. QED BY <1>3, <1>4, <1>5 DEF Tree

LEMMA PagingInit == Init => PagingInv
BY TreeStarts, FramesAssumption DEF Init, PagingInv

\* What a step of the specification does, if it is not a stutter.
LEMMA StepMaps ==
  ASSUME PagingInv, Next
  PROVE  \/ UNCHANGED vars
         \/ \E page \in Pages, frame \in Frames, leaf \in LeafFlagSets, set \in ParentFlagSets :
              /\ call'.page = page /\ call'.set = set
              /\ MapDoes(FramesOf(TableFrames), page, frame \cup leaf, set, tables, tables', pool', lost', reply')
<1>1. CASE Halted
  BY <1>1 DEF Halted
<1>2. CASE MapAny
  <2>1. PICK page \in Pages, frame \in Frames, leaf \in LeafFlagSets,
             set \in ParentFlagSets, mask \in MaskFlagSets, opaque \in OpaqueSets :
               Map(page, frame, leaf, set, mask, opaque)
    BY <1>2 DEF MapAny
  <2>2. set \subseteq AllFlags
    BY PagingAssumption
  <2>3. PICK lvl : Tree(tables, lvl)
    BY DEF PagingInv
  <2>4. MapDoes(FramesOf(TableFrames), page, frame \cup leaf, set, tables, tables', pool', lost', reply')
    BY <2>1, <2>2, <2>3, MapEffect DEF PagingInv
  <2>5. call'.page = page /\ call'.set = set
    BY <2>1 DEF Map
  <2>. QED BY <2>4, <2>5
<1>. QED BY <1>1, <1>2 DEF Next

LEMMA PagingNext == PagingInv /\ [Next]_vars => PagingInv'
<1>. SUFFICES ASSUME PagingInv, [Next]_vars PROVE PagingInv'
  OBVIOUS
<1>1. CASE UNCHANGED vars
  BY <1>1 DEF vars, PagingInv
<1>2. CASE Next
  <2>1. UNCHANGED vars \/ ((\E lvl : Tree(tables', lvl)) /\ FramesLeft(FramesOf(TableFrames), tables', pool', lost'))
    BY <1>2, StepMaps DEF MapDoes
  <2>. QED BY <1>1, <2>1 DEF PagingInv
<1>. QED BY <1>1, <1>2

\* Whatever calls of map succeed or fail half-way, the page tables are a tree of
\* four levels and no frame of the allocator is used twice or forgotten.
THEOREM TablesAreATree == Spec => []PagingInv
BY PagingInit, PagingNext, PTL DEF Spec
(***************************************************************************)
(* Every table has one owner                                               *)
(***************************************************************************)

\* The tables of the levels 4, 3 and 2 are the ones ParentEntries finds.
LEMMA ParentLevels ==
  ASSUME NEW lvl, Tree(tables, lvl)
  PROVE  \A r : r \in ParentEntries <=>
           \E t \in DOMAIN tables : \E i \in Indices : r = <<t, i>> /\ IsParent(tables, lvl, t, i)
<1> DEFINE L(n) == {t \in DOMAIN tables : lvl[t] = n}
<1>1. \A t \in DOMAIN tables : lvl[t] \in 1 .. 4
  BY DEF Tree, Levels
<1>2. ASSUME NEW n \in 2 .. 4 PROVE Children(L(n)) \cap DOMAIN tables = L(n - 1)
  <2>1. ASSUME NEW t \in DOMAIN tables, t \in Children(L(n)) PROVE lvl[t] = n - 1
    <3>1. PICK r \in PresentIn(L(n)) : t = GetAddr(tables[r[1]][r[2]])
      BY <2>1 DEF Children
    <3>2. r[1] \in L(n) /\ r[2] \in Indices /\ PRESENT \in tables[r[1]][r[2]]
      BY DEF PresentIn, Indices
    <3>3. r[1] \in DOMAIN tables /\ lvl[r[1]] = n
      BY <3>2
    <3>4. IsParent(tables, lvl, r[1], r[2])
      BY <3>2, <3>3 DEF IsParent
    <3>. QED BY <3>1, <3>2, <3>3, <3>4 DEF Tree, Descends
  <2>2. ASSUME NEW t \in DOMAIN tables, lvl[t] = n - 1 PROVE t \in Children(L(n))
    <3>1. t # Root
      BY <2>2 DEF Tree, Levels
    <3>2. PICK u \in DOMAIN tables, i \in Indices :
            IsParent(tables, lvl, u, i) /\ GetAddr(tables[u][i]) = t
      BY <3>1 DEF Tree, HasParent
    <3>3. lvl[t] = lvl[u] - 1
      BY <3>2 DEF Tree, Descends
    <3>4. lvl[u] = n
      BY <1>1, <2>2, <3>2, <3>3
    <3>5. <<u, i>> \in PresentIn(L(n))
      BY <3>2, <3>4 DEF PresentIn, Indices, IsParent
    <3>6. GetAddr(tables[<<u, i>>[1]][<<u, i>>[2]]) = t
      BY <3>2
    <3>. QED BY <3>5, <3>6 DEF Children
  <2>. QED BY <2>1, <2>2
<1>3. L(4) = {Root}
  <2>1. ASSUME NEW t \in DOMAIN tables, lvl[t] = 4, t # Root PROVE FALSE
    <3>1. PICK u \in DOMAIN tables, i \in Indices :
            IsParent(tables, lvl, u, i) /\ GetAddr(tables[u][i]) = t
      BY <2>1 DEF Tree, HasParent
    <3>2. lvl[t] = lvl[u] - 1 /\ lvl[u] \in 1 .. 4
      BY <1>1, <3>1 DEF Tree, Descends
    <3>. QED BY <2>1, <3>2
  <2>. QED BY <2>1 DEF Tree, Levels
<1>4. Children({Root}) \cap DOMAIN tables = L(3)
  <2>1. Children(L(4)) \cap DOMAIN tables = L(4 - 1)
    BY <1>2
  <2>2. L(4 - 1) = L(3)
    OBVIOUS
  <2>. HIDE DEF L
  <2>. QED BY <1>3, <2>1, <2>2, Zenon
<1>5. Children(L(3)) \cap DOMAIN tables = L(2)
  <2>1. Children(L(3)) \cap DOMAIN tables = L(3 - 1)
    BY <1>2
  <2>2. L(3 - 1) = L(2)
    OBVIOUS
  <2>. HIDE DEF L
  <2>. QED BY <2>1, <2>2, Zenon
<1>6. ParentEntries = PresentIn({Root} \cup L(3) \cup L(2))
  <2>. HIDE DEF L
  <2>. QED BY <1>4, <1>5, Zenon DEF ParentEntries
<1>7. \A t : t \in {Root} \cup L(3) \cup L(2) <=> t \in DOMAIN tables /\ lvl[t] > 1
  BY <1>1, <1>3
<1>8. ASSUME NEW r
      PROVE  r \in ParentEntries <=>
               \E t \in DOMAIN tables : \E i \in Indices : r = <<t, i>> /\ IsParent(tables, lvl, t, i)
  <2>. HIDE DEF L
  <2>1. ASSUME r \in ParentEntries
        PROVE  \E t \in DOMAIN tables : \E i \in Indices : r = <<t, i>> /\ IsParent(tables, lvl, t, i)
    <3>1. /\ r \in ({Root} \cup L(3) \cup L(2)) \X Indices
          /\ PRESENT \in tables[r[1]][r[2]]
      BY <1>6, <2>1 DEF PresentIn, Indices
    <3>2. r = <<r[1], r[2]>> /\ r[1] \in {Root} \cup L(3) \cup L(2) /\ r[2] \in Indices
      BY <3>1
    <3>. QED BY <1>7, <3>1, <3>2 DEF IsParent
  <2>2. ASSUME NEW t \in DOMAIN tables, NEW i \in Indices, r = <<t, i>>, IsParent(tables, lvl, t, i)
        PROVE  r \in ParentEntries
    <3>1. t \in {Root} \cup L(3) \cup L(2)
      BY <1>7, <2>2 DEF IsParent
    <3>2. r[1] = t /\ r[2] = i /\ r \in ({Root} \cup L(3) \cup L(2)) \X Indices
      BY <2>2, <3>1
    <3>. QED BY <1>6, <2>2, <3>2 DEF PresentIn, Indices, IsParent
  <2>. QED BY <2>1, <2>2
<1>. QED BY <1>8

(***************************************************************************)
(* The flags on the way                                                    *)
(***************************************************************************)

LEMMA TablesOnIs ==
  ASSUME NEW page, NEW level \in 1 .. 4
  PROVE  TablesOn(page)[level] = OnWay(tables, page, level)
<1>1. \A ts, k : Below(ts, page, k) = BelowIn(tables, ts, page, k)
  BY DEF Below, BelowIn
<1>2. /\ TablesOn(page)[4] = {Root}
      /\ TablesOn(page)[3] = Below({Root}, page, 4)
      /\ TablesOn(page)[2] = Below(Below({Root}, page, 4), page, 3)
      /\ TablesOn(page)[1] = Below(Below(Below({Root}, page, 4), page, 3), page, 2)
  BY DEF TablesOn
<1>3. /\ TablesOn(page)[4] = {Root}
      /\ TablesOn(page)[3] = BelowIn(tables, {Root}, page, 4)
      /\ TablesOn(page)[2] = BelowIn(tables, BelowIn(tables, {Root}, page, 4), page, 3)
      /\ TablesOn(page)[1] =
           BelowIn(tables, BelowIn(tables, BelowIn(tables, {Root}, page, 4), page, 3), page, 2)
  BY <1>1, <1>2
<1>4. CASE level = 4
  BY <1>3, <1>4, WayIs
<1>5. CASE level = 3
  BY <1>3, <1>5, WayIs
<1>6. CASE level = 2
  BY <1>3, <1>6, WayIs
<1>7. CASE level = 1
  BY <1>3, <1>7, WayIs
<1>. QED BY <1>4, <1>5, <1>6, <1>7

FlagsOn(T, page, set) ==
  /\ OnWay(T, page, 1) # {}
  /\ \A k \in 2 .. 4 : \A t \in OnWay(T, page, k) :
       set \cup {PRESENT} \subseteq T[t][Index(page, k)]

FlagsInv == PagingInv /\ (reply = "ok" => FlagsOn(tables, call.page, call.set))

LEMMA FlagsInvMeans == FlagsInv => PathHasFlags
<1>. SUFFICES ASSUME FlagsInv, reply = "ok"
              PROVE  /\ TablesOn(call.page)[1] # {}
                     /\ \A r \in PathEntries(call.page) :
                          call.set \cup {PRESENT} \subseteq tables[r[1]][r[2]]
  BY DEF PathHasFlags
<1>1. FlagsOn(tables, call.page, call.set)
  BY DEF FlagsInv
<1>2. TablesOn(call.page)[1] # {}
  BY <1>1, TablesOnIs DEF FlagsOn
<1>3. ASSUME NEW r \in PathEntries(call.page)
      PROVE  call.set \cup {PRESENT} \subseteq tables[r[1]][r[2]]
  <2>1. PICK k \in 2 .. 4 : r \in {<<t, Index(call.page, k)>> : t \in TablesOn(call.page)[k]}
    BY DEF PathEntries
  <2>2. PICK t \in TablesOn(call.page)[k] : r = <<t, Index(call.page, k)>>
    BY <2>1
  <2>3. r[1] = t /\ r[2] = Index(call.page, k)
    BY <2>2
  <2>4. t \in OnWay(tables, call.page, k)
    BY TablesOnIs
  <2>. QED BY <1>1, <2>3, <2>4 DEF FlagsOn
<1>. QED BY <1>2, <1>3

\* After map succeeds, every entry on the way to the page is present and has the
\* flags asked for, those that an earlier call made and this one passed included.
THEOREM FlagsOnThePath == Spec => []PathHasFlags
<1>1. Init => FlagsInv
  BY PagingInit DEF Init, FlagsInv
<1>2. FlagsInv /\ [Next]_vars => FlagsInv'
  <2>. SUFFICES ASSUME FlagsInv, [Next]_vars PROVE FlagsInv'
    OBVIOUS
  <2>1. PagingInv'
    BY PagingNext DEF FlagsInv
  <2>2. CASE UNCHANGED vars
    BY <2>1, <2>2 DEF vars, FlagsInv
  <2>3. CASE Next /\ ~UNCHANGED vars
    <3>1. PICK page \in Pages, frame \in Frames, leaf \in LeafFlagSets, set \in ParentFlagSets :
            /\ call'.page = page /\ call'.set = set
            /\ MapDoes(FramesOf(TableFrames), page, frame \cup leaf, set, tables, tables', pool', lost', reply')
      BY <2>3, StepMaps DEF FlagsInv
    <3>2. ASSUME reply' = "ok" PROVE FlagsOn(tables', page, set)
      <4>1. PICK at : Reached(tables', at, page, set, 1)
        BY <3>1, <3>2 DEF MapDoes
      <4>. QED BY <4>1 DEF Reached, FlagsOn
    <3>. QED BY <2>1, <3>1, <3>2 DEF FlagsInv
  <2>. QED BY <2>2, <2>3
<1>. QED BY <1>1, <1>2, FlagsInvMeans, PTL DEF Spec

(***************************************************************************)
(* The tables implement a map from pages to entries                        *)
(***************************************************************************)

LEMMA LeafIs == \A page : Leaf(page) = LeafIn(tables, page)
BY TablesOnIs DEF Leaf, LeafIn

LEMMA LeavesStart ==
  ASSUME tables = [t \in {Root} |-> Zero], NEW page \in Pages
  PROVE  LeafIn(tables, page) = {}
<1>1. tables[Root] = Zero /\ Index(page, 4) \in Indices
  BY IndexIsIndex
<1>2. tables[Root][Index(page, 4)] = {}
  BY <1>1 DEF Zero, Indices
<1>3. BelowIn(tables, {Root}, page, 4) = {}
  BY <1>2 DEF BelowIn
<1>4. OnWay(tables, page, 1) = {}
  <2>1. \A level : BelowIn(tables, {}, page, level) = {}
    BY DEF BelowIn
  <2>. QED BY <1>3, <2>1, WayIs
<1>. QED BY <1>4 DEF LeafIn

\* Mapper::map with all its tables is the one-step map of PageMap: it changes the
\* entry of the page it is given, or that of no page.
THEOREM MapIsAtomic == Spec => ImplementsPageMap
<1>1. Init => P!Init
  <2>. SUFFICES ASSUME Init PROVE P!Init
    OBVIOUS
  <2>1. ASSUME NEW page \in Pages PROVE Leaf(page) = {}
    BY LeavesStart, LeafIs DEF Init
  <2>. QED BY <2>1 DEF Init, P!Init
<1>2. PagingInv /\ [Next]_vars => [P!Next]_(P!vars)
  <2>. SUFFICES ASSUME PagingInv, [Next]_vars PROVE [P!Next]_(P!vars)
    OBVIOUS
  <2> DEFINE m == [page \in Pages |-> Leaf(page)]
             m2 == [page \in Pages |-> LeafIn(tables', page)]
  <2>0. m' = m2
    <3>1. (\A page : Leaf(page) = LeafIn(tables, page))'
      BY LeafIs, PTL
    <3>. QED BY <3>1
  <2>1. CASE UNCHANGED vars
    <3>1. tables' = tables /\ reply' = reply
      BY <2>1 DEF vars
    <3>2. m' = m
      BY <2>0, <3>1, LeafIs
    <3>. QED BY <3>1, <3>2 DEF P!vars
  <2>2. CASE Next /\ ~UNCHANGED vars
    <3>1. PICK page \in Pages, frame \in Frames, leaf \in LeafFlagSets, set \in ParentFlagSets :
            MapDoes(FramesOf(TableFrames), page, frame \cup leaf, set, tables, tables', pool', lost', reply')
      BY <2>2, StepMaps
    <3>2. CASE reply' = "ok"
      <4>1. m2 = [m EXCEPT ![page] = frame \cup leaf]
        BY <3>1, <3>2, LeafIs DEF MapDoes
      <4>2. P!MapPage(page, frame, leaf)
        BY <2>0, <3>2, <4>1 DEF P!MapPage
      <4>. QED BY <4>2 DEF P!Next
    <3>3. CASE reply' # "ok"
      <4>1. m2 = m
        BY <3>1, <3>3, LeafIs DEF MapDoes
      <4>2. reply' \in P!Errors \cup {"panic"}
        BY <3>1, <3>3 DEF MapDoes, Results, P!Errors
      <4>. QED BY <2>0, <4>1, <4>2 DEF P!Next, P!MapFails, P!Panics
    <3>. QED BY <3>2, <3>3
  <2>. QED BY <2>1, <2>2
<1>. QED BY <1>1, <1>2, TablesAreATree, PTL DEF Spec, ImplementsPageMap, P!Spec
===============================================================================
