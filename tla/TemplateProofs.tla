---------------------------- MODULE TemplateProofs ----------------------------
(***************************************************************************)
(* Proofs about PageTableTemplate, for every memory map, every layout of   *)
(* the kernel image the assumptions admit, every radix and every supply of *)
(* frames: the tables of the new page table hold what the calls of map     *)
(* made so far say, so the finished template is the one intended and       *)
(* protects the kernel.  What PagingProofs shows of one call of map is     *)
(* used as it stands.  The last part counts frames.                        *)
(***************************************************************************)
EXTENDS PageTableTemplate, PagingProofs

(***************************************************************************)
(* The template: the calls of map of create_page_table_template            *)
(***************************************************************************)

IsPhysCall(frames, c) ==
  \E f \in Members(frames) : f < MaxFrames /\ c = MapCall(PhysBase + f, f, DataFlags)

IsLowCall(c) == \E p \in 0 .. (LowPages - 1) : c = MapCall(p, p, DataFlags)

IsSectionCall(s, c) ==
  /\ Mapped(s)
  /\ ~({"writable", "executable"} \subseteq s.flags)
  /\ Members(s.pages) \subseteq Members(KernelImage)
  /\ \E p \in Members(s.pages) : c = MapCall(p, p - KernelBase, SectionFlags(s))

\* A position of a range, and the member there.
LEMMA MemberAt ==
  ASSUME NEW r \in Ranges
  PROVE  /\ Members(r) \subseteq Nat
         /\ \A i \in 1 .. r.count : r.first + i - 1 \in Members(r)
         /\ \A m \in Members(r) :
              m - r.first + 1 \in 1 .. r.count /\ r.first + (m - r.first + 1) - 1 = m
<1>1. r.first \in Nat /\ r.count \in Nat
  BY DEF Ranges
<1>. QED BY <1>1 DEF Members

LEMMA PhysCallsAre ==
  ASSUME NEW frames \in Ranges
  PROVE  /\ Len(PhysCalls(frames)) = frames.count
         /\ \A i \in 1 .. frames.count :
              PhysCalls(frames)[i] = PanicCall \/ IsPhysCall(frames, PhysCalls(frames)[i])
         /\ \A f \in Members(frames) : \E i \in 1 .. frames.count :
              PhysCalls(frames)[i] = PanicCall \/ PhysCalls(frames)[i].page = PhysBase + f
<1>1. frames.first \in Nat /\ frames.count \in Nat
  BY DEF Ranges
<1>2. PhysCalls(frames) = [i \in 1 .. frames.count |-> PhysCalls(frames)[i]]
  BY DEF PhysCalls
<1>3. \A i \in 1 .. frames.count :
        PhysCalls(frames)[i] =
          IF frames.first + i - 1 < MaxFrames
          THEN MapCall(PhysBase + (frames.first + i - 1), frames.first + i - 1, DataFlags)
          ELSE PanicCall
  BY DEF PhysCalls
<1> DEFINE calls == PhysCalls(frames)
<1>. HIDE DEF calls
<1>4. Len(calls) = frames.count
  BY <1>1, <1>2 DEF calls
<1>5. ASSUME NEW i \in 1 .. frames.count
      PROVE  calls[i] = PanicCall \/ IsPhysCall(frames, calls[i])
  <2>1. frames.first + i - 1 \in Members(frames)
    BY MemberAt
  <2>. QED BY <1>3, <2>1 DEF IsPhysCall, calls
<1>6. ASSUME NEW f \in Members(frames)
      PROVE  \E i \in 1 .. frames.count : calls[i] = PanicCall \/ calls[i].page = PhysBase + f
  <2> DEFINE i == f - frames.first + 1
  <2>1. i \in 1 .. frames.count /\ frames.first + i - 1 = f
    BY MemberAt
  <2>. HIDE DEF i
  <2>2. calls[i] = PanicCall \/ calls[i] = MapCall(PhysBase + f, f, DataFlags)
    BY <1>3, <2>1 DEF calls
  <2>. QED BY <2>1, <2>2 DEF MapCall
<1>. QED BY <1>4, <1>5, <1>6 DEF calls

LEMMA LowCallsAre ==
  /\ Len(LowCalls) = LowPages
  /\ \A i \in 1 .. LowPages : IsLowCall(LowCalls[i])
  /\ \A p \in 0 .. (LowPages - 1) : \E i \in 1 .. LowPages : LowCalls[i].page = p
<1>1. LowPages \in Nat
  BY AreasAssumption
<1>2. \A i \in 1 .. LowPages : LowCalls[i] = MapCall(i - 1, i - 1, DataFlags)
  BY DEF LowCalls
<1>3. Len(LowCalls) = LowPages
  BY <1>1 DEF LowCalls
<1>4. ASSUME NEW i \in 1 .. LowPages PROVE IsLowCall(LowCalls[i])
  <2>1. i - 1 \in 0 .. (LowPages - 1)
    BY <1>1
  <2>. QED BY <1>2, <2>1 DEF IsLowCall
<1>5. ASSUME NEW p \in 0 .. (LowPages - 1)
      PROVE  \E i \in 1 .. LowPages : LowCalls[i].page = p
  <2>1. p + 1 \in 1 .. LowPages /\ (p + 1) - 1 = p
    BY <1>1
  <2>2. LowCalls[p + 1] = MapCall(p, p, DataFlags)
    BY <1>2, <2>1
  <2>. QED BY <2>1, <2>2 DEF MapCall
<1>. QED BY <1>3, <1>4, <1>5

\* The branch of the loop's body in which a section is mapped.
SectionPages(s) ==
  [i \in 1 .. s.pages.count |->
     MapCall(s.pages.first + i - 1, s.pages.first + i - 1 - KernelBase, SectionFlags(s))]

LEMMA SectionCallsAre ==
  ASSUME NEW s, s.pages \in Ranges
  PROVE  /\ Len(SectionCalls(s)) \in Nat
         /\ \A i \in 1 .. Len(SectionCalls(s)) :
              SectionCalls(s)[i] = PanicCall \/ IsSectionCall(s, SectionCalls(s)[i])
         /\ Mapped(s) => \A p \in Members(s.pages) : \E i \in 1 .. Len(SectionCalls(s)) :
              SectionCalls(s)[i] = PanicCall \/ SectionCalls(s)[i].page = p
<1>1. s.pages.first \in Nat /\ s.pages.count \in Nat
  BY DEF Ranges
<1> DEFINE calls == SectionCalls(s)
<1>2. \/ calls = << PanicCall >>
      \/ calls = << >> /\ ~Mapped(s)
      \/ /\ calls = SectionPages(s) /\ Mapped(s)
         /\ ~({"writable", "executable"} \subseteq s.flags)
         /\ Members(s.pages) \subseteq Members(KernelImage)
  BY DEF SectionCalls, SectionPages, Mapped
<1>. HIDE DEF calls
<1>3. CASE calls = << PanicCall >>
  <2>1. Len(calls) = 1 /\ calls[1] = PanicCall /\ 1 \in 1 .. 1
    BY <1>3
  <2>2. \A i \in 1 .. 1 : i = 1
    OBVIOUS
  <2>. QED BY <2>1, <2>2 DEF calls
<1>4. CASE calls = << >> /\ ~Mapped(s)
  <2>1. Len(calls) = 0 /\ 1 .. 0 = {}
    BY <1>4
  <2>. QED BY <1>4, <2>1 DEF calls
<1>5. CASE /\ calls = SectionPages(s) /\ Mapped(s)
           /\ ~({"writable", "executable"} \subseteq s.flags)
           /\ Members(s.pages) \subseteq Members(KernelImage)
  <2>1. Len(calls) = s.pages.count
    BY <1>1, <1>5 DEF SectionPages
  <2>2. \A i \in 1 .. s.pages.count :
          calls[i] = MapCall(s.pages.first + i - 1, s.pages.first + i - 1 - KernelBase, SectionFlags(s))
    BY <1>5 DEF SectionPages
  <2>3. ASSUME NEW i \in 1 .. s.pages.count PROVE IsSectionCall(s, calls[i])
    <3>1. s.pages.first + i - 1 \in Members(s.pages)
      BY MemberAt
    <3> DEFINE p == s.pages.first + i - 1
    <3>2. calls[i] = MapCall(p, p - KernelBase, SectionFlags(s))
      BY <1>1, <2>2, AreasAssumption
    <3>. HIDE DEF p
    <3>3. p \in Members(s.pages)
      BY <3>1 DEF p
    <3>. QED BY <1>5, <3>2, <3>3 DEF IsSectionCall
  <2>4. ASSUME NEW p \in Members(s.pages)
        PROVE  \E i \in 1 .. s.pages.count : calls[i].page = p
    <3> DEFINE i == p - s.pages.first + 1
    <3>1. i \in 1 .. s.pages.count /\ s.pages.first + i - 1 = p
      BY MemberAt
    <3>. HIDE DEF i
    <3>2. calls[i] = MapCall(s.pages.first + i - 1, s.pages.first + i - 1 - KernelBase, SectionFlags(s))
      BY <2>2, <3>1
    <3>3. s.pages.first + i - 1 - KernelBase = p - KernelBase
      BY <1>1, <3>1, AreasAssumption
    <3>. QED BY <3>1, <3>2, <3>3 DEF MapCall
  <2>. QED BY <1>1, <2>1, <2>3, <2>4 DEF calls
<1>. QED BY <1>2, <1>3, <1>4, <1>5

(***************************************************************************)
(* The loops                                                               *)
(***************************************************************************)

\* The calls of every item.
Script == [k \in 1 .. Items |-> Calls(k)]

Scripted(cs) ==
  /\ \E n \in Nat : DOMAIN cs = 1 .. n
  /\ \A k \in DOMAIN cs : Len(cs[k]) \in Nat

\* The call i of item k comes before the cursor.
Past(k0, n, k, i) == k < k0 \/ (k = k0 /\ i <= n)

\* It is the last one before the cursor that maps the page.
LastCall(cs, k0, n, page, k, i) ==
  /\ Past(k0, n, k, i)
  /\ cs[k][i].page = page
  /\ \A k2 \in DOMAIN cs : \A i2 \in 1 .. Len(cs[k2]) :
       Past(k0, n, k2, i2) /\ cs[k2][i2].page = page => k2 < k \/ (k2 = k /\ i2 <= i)

Untouched(cs, k0, n, page) ==
  \A k \in DOMAIN cs : \A i \in 1 .. Len(cs[k]) :
    Past(k0, n, k, i) => cs[k][i].page # page

\* A page has the entry of the last call that maps it, or none.
PageIs(cs, k0, n, T, page) ==
  \/ LeafIn(T, page) = {} /\ Untouched(cs, k0, n, page)
  \/ \E k \in DOMAIN cs : \E i \in 1 .. Len(cs[k]) :
       /\ LastCall(cs, k0, n, page, k, i)
       /\ LeafIn(T, page) = AddressBits[cs[k][i].frame] \cup cs[k][i].leaf

Reflects(cs, k0, n, T) ==
  /\ \A k \in DOMAIN cs : \A i \in 1 .. Len(cs[k]) : Past(k0, n, k, i) => cs[k][i] # PanicCall
  /\ \A page \in Pages : PageIs(cs, k0, n, T, page)

\* What a call of map that succeeds does to the entries.
EntrySet(T, T2, c) ==
  /\ LeafIn(T2, c.page) = AddressBits[c.frame] \cup c.leaf
  /\ \A page \in Pages : page # c.page => LeafIn(T2, page) = LeafIn(T, page)

LEMMA CallReflected ==
  ASSUME NEW cs, Scripted(cs), NEW k0 \in DOMAIN cs, NEW n \in Nat, n < Len(cs[k0]),
         NEW T, NEW T2, Reflects(cs, k0, n, T),
         cs[k0][n + 1] # PanicCall, EntrySet(T, T2, cs[k0][n + 1])
  PROVE  Reflects(cs, k0, n + 1, T2)
<1> DEFINE c == cs[k0][n + 1]
<1>0. DOMAIN cs \subseteq Nat /\ (\A k \in DOMAIN cs : Len(cs[k]) \in Nat)
  BY DEF Scripted
<1>1. n + 1 \in 1 .. Len(cs[k0]) /\ Past(k0, n + 1, k0, n + 1)
  BY <1>0 DEF Past
<1>2. \A k \in DOMAIN cs : \A i \in 1 .. Len(cs[k]) :
        Past(k0, n + 1, k, i) <=> Past(k0, n, k, i) \/ (k = k0 /\ i = n + 1)
  BY <1>0 DEF Past
<1>3. \A k \in DOMAIN cs : \A i \in 1 .. Len(cs[k]) :
        Past(k0, n, k, i) => k < k0 \/ (k = k0 /\ i <= n + 1)
  BY <1>0 DEF Past
<1>4. \A k \in DOMAIN cs : \A i \in 1 .. Len(cs[k]) : Past(k0, n + 1, k, i) => cs[k][i] # PanicCall
  BY <1>2 DEF Reflects
<1>5. ASSUME NEW page \in Pages PROVE PageIs(cs, k0, n + 1, T2, page)
  <2>1. CASE page = c.page
    <3>1. LastCall(cs, k0, n + 1, page, k0, n + 1)
      <4>1. \A k \in DOMAIN cs : \A i \in 1 .. Len(cs[k]) :
              Past(k0, n + 1, k, i) => k < k0 \/ (k = k0 /\ i <= n + 1)
        BY DEF Past
      <4>. QED BY <1>1, <2>1, <4>1 DEF LastCall
    <3>2. LeafIn(T2, page) = AddressBits[cs[k0][n + 1].frame] \cup cs[k0][n + 1].leaf
      BY <2>1 DEF EntrySet
    <3>. QED BY <1>1, <3>1, <3>2 DEF PageIs
  <2>2. CASE page # c.page
    <3>1. LeafIn(T2, page) = LeafIn(T, page)
      BY <2>2 DEF EntrySet
    <3>2. PageIs(cs, k0, n, T, page)
      BY DEF Reflects
    <3>3. CASE LeafIn(T, page) = {} /\ Untouched(cs, k0, n, page)
      <4>1. Untouched(cs, k0, n + 1, page)
        BY <1>2, <2>2, <3>3 DEF Untouched
      <4>. QED BY <3>1, <3>3, <4>1 DEF PageIs
    <3>4. ASSUME NEW k \in DOMAIN cs, NEW i \in 1 .. Len(cs[k]), LastCall(cs, k0, n, page, k, i),
                 LeafIn(T, page) = AddressBits[cs[k][i].frame] \cup cs[k][i].leaf
          PROVE  PageIs(cs, k0, n + 1, T2, page)
      <4>1. LastCall(cs, k0, n + 1, page, k, i)
        BY <1>2, <2>2, <3>4 DEF LastCall
      <4>. QED BY <3>1, <3>4, <4>1 DEF PageIs
    <3>. QED BY <3>2, <3>3, <3>4 DEF PageIs
  <2>. QED BY <2>1, <2>2
<1>. QED BY <1>4, <1>5 DEF Reflects

LEMMA ItemReflected ==
  ASSUME NEW cs, Scripted(cs), NEW k0 \in DOMAIN cs, NEW T, Reflects(cs, k0, Len(cs[k0]), T)
  PROVE  Reflects(cs, k0 + 1, 0, T)
<1>0. DOMAIN cs \subseteq Nat /\ (\A k \in DOMAIN cs : Len(cs[k]) \in Nat)
  BY DEF Scripted
<1>1. \A k \in DOMAIN cs : \A i \in 1 .. Len(cs[k]) :
        Past(k0 + 1, 0, k, i) <=> Past(k0, Len(cs[k0]), k, i)
  BY <1>0 DEF Past
<1>2. ASSUME NEW page \in Pages PROVE PageIs(cs, k0 + 1, 0, T, page)
  <2>1. PageIs(cs, k0, Len(cs[k0]), T, page)
    BY DEF Reflects
  <2>2. Untouched(cs, k0, Len(cs[k0]), page) => Untouched(cs, k0 + 1, 0, page)
    BY <1>1 DEF Untouched
  <2>3. \A k \in DOMAIN cs : \A i \in 1 .. Len(cs[k]) :
          LastCall(cs, k0, Len(cs[k0]), page, k, i) => LastCall(cs, k0 + 1, 0, page, k, i)
    BY <1>1 DEF LastCall
  <2>. QED BY <2>1, <2>2, <2>3 DEF PageIs
<1>. QED BY <1>1, <1>2 DEF Reflects

\* What the calls of a machine's script are.
PhysPart(cs) ==
  \A k \in 1 .. Len(layout.memory) :
    /\ k \in DOMAIN cs
    /\ \A i \in 1 .. Len(cs[k]) : cs[k][i] = PanicCall \/ IsPhysCall(layout.memory[k], cs[k][i])
    /\ \A f \in Members(layout.memory[k]) : \E i \in 1 .. Len(cs[k]) :
         cs[k][i] = PanicCall \/ cs[k][i].page = PhysBase + f

LowPart(cs, k) ==
  /\ k \in DOMAIN cs
  /\ \A i \in 1 .. Len(cs[k]) : IsLowCall(cs[k][i])
  /\ \A p \in 0 .. (LowPages - 1) : \E i \in 1 .. Len(cs[k]) : cs[k][i].page = p

SectionPart(cs, k0) ==
  \A m \in 1 .. Len(layout.sections) :
    /\ k0 + m \in DOMAIN cs
    /\ \A i \in 1 .. Len(cs[k0 + m]) :
         cs[k0 + m][i] = PanicCall \/ IsSectionCall(layout.sections[m], cs[k0 + m][i])
    /\ Mapped(layout.sections[m]) =>
         \A p \in Members(layout.sections[m].pages) : \E i \in 1 .. Len(cs[k0 + m]) :
           cs[k0 + m][i] = PanicCall \/ cs[k0 + m][i].page = p

\* Every item is a map entry, the first MiB or a section.
Parts(cs, k0) ==
  \A k \in DOMAIN cs :
    k \in 1 .. (k0 - 1) \/ k = k0 \/ \E m \in 1 .. Len(layout.sections) : k = k0 + m

LEMMA ScriptIs ==
  ASSUME layout \in Layouts
  PROVE  /\ Items \in Nat /\ DOMAIN Script = 1 .. Items
         /\ Len(layout.memory) \in Nat
         /\ Scripted(Script)
         /\ PhysPart(Script)
         /\ LowPart(Script, Len(layout.memory) + 1)
         /\ SectionPart(Script, Len(layout.memory) + 1)
         /\ Parts(Script, Len(layout.memory) + 1)
<1> DEFINE L == Len(layout.memory)
           S == Len(layout.sections)
<1>1. L \in Nat /\ S \in Nat
  BY LayoutsAssumption
<1>2. \A k \in 1 .. L : layout.memory[k] \in Ranges
  BY LayoutsAssumption
<1>3. \A m \in 1 .. S : layout.sections[m].pages \in Ranges
  <2>1. \A m \in 1 .. S : layout.sections[m] \in SectionHeaders
    BY LayoutsAssumption
  <2>. QED BY <2>1 DEF SectionHeaders
<1>4. Items = L + 1 + S
  BY DEF Items
<1>5. \A k \in 1 .. Items :
        Script[k] = IF k <= L THEN PhysCalls(layout.memory[k])
                    ELSE IF k = L + 1 THEN LowCalls
                    ELSE SectionCalls(layout.sections[k - L - 1])
  BY DEF Script, Calls
<1>6. DOMAIN Script = 1 .. Items
  BY DEF Script
<1>. HIDE DEF L, S
<1>7. \A k \in 1 .. L : k \in 1 .. Items /\ Script[k] = PhysCalls(layout.memory[k])
  BY <1>1, <1>4, <1>5
<1>8. L + 1 \in 1 .. Items /\ Script[L + 1] = LowCalls
  BY <1>1, <1>4, <1>5
<1>9. \A m \in 1 .. S : (L + 1) + m \in 1 .. Items /\ Script[(L + 1) + m] = SectionCalls(layout.sections[m])
  <2>. SUFFICES ASSUME NEW m \in 1 .. S
                PROVE  (L + 1) + m \in 1 .. Items /\ Script[(L + 1) + m] = SectionCalls(layout.sections[m])
    OBVIOUS
  <2>1. (L + 1) + m \in 1 .. Items /\ ~((L + 1) + m <= L) /\ (L + 1) + m # L + 1 /\ ((L + 1) + m) - L - 1 = m
    BY <1>1, <1>4
  <2>. QED BY <1>5, <2>1
<1>10. PhysPart(Script)
  <2>. SUFFICES ASSUME NEW k \in 1 .. L
                PROVE  /\ k \in DOMAIN Script
                       /\ \A i \in 1 .. Len(Script[k]) :
                            Script[k][i] = PanicCall \/ IsPhysCall(layout.memory[k], Script[k][i])
                       /\ \A f \in Members(layout.memory[k]) : \E i \in 1 .. Len(Script[k]) :
                            Script[k][i] = PanicCall \/ Script[k][i].page = PhysBase + f
    BY DEF PhysPart, L
  <2>1. layout.memory[k] \in Ranges /\ k \in DOMAIN Script /\ Script[k] = PhysCalls(layout.memory[k])
    BY <1>2, <1>6, <1>7
  <2> DEFINE frames == layout.memory[k]
  <2>. HIDE DEF frames
  <2>2. /\ Len(Script[k]) = frames.count
        /\ \A i \in 1 .. frames.count : Script[k][i] = PanicCall \/ IsPhysCall(frames, Script[k][i])
        /\ \A f \in Members(frames) : \E i \in 1 .. frames.count :
             Script[k][i] = PanicCall \/ Script[k][i].page = PhysBase + f
    BY <2>1, PhysCallsAre DEF frames
  <2>. QED BY <2>1, <2>2 DEF frames
<1>11. LowPart(Script, L + 1)
  BY <1>6, <1>8, LowCallsAre DEF LowPart
<1>12. SectionPart(Script, L + 1)
  <2>. SUFFICES ASSUME NEW m \in 1 .. S
                PROVE  /\ (L + 1) + m \in DOMAIN Script
                       /\ \A i \in 1 .. Len(Script[(L + 1) + m]) :
                            Script[(L + 1) + m][i] = PanicCall
                              \/ IsSectionCall(layout.sections[m], Script[(L + 1) + m][i])
                       /\ Mapped(layout.sections[m]) =>
                            \A p \in Members(layout.sections[m].pages) :
                              \E i \in 1 .. Len(Script[(L + 1) + m]) :
                                Script[(L + 1) + m][i] = PanicCall \/ Script[(L + 1) + m][i].page = p
    BY DEF SectionPart, S
  <2>1. /\ layout.sections[m].pages \in Ranges /\ (L + 1) + m \in DOMAIN Script
        /\ Script[(L + 1) + m] = SectionCalls(layout.sections[m])
    BY <1>3, <1>6, <1>9
  <2>. QED BY <2>1, SectionCallsAre
<1>13. \A k \in 1 .. Items : k \in 1 .. L \/ k = L + 1 \/ \E m \in 1 .. S : k = (L + 1) + m
  <2>. SUFFICES ASSUME NEW k \in 1 .. Items, k \notin 1 .. L, k # L + 1
                PROVE  \E m \in 1 .. S : k = (L + 1) + m
    OBVIOUS
  <2>1. k - (L + 1) \in 1 .. S /\ k = (L + 1) + (k - (L + 1))
    BY <1>1, <1>4
  <2>. QED BY <2>1
<1>14. Parts(Script, L + 1)
  <2>1. (L + 1) - 1 = L
    BY <1>1
  <2>. QED BY <1>6, <1>13, <2>1 DEF Parts, S
<1>15. Scripted(Script)
  <2>1. \A k \in 1 .. L : Len(Script[k]) \in Nat
    BY <1>2, <1>7, PhysCallsAre DEF Ranges
  <2>2. Len(Script[L + 1]) \in Nat
    BY <1>8, LowCallsAre, AreasAssumption
  <2>3. \A m \in 1 .. S : Len(Script[(L + 1) + m]) \in Nat
    BY <1>3, <1>9, SectionCallsAre
  <2>4. Items \in Nat
    BY <1>1, <1>4
  <2>. QED BY <1>6, <1>13, <2>1, <2>2, <2>3, <2>4 DEF Scripted
<1>16. Items \in Nat
  BY <1>1, <1>4
<1>. QED BY <1>1, <1>6, <1>10, <1>11, <1>12, <1>14, <1>15, <1>16 DEF L

(***************************************************************************)
(* The template's invariant                                                *)
(***************************************************************************)

\* No page is writable and executable.
Protected(T) ==
  \A page \in Pages : WRITABLE \in LeafIn(T, page) => EXECUTE_DISABLE \in LeafIn(T, page)

TemplateAt(all, cs, T, left, dropped, answer, k0, n) ==
  /\ k0 \in Nat \ {0} /\ n \in Nat
  /\ \E lvl : Tree(T, lvl)
  /\ FramesLeft(all, T, left, dropped)
  /\ Protected(T)
  /\ answer = "ok" => Reflects(cs, k0, n, T)

Reserved == FramesOf(BumpFrames(layout.memory))

TemplateInv ==
  layout \in Layouts /\ TemplateAt(Reserved, Script, tables, pool, lost, reply, item, done)

LEMMA FlagsProtect ==
  /\ DataFlags \subseteq AllFlags /\ EXECUTE_DISABLE \in DataFlags
  /\ SharedParentFlags \subseteq AllFlags
BY DEF DataFlags, SharedParentFlags, AllFlags, PRESENT, WRITABLE, GLOBAL, APP_PARENT_FROZEN, EXECUTE_DISABLE

\* The page of a call is in the page tables' range, and its flags do not allow
\* to write and to execute.
LEMMA CallIsProper ==
  ASSUME layout \in Layouts, NEW k \in DOMAIN Script, NEW i \in 1 .. Len(Script[k]),
         Script[k][i] # PanicCall
  PROVE  /\ Script[k][i].page \in Pages
         /\ WRITABLE \in Script[k][i].leaf => EXECUTE_DISABLE \in Script[k][i].leaf
<1> DEFINE c == Script[k][i]
           L == Len(layout.memory)
<1>1. L \in Nat /\ PhysPart(Script) /\ LowPart(Script, L + 1) /\ SectionPart(Script, L + 1)
      /\ Parts(Script, L + 1)
  BY ScriptIs
<1>. HIDE DEF L
<1>2. (L + 1) - 1 = L
  BY <1>1
<1>3. CASE k \in 1 .. L
  <2>1. IsPhysCall(layout.memory[k], c)
    BY <1>1, <1>3 DEF PhysPart, L
  <2>2. PICK f \in Members(layout.memory[k]) : f < MaxFrames /\ c = MapCall(PhysBase + f, f, DataFlags)
    BY <2>1 DEF IsPhysCall
  <2>3. layout.memory[k] \in Ranges
    BY <1>3, LayoutsAssumption DEF L
  <2>4. f \in Nat
    BY <2>3, MemberAt
  <2>5. PhysBase + f \in Pages
    <3>1. PhysBase + f \in PhysBase .. (PhysBase + MaxFrames - 1)
      BY <2>2, <2>4, AreasAssumption
    <3>. QED BY <3>1, AreasAssumption
  <2>. QED BY <2>2, <2>5, FlagsProtect DEF MapCall
<1>4. CASE k = L + 1
  <2>1. IsLowCall(c)
    BY <1>1, <1>4 DEF LowPart
  <2>2. PICK p \in 0 .. (LowPages - 1) : c = MapCall(p, p, DataFlags)
    BY <2>1 DEF IsLowCall
  <2>. QED BY <2>2, AreasAssumption, FlagsProtect DEF MapCall
<1>5. ASSUME NEW m \in 1 .. Len(layout.sections), k = (L + 1) + m
      PROVE  c.page \in Pages /\ (WRITABLE \in c.leaf => EXECUTE_DISABLE \in c.leaf)
  <2> DEFINE s == layout.sections[m]
  <2>1. IsSectionCall(s, c)
    BY <1>1, <1>5 DEF SectionPart
  <2>. HIDE DEF s
  <2>2. PICK p \in Members(s.pages) : c = MapCall(p, p - KernelBase, SectionFlags(s))
    BY <2>1 DEF IsSectionCall
  <2>3. p \in Pages
    BY <2>1, AreasAssumption DEF IsSectionCall
  <2>4. WRITABLE \in SectionFlags(s) => EXECUTE_DISABLE \in SectionFlags(s)
    BY <2>1 DEF IsSectionCall, SectionFlags, WRITABLE, EXECUTE_DISABLE, PRESENT
  <2>. QED BY <2>2, <2>3, <2>4 DEF MapCall
<1>. QED BY <1>1, <1>2, <1>3, <1>4, <1>5 DEF Parts

LEMMA MapAccepts ==
  ASSUME NEW page, NEW frame, NEW leaf, NEW set, NEW mask, NEW opaque,
         Map(page, frame, leaf, set, mask, opaque), reply' = "ok"
  PROVE  AddrAccepted(frame)
<1> DEFINE w == WalkTo(page, set, mask, opaque)
<1>1. reply' = IF w.result = "ok" /\ ~AddrAccepted(frame) THEN "panic" ELSE w.result
  BY DEF Map
<1>. HIDE DEF w
<1>. QED BY <1>1

\* One turn of a loop's body.
LEMMA CallKeeps ==
  ASSUME TemplateInv, MapNext
  PROVE  TemplateAt(Reserved, Script, tables', pool', lost', reply', item, done')
<1> DEFINE c == Script[item][done + 1]
<1>1. /\ layout \in Layouts /\ item \in Nat \ {0} /\ done \in Nat /\ reply = "ok"
      /\ FramesLeft(Reserved, tables, pool, lost) /\ Protected(tables)
      /\ Reflects(Script, item, done, tables)
  BY DEF TemplateInv, TemplateAt, MapNext
<1>2. Scripted(Script) /\ DOMAIN Script = 1 .. Items /\ Items \in Nat
  BY <1>1, ScriptIs
<1>3. item \in DOMAIN Script /\ Script[item] = Calls(item)
  BY <1>1, <1>2 DEF MapNext, Script
<1>4. done < Len(Script[item]) /\ done + 1 \in 1 .. Len(Script[item]) /\ done' = done + 1
  BY <1>1, <1>2, <1>3 DEF MapNext, Scripted
<1>5. CASE c = PanicCall
  <2>1. reply' = "panic" /\ UNCHANGED <<tables, pool, lost, call>>
    BY <1>3, <1>5 DEF MapNext
  <2>. QED BY <1>1, <1>4, <2>1 DEF TemplateInv, TemplateAt
<1>6. CASE c # PanicCall
  <2>1. Map(c.page, AddressBits[c.frame], c.leaf, SharedParentFlags, AllFlags, {})
    BY <1>3, <1>6 DEF MapNext
  <2>2. c.page \in Pages /\ (WRITABLE \in c.leaf => EXECUTE_DISABLE \in c.leaf)
    BY <1>1, <1>3, <1>4, <1>6, CallIsProper
  <2>. HIDE DEF c
  <2>3. PICK lvl : Tree(tables, lvl)
    BY DEF TemplateInv, TemplateAt
  <2>5. MapDoes(Reserved, c.page, AddressBits[c.frame] \cup c.leaf, SharedParentFlags,
                tables, tables', pool', lost', reply')
    BY <1>1, <2>1, <2>2, <2>3, FlagsProtect, MapEffect
  <2>6. CASE reply' = "ok"
    <3>1. EntrySet(tables, tables', c)
      BY <2>5, <2>6 DEF MapDoes, EntrySet
    <3>2. Reflects(Script, item, done + 1, tables')
      BY <1>1, <1>2, <1>3, <1>4, <1>6, <3>1, CallReflected DEF c
    <3>3. AddrAccepted(AddressBits[c.frame])
      BY <2>1, <2>6, MapAccepts
    <3>4. WRITABLE \notin AddressBits[c.frame]
      BY <3>3 DEF AddrAccepted, WRITABLE
    <3>5. Protected(tables')
      <4>1. WRITABLE \in LeafIn(tables', c.page) => EXECUTE_DISABLE \in LeafIn(tables', c.page)
        BY <2>2, <3>1, <3>4 DEF EntrySet
      <4>2. \A page \in Pages : page # c.page => LeafIn(tables', page) = LeafIn(tables, page)
        BY <3>1 DEF EntrySet
      <4>. QED BY <1>1, <4>1, <4>2 DEF Protected
    <3>. QED BY <1>1, <1>4, <2>5, <3>2, <3>5 DEF MapDoes, TemplateAt
  <2>7. CASE reply' # "ok"
    <3>1. \A page \in Pages : LeafIn(tables', page) = LeafIn(tables, page)
      BY <2>5, <2>7 DEF MapDoes
    <3>2. Protected(tables')
      BY <1>1, <3>1 DEF Protected
    <3>. QED BY <1>1, <1>4, <2>5, <2>7, <3>2 DEF MapDoes, TemplateAt
  <2>. QED BY <2>6, <2>7
<1>. QED BY <1>5, <1>6

LEMMA TemplateKept == TemplateInv /\ [TemplateNext]_templateVars => TemplateInv'
<1>. SUFFICES ASSUME TemplateInv, [TemplateNext]_templateVars PROVE TemplateInv'
  OBVIOUS
<1>1. layout' = layout
  BY DEF TemplateNext, MapNext, NextItem, Finished, templateVars
<1>2. Reserved' = Reserved /\ Script' = Script
  <2>1. \A k : Calls(k)' = Calls(k)
    BY <1>1 DEF Calls
  <2>2. Items' = Items
    BY <1>1 DEF Items
  <2>. QED BY <1>1, <2>1, <2>2 DEF Reserved, Script
<1>3. SUFFICES TemplateAt(Reserved, Script, tables', pool', lost', reply', item', done')
  BY <1>1, <1>2 DEF TemplateInv
<1>4. CASE MapNext
  BY <1>4, CallKeeps DEF MapNext
<1>5. CASE NextItem
  <2>1. UNCHANGED <<tables, pool, lost, reply>> /\ item' = item + 1 /\ done' = 0 /\ reply = "ok"
    BY <1>5 DEF NextItem, vars
  <2>2. item \in DOMAIN Script /\ done = Len(Script[item]) /\ Scripted(Script)
    BY <1>5, ScriptIs DEF NextItem, TemplateInv, TemplateAt, Script
  <2>3. Reflects(Script, item + 1, 0, tables)
    BY <2>1, <2>2, ItemReflected DEF TemplateInv, TemplateAt
  <2>. QED BY <2>1, <2>3 DEF TemplateInv, TemplateAt
<1>6. CASE UNCHANGED templateVars
  BY <1>6 DEF TemplateInv, TemplateAt, templateVars, vars
<1>. QED BY <1>4, <1>5, <1>6 DEF TemplateNext, Finished

(***************************************************************************)
(* The finished template                                                   *)
(***************************************************************************)

\* Which part of the machine a call that was made maps, by its page.
PartOf(k, c) ==
  LET L == Len(layout.memory)
  IN  \/ k \in 1 .. L /\ IsPhysCall(layout.memory[k], c)
      \/ k = L + 1 /\ IsLowCall(c)
      \/ \E m \in 1 .. Len(layout.sections) : k = (L + 1) + m /\ IsSectionCall(layout.sections[m], c)

LEMMA CallHasPart ==
  ASSUME layout \in Layouts, NEW k \in DOMAIN Script, NEW i \in 1 .. Len(Script[k]),
         Script[k][i] # PanicCall
  PROVE  PartOf(k, Script[k][i])
<1> DEFINE L == Len(layout.memory)
<1>1. L \in Nat /\ PhysPart(Script) /\ LowPart(Script, L + 1) /\ SectionPart(Script, L + 1)
      /\ Parts(Script, L + 1)
  BY ScriptIs
<1>2. k \in 1 .. L \/ k = L + 1 \/ \E m \in 1 .. Len(layout.sections) : k = (L + 1) + m
  <2>1. (L + 1) - 1 = L
    BY <1>1
  <2>. QED BY <1>1, <2>1 DEF Parts
<1>. QED BY <1>1, <1>2 DEF PhysPart, LowPart, SectionPart, PartOf

\* Where the pages of the three parts are.
LEMMA PartsApart ==
  ASSUME layout \in Layouts, NEW c
  PROVE  /\ IsLowCall(c) => c.page \in 0 .. (LowPages - 1) /\ c.frame = c.page /\ c.leaf = DataFlags
         /\ \A k \in 1 .. Len(layout.memory) : IsPhysCall(layout.memory[k], c) =>
              /\ c.page \in Nat /\ c.page >= PhysBase /\ c.page < PhysBase + MaxFrames
              /\ c.page - PhysBase \in Members(layout.memory[k])
              /\ c.frame = c.page - PhysBase /\ c.leaf = DataFlags
         /\ \A m \in 1 .. Len(layout.sections) : IsSectionCall(layout.sections[m], c) =>
              /\ c.page \in Nat /\ c.page >= KernelImage.first
              /\ m \in SectionsAt(c.page)
              /\ c.frame = c.page - KernelBase /\ c.leaf = SectionFlags(layout.sections[m])
<1>1. IsLowCall(c) => c.page \in 0 .. (LowPages - 1) /\ c.frame = c.page /\ c.leaf = DataFlags
  BY DEF IsLowCall, MapCall
<1>2. ASSUME NEW k \in 1 .. Len(layout.memory), IsPhysCall(layout.memory[k], c)
      PROVE  /\ c.page \in Nat /\ c.page >= PhysBase /\ c.page < PhysBase + MaxFrames
             /\ c.page - PhysBase \in Members(layout.memory[k])
             /\ c.frame = c.page - PhysBase /\ c.leaf = DataFlags
  <2>1. PICK f \in Members(layout.memory[k]) : f < MaxFrames /\ c = MapCall(PhysBase + f, f, DataFlags)
    BY <1>2 DEF IsPhysCall
  <2>2. layout.memory[k] \in Ranges
    BY LayoutsAssumption
  <2>3. f \in Nat
    BY <2>2, MemberAt
  <2>4. c.page = PhysBase + f /\ c.frame = f /\ c.leaf = DataFlags
    BY <2>1 DEF MapCall
  <2>5. PhysBase \in Nat /\ MaxFrames \in Nat
    BY AreasAssumption
  <2>6. c.page - PhysBase = f /\ c.page \in Nat /\ c.page >= PhysBase /\ c.page < PhysBase + MaxFrames
    BY <2>1, <2>3, <2>4, <2>5
  <2>. QED BY <2>1, <2>4, <2>6
<1>3. ASSUME NEW m \in 1 .. Len(layout.sections), IsSectionCall(layout.sections[m], c)
      PROVE  /\ c.page \in Nat /\ c.page >= KernelImage.first
             /\ m \in SectionsAt(c.page)
             /\ c.frame = c.page - KernelBase /\ c.leaf = SectionFlags(layout.sections[m])
  <2>1. PICK p \in Members(layout.sections[m].pages) :
          c = MapCall(p, p - KernelBase, SectionFlags(layout.sections[m]))
    BY <1>3 DEF IsSectionCall
  <2>2. c.page = p /\ c.frame = p - KernelBase /\ c.leaf = SectionFlags(layout.sections[m])
    BY <2>1 DEF MapCall
  <2>3. p \in Members(KernelImage) /\ Mapped(layout.sections[m])
    BY <1>3 DEF IsSectionCall
  <2>4. p \in Nat /\ p >= KernelImage.first
    BY <2>3, AreasAssumption DEF Members, Ranges
  <2>. QED BY <2>2, <2>3, <2>4 DEF SectionsAt
<1>. QED BY <1>1, <1>2, <1>3

\* Every call of the script was made, and succeeded.
AllMade(cs) == \A k \in DOMAIN cs : \A i \in 1 .. Len(cs[k]) : cs[k][i] # PanicCall

\* No call comes after call i of item k that maps its page.
Determines(cs, page, k, i) ==
  /\ k \in DOMAIN cs /\ i \in 1 .. Len(cs[k]) /\ cs[k][i].page = page
  /\ \A k2 \in DOMAIN cs : \A i2 \in 1 .. Len(cs[k2]) :
       cs[k2][i2].page = page => k2 < k \/ (k2 = k /\ i2 <= i)

LEMMA AllReflected ==
  ASSUME TemplateInv, Complete
  PROVE  /\ AllMade(Script)
         /\ \A page \in Pages :
              \/ /\ LeafIn(tables, page) = {}
                 /\ \A k \in DOMAIN Script : \A i \in 1 .. Len(Script[k]) : Script[k][i].page # page
              \/ \E k, i : /\ Determines(Script, page, k, i)
                           /\ LeafIn(tables, page) =
                                AddressBits[Script[k][i].frame] \cup Script[k][i].leaf
<1>1. layout \in Layouts /\ item \in Nat /\ item > Items /\ Reflects(Script, item, done, tables)
  BY DEF TemplateInv, TemplateAt, Complete
<1>2. DOMAIN Script = 1 .. Items /\ Items \in Nat
  BY <1>1, ScriptIs
<1>3. \A k \in DOMAIN Script : \A i \in 1 .. Len(Script[k]) : Past(item, done, k, i)
  BY <1>1, <1>2 DEF Past
<1>4. AllMade(Script)
  BY <1>1, <1>3 DEF Reflects, AllMade
<1>5. ASSUME NEW page \in Pages
      PROVE  \/ /\ LeafIn(tables, page) = {}
                /\ \A k \in DOMAIN Script : \A i \in 1 .. Len(Script[k]) : Script[k][i].page # page
             \/ \E k, i : /\ Determines(Script, page, k, i)
                          /\ LeafIn(tables, page) =
                               AddressBits[Script[k][i].frame] \cup Script[k][i].leaf
  <2>1. PageIs(Script, item, done, tables, page)
    BY <1>1 DEF Reflects
  <2>2. \A k \in DOMAIN Script : \A i \in 1 .. Len(Script[k]) :
          LastCall(Script, item, done, page, k, i) => Determines(Script, page, k, i)
    BY <1>3 DEF LastCall, Determines
  <2>. QED BY <1>3, <2>1, <2>2 DEF PageIs, Untouched
<1>. QED BY <1>4, <1>5

IsMemory(page) ==
  page - PhysBase \in UNION {Members(layout.memory[i]) : i \in 1 .. Len(layout.memory)}

\* A page that the template should map is the page of some call.
LEMMA CallExists ==
  ASSUME layout \in Layouts, AllMade(Script), NEW page \in Pages,
         page < LowPages \/ IsMemory(page) \/ SectionsAt(page) # {}
  PROVE  \E k \in DOMAIN Script : \E i \in 1 .. Len(Script[k]) : Script[k][i].page = page
<1> DEFINE L == Len(layout.memory)
<1>1. L \in Nat /\ PhysPart(Script) /\ LowPart(Script, L + 1) /\ SectionPart(Script, L + 1)
  BY ScriptIs
<1>2. page \in Nat
  BY PagingAssumption
<1>3. LowPages \in Nat /\ PhysBase \in Nat
  BY AreasAssumption
<1>4. CASE page < LowPages
  <2>1. page \in 0 .. (LowPages - 1)
    BY <1>2, <1>3, <1>4
  <2>. QED BY <1>1, <2>1 DEF LowPart
<1>5. CASE IsMemory(page)
  <2>1. PICK k \in 1 .. L : page - PhysBase \in Members(layout.memory[k])
    BY <1>5 DEF IsMemory
  <2>2. PICK i \in 1 .. Len(Script[k]) :
          Script[k][i] = PanicCall \/ Script[k][i].page = PhysBase + (page - PhysBase)
    BY <1>1, <2>1 DEF PhysPart
  <2>3. k \in DOMAIN Script
    BY <1>1 DEF PhysPart
  <2>4. PhysBase + (page - PhysBase) = page
    BY <1>2, <1>3
  <2>. QED BY <2>2, <2>3, <2>4 DEF AllMade
<1>6. CASE SectionsAt(page) # {}
  <2>1. PICK m \in 1 .. Len(layout.sections) :
          Mapped(layout.sections[m]) /\ page \in Members(layout.sections[m].pages)
    BY <1>6 DEF SectionsAt
  <2>2. (L + 1) + m \in DOMAIN Script
    BY <1>1 DEF SectionPart
  <2>3. PICK i \in 1 .. Len(Script[(L + 1) + m]) :
          Script[(L + 1) + m][i] = PanicCall \/ Script[(L + 1) + m][i].page = page
    BY <1>1, <2>1 DEF SectionPart
  <2>. QED BY <2>2, <2>3 DEF AllMade
<1>. QED BY <1>4, <1>5, <1>6

\* The frames of memory that were mapped are within phys_map.
LEMMA MemoryBelowKernel ==
  ASSUME layout \in Layouts, AllMade(Script), NEW page \in Pages, IsMemory(page)
  PROVE  page < PhysBase + MaxFrames
<1> DEFINE L == Len(layout.memory)
<1>1. PhysPart(Script)
  BY ScriptIs
<1>2. PICK k \in 1 .. L : page - PhysBase \in Members(layout.memory[k])
  BY DEF IsMemory
<1>3. k \in DOMAIN Script
  BY <1>1 DEF PhysPart
<1>4. PICK i \in 1 .. Len(Script[k]) : Script[k][i].page = PhysBase + (page - PhysBase)
  BY <1>1, <1>2, <1>3 DEF PhysPart, AllMade
<1>5. IsPhysCall(layout.memory[k], Script[k][i])
  BY <1>1, <1>3 DEF PhysPart, AllMade
<1>6. Script[k][i].page < PhysBase + MaxFrames
  BY <1>5, PartsApart
<1>7. page \in Nat /\ PhysBase \in Nat
  BY PagingAssumption, AreasAssumption
<1>. QED BY <1>4, <1>6, <1>7

\* The section of the call that determines a page is the last at the page.
LEMMA LastSection ==
  ASSUME layout \in Layouts, AllMade(Script), NEW page, NEW m \in SectionsAt(page), NEW i,
         Determines(Script, page, (Len(layout.memory) + 1) + m, i)
  PROVE  m = CHOOSE n \in SectionsAt(page) : \A j \in SectionsAt(page) : j <= n
<1> DEFINE L == Len(layout.memory)
<1>1. L \in Nat /\ SectionPart(Script, L + 1)
  BY ScriptIs
<1>2. SectionsAt(page) \subseteq Nat
  BY DEF SectionsAt
<1>3. ASSUME NEW j \in SectionsAt(page) PROVE j <= m
  <2>1. j \in 1 .. Len(layout.sections) /\ Mapped(layout.sections[j])
        /\ page \in Members(layout.sections[j].pages)
    BY DEF SectionsAt
  <2>2. (L + 1) + j \in DOMAIN Script
    BY <1>1, <2>1 DEF SectionPart
  <2>3. PICK i2 \in 1 .. Len(Script[(L + 1) + j]) : Script[(L + 1) + j][i2].page = page
    BY <1>1, <2>1, <2>2 DEF SectionPart, AllMade
  <2>4. (L + 1) + j < (L + 1) + m \/ (L + 1) + j = (L + 1) + m
    BY <2>2, <2>3 DEF Determines
  <2>. QED BY <1>1, <1>2, <2>4
<1>4. \A n \in SectionsAt(page) : (\A j \in SectionsAt(page) : j <= n) => n = m
  BY <1>2, <1>3
<1>. QED BY <1>3, <1>4

LEMMA TemplateInvMeans == TemplateInv => TemplateIsExact
<1>1. ASSUME TemplateInv, Complete, NEW page \in Pages
      PROVE  LeafIn(tables, page) = Expected(page)
  <2>1. layout \in Layouts /\ AllMade(Script)
    BY <1>1, AllReflected DEF TemplateInv
  <2>2. page \in Nat /\ LowPages \in Nat /\ PhysBase \in Nat /\ MaxFrames \in Nat
        /\ KernelImage.first \in Nat /\ LowPages <= PhysBase /\ PhysBase + MaxFrames <= KernelImage.first
    BY PagingAssumption, AreasAssumption DEF Ranges
  <2>3. /\ page < LowPages => Expected(page) = AddressBits[page] \cup DataFlags
        /\ ~(page < LowPages) /\ IsMemory(page) =>
             Expected(page) = AddressBits[page - PhysBase] \cup DataFlags
        /\ ~(page < LowPages) /\ ~IsMemory(page) /\ SectionsAt(page) = {} => Expected(page) = {}
    BY DEF Expected, IsMemory
  <2>4. ASSUME ~(page < LowPages), ~IsMemory(page), NEW m \in SectionsAt(page),
               m = CHOOSE n \in SectionsAt(page) : \A j \in SectionsAt(page) : j <= n
        PROVE  Expected(page) = AddressBits[page - KernelBase] \cup SectionFlags(layout.sections[m])
    BY <2>4 DEF Expected, IsMemory
  <2>5. CASE /\ LeafIn(tables, page) = {}
             /\ \A k \in DOMAIN Script : \A i \in 1 .. Len(Script[k]) : Script[k][i].page # page
    BY <2>1, <2>3, <2>5, CallExists
  <2>6. ASSUME NEW k, NEW i, Determines(Script, page, k, i),
               LeafIn(tables, page) = AddressBits[Script[k][i].frame] \cup Script[k][i].leaf
        PROVE  LeafIn(tables, page) = Expected(page)
    <3> DEFINE c == Script[k][i]
               L == Len(layout.memory)
    <3>1. c.page = page /\ PartOf(k, c)
      BY <2>1, <2>6, CallHasPart DEF Determines, AllMade
    <3>. HIDE DEF c
    <3>2. CASE k \in 1 .. L /\ IsPhysCall(layout.memory[k], c)
      <4>1. /\ page >= PhysBase /\ page - PhysBase \in Members(layout.memory[k])
            /\ c.frame = page - PhysBase /\ c.leaf = DataFlags
        BY <2>1, <3>1, <3>2, PartsApart
      <4>2. IsMemory(page)
        BY <3>2, <4>1 DEF IsMemory
      <4>3. ~(page < LowPages)
        BY <2>2, <4>1
      <4>. QED BY <2>3, <2>6, <4>1, <4>2, <4>3 DEF c
    <3>3. CASE IsLowCall(c)
      <4>1. page \in 0 .. (LowPages - 1) /\ c.frame = page /\ c.leaf = DataFlags
        BY <2>1, <3>1, <3>3, PartsApart
      <4>2. page < LowPages
        BY <2>2, <4>1
      <4>. QED BY <2>3, <2>6, <4>1, <4>2 DEF c
    <3>4. ASSUME NEW m \in 1 .. Len(layout.sections), k = (L + 1) + m,
                 IsSectionCall(layout.sections[m], c)
          PROVE  LeafIn(tables, page) = Expected(page)
      <4>1. /\ page >= KernelImage.first /\ m \in SectionsAt(page)
            /\ c.frame = page - KernelBase /\ c.leaf = SectionFlags(layout.sections[m])
        BY <2>1, <3>1, <3>4, PartsApart
      <4>2. ~IsMemory(page)
        BY <2>1, <2>2, <4>1, MemoryBelowKernel
      <4>3. ~(page < LowPages)
        BY <2>2, <4>1
      <4>4. Determines(Script, page, (L + 1) + m, i)
        BY <2>6, <3>4
      <4>5. m = CHOOSE n \in SectionsAt(page) : \A j \in SectionsAt(page) : j <= n
        BY <2>1, <4>1, <4>4, LastSection
      <4>. QED BY <2>4, <2>6, <4>1, <4>2, <4>3, <4>5 DEF c
    <3>. QED BY <3>1, <3>2, <3>3, <3>4 DEF PartOf
  <2>. QED BY <1>1, <2>5, <2>6, AllReflected
<1>. QED BY <1>1, LeafIs DEF TemplateIsExact

(***************************************************************************)
(* Counting frames                                                         *)
(***************************************************************************)

INSTANCE FiniteSetTheorems

LEMMA DisjointCount ==
  ASSUME NEW S, IsFiniteSet(S), NEW T, IsFiniteSet(T), S \cap T = {}
  PROVE  /\ IsFiniteSet(S \cup T)
         /\ Cardinality(S \cup T) = Cardinality(S) + Cardinality(T)
<1>1. Cardinality(S \cap T) = 0
  BY FS_EmptySet
<1>2. Cardinality(S) \in Nat /\ Cardinality(T) \in Nat
  BY FS_CardinalityType
<1>3. /\ IsFiniteSet(S \cup T)
      /\ Cardinality(S \cup T) = Cardinality(S) + Cardinality(T) - Cardinality(S \cap T)
  BY FS_Union
<1>. QED BY <1>1, <1>2, <1>3

LEMMA IntervalCount ==
  ASSUME NEW n \in Nat
  PROVE  IsFiniteSet(1 .. n) /\ Cardinality(1 .. n) = n
<1>1. 1 \in Int /\ n \in Int
  OBVIOUS
<1>2. IsFiniteSet(1 .. n) /\ Cardinality(1 .. n) = IF 1 > n THEN 0 ELSE n - 1 + 1
  BY <1>1, FS_Interval, Zenon
<1>3. (IF 1 > n THEN 0 ELSE n - 1 + 1) = n
  OBVIOUS
<1>. QED BY <1>2, <1>3

LEMMA DistinctCount ==
  ASSUME NEW S, NEW seq \in Seq(S), \A i, j \in 1 .. Len(seq) : seq[i] = seq[j] => i = j
  PROVE  IsFiniteSet(FramesOf(seq)) /\ Cardinality(FramesOf(seq)) = Len(seq)
<1> DEFINE n == Len(seq)
           I == 1 .. n
           F == FramesOf(seq)
<1>1. n \in Nat /\ seq \in [I -> F] /\ (\A x \in F : \E i \in I : seq[i] = x)
  BY DEF FramesOf
<1>2. IsFiniteSet(I) /\ Cardinality(I) = n
  BY <1>1, IntervalCount
<1>. HIDE DEF F
<1>3. seq \in Surjection(I, F) /\ seq \in Injection(I, F)
  <2>1. \A i, j \in I : seq[i] = seq[j] => i = j
    OBVIOUS
  <2>. HIDE DEF I
  <2>2. seq \in Surjection(I, F)
    BY <1>1 DEF Surjection
  <2>3. seq \in Injection(I, F)
    BY <1>1, <2>1 DEF Injection, IsInjective
  <2>. QED BY <2>2, <2>3
<1>. HIDE DEF I
<1>. QED BY <1>2, <1>3, FS_Surjection DEF F

\* The safety comment of next_level_alloc: every table is below exactly one entry,
\* and every frame taken from the allocator is a table or was dropped.
THEOREM TablesHaveOneOwner == Spec => []TablesOwned
<1>1. PagingInv => TablesOwned
  <2>. SUFFICES ASSUME PagingInv PROVE TablesOwned
    OBVIOUS
  <2>1. PICK lvl : Tree(tables, lvl)
    BY DEF PagingInv
  <2>2. \A r : r \in ParentEntries <=>
          \E t \in DOMAIN tables : \E i \in Indices : r = <<t, i>> /\ IsParent(tables, lvl, t, i)
    BY <2>1, ParentLevels
  <2>3. ASSUME NEW r \in ParentEntries PROVE GetAddr(tables[r[1]][r[2]]) \in DOMAIN tables
    <3>1. PICK t \in DOMAIN tables, i \in Indices : r = <<t, i>> /\ IsParent(tables, lvl, t, i)
      BY <2>2
    <3>2. r[1] = t /\ r[2] = i
      BY <3>1
    <3>. QED BY <2>1, <3>1, <3>2 DEF Tree, Descends
  <2>4. ASSUME NEW t \in DOMAIN tables \ {Root}
        PROVE  Cardinality({r \in ParentEntries : GetAddr(tables[r[1]][r[2]]) = t}) = 1
    <3>1. PICK u \in DOMAIN tables, i \in Indices :
            IsParent(tables, lvl, u, i) /\ GetAddr(tables[u][i]) = t
      BY <2>1 DEF Tree, HasParent
    <3>2. <<u, i>> \in ParentEntries /\ GetAddr(tables[<<u, i>>[1]][<<u, i>>[2]]) = t
      BY <2>2, <3>1
    <3>3. ASSUME NEW r \in ParentEntries, GetAddr(tables[r[1]][r[2]]) = t PROVE r = <<u, i>>
      <4>1. PICK v \in DOMAIN tables, j \in Indices : r = <<v, j>> /\ IsParent(tables, lvl, v, j)
        BY <2>2
      <4>2. GetAddr(tables[v][j]) = t
        BY <3>3, <4>1
      <4>3. v = u /\ j = i
        BY <2>1, <3>1, <4>1, <4>2 DEF Tree, OneParent
      <4>. QED BY <4>1, <4>3
    <3>4. {r \in ParentEntries : GetAddr(tables[r[1]][r[2]]) = t} = {<<u, i>>}
      BY <3>2, <3>3
    <3>. QED BY <3>4, FS_Singleton
  <2>5. Len(pool) + Cardinality(lost) + Cardinality(DOMAIN tables \ {Root}) = Len(TableFrames)
    <3> DEFINE A == FramesOf(pool)
               B == lost
               C == DOMAIN tables \ {Root}
    <3>1. A \cup B \cup C = FramesOf(TableFrames)
          /\ A \cap B = {} /\ (A \cup B) \cap C = {}
      <4>1. /\ A \cup B \cup C = FramesOf(TableFrames)
            /\ \A i \in 1 .. Len(pool) : pool[i] \notin DOMAIN tables /\ pool[i] \notin lost
            /\ lost \cap DOMAIN tables = {}
        BY DEF PagingInv, FramesLeft
      <4>2. \A x \in A : x \notin DOMAIN tables /\ x \notin lost
        BY <4>1 DEF FramesOf
      <4>. HIDE DEF A
      <4>. QED BY <4>1, <4>2
    <3>2. IsFiniteSet(A) /\ Cardinality(A) = Len(pool)
      BY DistinctCount DEF PagingInv, FramesLeft
    <3>3. IsFiniteSet(FramesOf(TableFrames)) /\ Cardinality(FramesOf(TableFrames)) = Len(TableFrames)
      BY DistinctCount, FramesAssumption
    <3>. HIDE DEF A, B, C
    <3>4. IsFiniteSet(B) /\ IsFiniteSet(C)
      BY <3>1, <3>3, FS_Subset
    <3>5. IsFiniteSet(A \cup B) /\ Cardinality(A \cup B) = Cardinality(A) + Cardinality(B)
      BY <3>1, <3>2, <3>4, DisjointCount
    <3>6. Cardinality(A \cup B \cup C) = Cardinality(A \cup B) + Cardinality(C)
      BY <3>1, <3>4, <3>5, DisjointCount
    <3>. QED BY <3>1, <3>2, <3>3, <3>5, <3>6 DEF B, C
  <2>6. lost \cap DOMAIN tables = {}
    BY DEF PagingInv, FramesLeft
  <2>. QED BY <2>3, <2>4, <2>5, <2>6 DEF TablesOwned
<1>. QED BY <1>1, TablesAreATree, PTL

LEMMA FramesAreCounted ==
  ASSUME NEW memory \in Seq(Ranges)
  PROVE  TotalFrames(memory) \in Nat
<1> DEFINE n == Len(memory)
           S == {{i} \X Members(memory[i]) : i \in 1 .. n}
           f == [i \in 1 .. n |-> {i} \X Members(memory[i])]
<1>0. n \in Nat /\ \A i \in 1 .. n : memory[i] \in Ranges
  OBVIOUS
<1>1. n \in Nat /\ \A i \in 1 .. n : memory[i].first \in Nat /\ memory[i].count \in Nat
  BY <1>0 DEF Ranges
<1>2. IsFiniteSet(1 .. n)
  BY <1>1, FS_Interval
<1>3. f \in Surjection(1 .. n, S)
  BY DEF Surjection
<1>4. IsFiniteSet(S)
  <2>. HIDE DEF f, S, n
  <2>. QED BY <1>2, <1>3, FS_Surjection
<1>5. ASSUME NEW i \in 1 .. n PROVE IsFiniteSet({i} \X Members(memory[i]))
  <2>1. IsFiniteSet({i})
    BY FS_Singleton
  <2>2. memory[i].first \in Int /\ memory[i].first + memory[i].count - 1 \in Int
    BY <1>1
  <2>3. IsFiniteSet(Members(memory[i]))
    BY <2>2, FS_Interval DEF Members
  <2>. QED BY <2>1, <2>3, FS_Product
<1>6. IsFiniteSet(UNION S)
  <2>1. \A t \in S : IsFiniteSet(t)
    BY <1>5
  <2>. HIDE DEF S
  <2>. QED BY <1>4, <2>1, FS_UNION
<1>. QED BY <1>6, FS_CardinalityType DEF TotalFrames

LEMMA BumpFramesAre ==
  ASSUME NEW l \in Layouts
  PROVE  /\ BumpFrames(l.memory) \in Seq((SUBSET (12 .. 47)) \ {{}})
         /\ \A i, j \in 1 .. Len(BumpFrames(l.memory)) :
              BumpFrames(l.memory)[i] = BumpFrames(l.memory)[j] => i = j
<1> DEFINE n == TotalFrames(l.memory) \div TableRatio
           frames == BumpFrames(l.memory)
<1>1. TotalFrames(l.memory) \in Nat
  BY FramesAreCounted, LayoutsAssumption
<1>2. n \in Nat
  BY <1>1, AreasAssumption
<1>3. FirstBump .. (FirstBump + n - 1) \subseteq DOMAIN AddressBits \ {0}
  BY LayoutsAssumption
<1>4. frames = [i \in 1 .. n |-> AddressBits[FirstBump + i - 1]]
  BY DEF BumpFrames
<1>. HIDE DEF n, frames
<1>5. FirstBump \in Nat
  BY AreasAssumption
<1>6. ASSUME NEW i \in 1 .. n
      PROVE  /\ FirstBump + i - 1 \in DOMAIN AddressBits /\ FirstBump + i - 1 # 0
             /\ AddressBits[FirstBump + i - 1] \in (SUBSET (12 .. 47)) \ {{}}
  <2>1. FirstBump + i - 1 \in FirstBump .. (FirstBump + n - 1)
    BY <1>2, <1>5
  <2>2. FirstBump + i - 1 \in DOMAIN AddressBits /\ FirstBump + i - 1 # 0
    BY <1>3, <2>1
  <2>. QED BY <2>2, AddressAssumption
<1>7. Len(frames) = n /\ frames \in Seq((SUBSET (12 .. 47)) \ {{}})
  <2> DEFINE A == (SUBSET (12 .. 47)) \ {{}}
  <2>1. \A i \in 1 .. n : AddressBits[FirstBump + i - 1] \in A
    BY <1>6
  <2>. HIDE DEF A
  <2>2. frames \in [1 .. n -> A]
    BY <1>4, <2>1
  <2>3. Len(frames) = n /\ frames \in Seq(A)
    BY <1>2, <2>2
  <2>. QED BY <2>3 DEF A
<1>8. ASSUME NEW i \in 1 .. n, NEW j \in 1 .. n, frames[i] = frames[j] PROVE i = j
  <2>1. AddressBits[FirstBump + i - 1] = AddressBits[FirstBump + j - 1]
    BY <1>4, <1>8
  <2>2. FirstBump + i - 1 = FirstBump + j - 1
    BY <1>6, <2>1, AddressAssumption
  <2>. QED BY <1>2, <1>5, <2>2
<1>. QED BY <1>7, <1>8 DEF frames

LEMMA TemplateStarts == TemplateInit => TemplateInv
<1>. SUFFICES ASSUME TemplateInit PROVE TemplateInv
  OBVIOUS
<1>1. layout \in Layouts /\ item = 1 /\ done = 0
  BY DEF TemplateInit
<1>2. (\E lvl : Tree(tables, lvl)) /\ FramesLeft(Reserved, tables, pool, lost)
  BY <1>1, TreeStarts, BumpFramesAre DEF TemplateInit, Reserved
<1>3. \A page \in Pages : LeafIn(tables, page) = {}
  BY LeavesStart DEF TemplateInit
<1>4. Protected(tables)
  BY <1>3 DEF Protected
<1>5. \A k \in DOMAIN Script : \A i \in 1 .. Len(Script[k]) : ~Past(1, 0, k, i)
  BY <1>1, ScriptIs DEF Past, Scripted
<1>6. Reflects(Script, 1, 0, tables)
  BY <1>3, <1>5 DEF Reflects, PageIs, Untouched
<1>. QED BY <1>1, <1>2, <1>4, <1>6 DEF TemplateInv, TemplateAt

\* Whatever memory map and kernel create_page_table_template is given, its
\* tables are a tree in the bump allocator's frames, and every page has the entry
\* of the last call of map for it.
THEOREM TemplateIsReflected == TemplateSpec => []TemplateInv
BY TemplateStarts, TemplateKept, PTL DEF TemplateSpec

\* No page of the template, at any point of its construction, is both writable
\* and executable.
THEOREM TemplateProtects == TemplateSpec => []WritableXorExecutable
<1>1. TemplateInv => WritableXorExecutable
  BY LeafIs DEF TemplateInv, TemplateAt, Protected, WritableXorExecutable
<1>. QED BY <1>1, TemplateIsReflected, PTL

\* When create_page_table_template returns, every frame of the memory map is
\* mapped at its offset in phys_map, the first MiB to itself and the kernel's
\* sections with the permissions of the last that covers a page; no other page
\* is mapped.
THEOREM TemplateMapsExactly == TemplateSpec => []TemplateIsExact
BY TemplateInvMeans, TemplateIsReflected, PTL
==============================================================================
