----------------------------- MODULE PagingSteps ------------------------------
(***************************************************************************)
(* One call of create_mapping, step by step: the node that map holds is    *)
(* the one for the page it is at, the pages mapped so far translate as the *)
(* call asks and the others as they did before it.                         *)
(***************************************************************************)
EXTENDS PagingTree

(* The heap gives out a node that no table uses.                           *)
FreshNode == NewNode \in Nat /\ NewNode \notin DOMAIN node

(* The tables of the firmware are not below root, except for its PDPT in   *)
(* the first slot, and stay as they are.                                   *)
FirmwareKept(lv, pf) ==
  booting = "loader" =>
    /\ FirmwarePml4 \in DOMAIN node /\ lv[FirmwarePml4] = 0
    /\ node[FirmwarePml4] = FirmwareNode
    /\ FirmwarePdpt \in DOMAIN node /\ lv[FirmwarePdpt] = 3 /\ pf[FirmwarePdpt] = 0
    /\ node[FirmwarePdpt] = FirmwarePdptNode

(* A step that writes no node leaves the tree as it is.                    *)
LEMMA SameTree ==
  ASSUME NEW lv, NEW pf, Tree(lv, pf), FirmwareKept(lv, pf),
         node' = node, root' = root, booting' = booting
  PROVE  Tree(lv, pf)' /\ FirmwareKept(lv, pf)'
<1>1. HugeSlots' = HugeSlots BY DEF HugeSlots
<1>2. \A a, i : LinksDown(lv, pf, a, i)' <=> LinksDown(lv, pf, a, i)
  BY <1>1 DEF LinksDown
<1>3. \A b, i, a : Points(lv, pf, b, i, a)' <=> Points(lv, pf, b, i, a)
  BY DEF Points
<1>4. Tree(lv, pf)' BY <1>2, <1>3 DEF Tree
<1>5. FirmwareKept(lv, pf)' BY DEF FirmwareKept
<1> QED BY <1>4, <1>5

Op == [virt : Nat, phys : Nat, pages : Nat, attr : Attr, i : Nat, node : Nat,
       level : 0 .. 4, walked : BOOLEAN]

(* The call in progress after one step down the tables.                    *)
LEMMA OpDown ==
  ASSUME NEW o \in Op, NEW n \in Nat, NEW k \in 0 .. 4
  PROVE  /\ [o EXCEPT !.node = n, !.level = k] \in Op
         /\ [o EXCEPT !.node = n, !.level = k].node = n
<1>1. [o EXCEPT !.node = n, !.level = k] \in Op BY Zenon DEF Op
<1>2. [o EXCEPT !.node = n, !.level = k].node = n BY DEF Op
<1> QED BY <1>1, <1>2

(* One step down the walk for page p: the next node is the right one, and  *)
(* no translation changes.                                                 *)
LEMMA GetOrAllocStep ==
  ASSUME FreshNode, NEW lv, NEW pf, Tree(lv, pf), FirmwareKept(lv, pf), op \in Op,
         NEW p \in Pages, NEW l \in 2 .. 4, op.level = l,
         OnPath(lv, pf, op.node, l, p), ~(l = 3 /\ Prefix(p, 3) \in HugeSlots),
         NEW next_pc, GetOrAlloc(Digit(p, l), next_pc),
         root' = root, booting' = booting
  PROVE  /\ \E lw, pg : /\ Tree(lw, pg)' /\ FirmwareKept(lw, pg)'
                        /\ OnPath(lw, pg, op.node, l - 1, p)'
         /\ op' = [op EXCEPT !.node = op'.node, !.level = l - 1] /\ op' \in Op
         /\ pc' = next_pc
         /\ \A q \in Pages : Translate(root, q * PAGE)' = Translate(root, q * PAGE)
<1> DEFINE a == op.node
           i == Digit(p, l)
           e == node[a][i]
<1>1. p \in Nat /\ i \in 0 .. F - 1
  <2>1. p \in Nat /\ l \in 1 .. 4 BY PrefixTop
  <2> QED BY <2>1, PrefixType, Zenon
<1>2. a \in DOMAIN node /\ lv[a] = l /\ pf[a] = Prefix(p, l) BY DEF OnPath
<1>3. e \in PageEntry
  <2>1. node \in [DOMAIN node -> [0 .. F - 1 -> PageEntry]] BY DEF Tree
  <2> HIDE DEF PageEntry, i
  <2> QED BY <1>1, <1>2, <2>1, Zenon
<1>4. Prefix(p, l - 1) = F * Prefix(p, l) + i BY <1>1, PrefixSplits
<1>5. CASE IsPresent(e)
  <2>1. ~IsHuge(e) /\ OnPath(lv, pf, e.addr, l - 1, p)
    BY <1>1, <1>5, ChildOnPath
  <2>2. e.addr \in DOMAIN node BY <2>1 DEF OnPath
  <2>3. /\ node' = node /\ pc' = next_pc
        /\ op' = [op EXCEPT !.node = e.addr, !.level = l - 1]
    BY <1>5, <2>1, <2>2 DEF GetOrAlloc
  <2>4. e.addr \in Nat BY <1>3 DEF PageEntry
  <2>5. op' \in Op /\ op'.node = e.addr
    <3>1. l - 1 \in 0 .. 4 OBVIOUS
    <3>2. PICK y : y = e.addr OBVIOUS
    <3>3. op' = [op EXCEPT !.node = y, !.level = l - 1] BY <2>3, <3>2
    <3> HIDE DEF e
    <3>4. y \in Nat BY <2>4, <3>2
    <3>5. op' \in Op /\ op'.node = y BY <3>1, <3>3, <3>4, OpDown, Zenon
    <3> QED BY <3>2, <3>5
  <2>6. Tree(lv, pf)' /\ FirmwareKept(lv, pf)' BY <2>3, SameTree
  <2>7. OnPath(lv, pf, op.node, l - 1, p)' BY <2>1, <2>3, <2>5 DEF OnPath
  <2>8. \A q \in Pages : Translate(root, q * PAGE)' = Translate(root, q * PAGE)
    BY <2>3 DEF Translate, Lookup
  <2> QED BY <2>3, <2>5, <2>6, <2>7, <2>8
<1>6. CASE ~IsPresent(e)
  <2> DEFINE new == NewNode
  <2>1. new \in Nat /\ new \notin DOMAIN node BY DEF FreshNode
  <2>2. /\ node' = WithNode([node EXCEPT ![a][i] =
                               Entry(new, "ReadWriteExecuteKernel")], new, EmptyNode)
        /\ pc' = next_pc /\ op' = [op EXCEPT !.node = new, !.level = l - 1]
    BY <1>6 DEF GetOrAlloc
  <2>3. PICK z : z = new OBVIOUS
  <2>4. PICK lw, pg : /\ lw = WithNode(lv, z, lv[a] - 1)
                      /\ pg = WithNode(pf, z, F * pf[a] + i)
    OBVIOUS
  <2> HIDE DEF new
  <2>5. AddsTable(lv, pf, lw, pg, a, i, z)
    BY <1>1, <1>2, <1>6, <2>1, <2>2, <2>3, <2>4 DEF AddsTable
  <2>6. PICK b, j : b = a /\ j = i OBVIOUS
  <2>7. AddsTable(lv, pf, lw, pg, b, j, z) BY <2>5, <2>6
  <2>8. Tree(lw, pg)' BY <2>7, TableAdded
  <2>9. \A q \in Pages : Translate(root, q * PAGE)' = Translate(root, q * PAGE)
    BY <2>7, TableAddedUnseen
  <2>10. op' \in Op /\ op'.node = z
    <3>1. l - 1 \in 0 .. 4 OBVIOUS
    <3> QED BY <2>1, <2>2, <2>3, <3>1, OpDown, Zenon
  <2>11. /\ DOMAIN node' = DOMAIN node \cup {z}
         /\ \A c \in DOMAIN node : c # a => node'[c] = node[c]
         /\ \A c \in DOMAIN node : lw[c] = lv[c] /\ pg[c] = pf[c]
         /\ lw[z] = l - 1 /\ pg[z] = F * pf[a] + i
    <3>1. DOMAIN lv = DOMAIN node /\ DOMAIN pf = DOMAIN node BY DEF Tree
    <3> QED BY <1>2, <2>1, <2>2, <2>3, <2>4, <3>1 DEF WithNode
  <2>12. OnPath(lw, pg, op.node, l - 1, p)'
    BY <1>2, <1>4, <2>10, <2>11 DEF OnPath
  <2>13. FirmwareKept(lw, pg)'
    <3> SUFFICES ASSUME booting = "loader" PROVE FirmwareKept(lw, pg)'
      BY DEF FirmwareKept
    <3>1. /\ FirmwarePml4 \in DOMAIN node /\ lv[FirmwarePml4] = 0
          /\ node[FirmwarePml4] = FirmwareNode
          /\ FirmwarePdpt \in DOMAIN node /\ lv[FirmwarePdpt] = 3
          /\ pf[FirmwarePdpt] = 0
          /\ node[FirmwarePdpt] = FirmwarePdptNode
      BY DEF FirmwareKept
    <3>2. FirmwarePml4 # a /\ FirmwarePdpt # a
      BY <1>2, <3>1 DEF HugeSlots
    <3> QED BY <2>11, <3>1, <3>2 DEF FirmwareKept
  <2> QED BY <2>2, <2>3, <2>8, <2>9, <2>10, <2>12, <2>13
<1> QED BY <1>5, <1>6

-----------------------------------------------------------------------------
(* The call of create_mapping under way                                    *)
VPage == op.virt \div PAGE

Within(p, n) == VPage <= p /\ p < VPage + n

Asked(p) == Entry(op.phys + (p - VPage) * PAGE, op.attr)

Small == pc \in {"walk", "fill"}

Huge == pc \in {"huge_walk", "huge_fill"}

OpInv ==
  /\ pc \in {"idle", "walk", "fill", "huge_walk", "huge_fill", "active"}
  /\ op \in Op /\ Slot < F
  /\ Small \/ Huge =>
       /\ op.virt = VPage * PAGE
       /\ \A p \in Pages : expected[p] = IF Within(p, op.pages) THEN Asked(p) ELSE before[p]
  /\ Small =>
       /\ op.attr \notin {"NotPresent", "ReadWriteKernel1GiB"}
       /\ op.i <= op.pages /\ SmallRange(VPage, op.pages)
       /\ pc = "walk" => op.i = 0 \/ op.i < op.pages
  /\ Huge =>
       /\ op.attr = "ReadWriteKernel1GiB" /\ op.virt = LINER_MAPPING_BASE_VADDR
       /\ op.pages = F * F * F /\ op.i <= F
       /\ pc = "huge_walk" => op.i = 0

(* The node that map holds is the one for the page it is at.               *)
Here(lv, pf) ==
  /\ pc = "walk" => op.level \in 2 .. 4 /\ OnPath(lv, pf, op.node, op.level, VPage + op.i)
  /\ pc = "fill" =>
       /\ op.node \in DOMAIN node /\ lv[op.node] = 1
       /\ NeedsWalk \/ pf[op.node] = Prefix(VPage + op.i, 1)
  /\ pc = "huge_walk" => op.level = 4 /\ op.node = root
  /\ pc = "huge_fill" => op.node \in DOMAIN node /\ lv[op.node] = 3 /\ pf[op.node] = Slot

TreeInv == \E lv, pf : Tree(lv, pf) /\ Here(lv, pf) /\ FirmwareKept(lv, pf)

(* The pages mapped so far translate as asked, the others as before.       *)
Mapped(n) ==
  \A p \in Pages : Translate(root, p * PAGE) = IF Within(p, n) THEN Asked(p) ELSE before[p]

MapInv ==
  /\ Small => Mapped(op.i)
  /\ Huge => Mapped(op.i * F * F)
  /\ ~Small /\ ~Huge => \A p \in Pages : Translate(root, p * PAGE) = expected[p]

(* What the calls so far ask for agrees with virt_to_phys, and the direct  *)
(* mapping stays once it is made.                                          *)
AgreeInv ==
  /\ pc = "active" => todo = <<>>
  /\ booting = "kernel" =>
       /\ \A p \in Pages : p * PAGE >= LINER_MAPPING_BASE_VADDR /\ IsPresent(expected[p]) =>
            expected[p].addr = VirtToPhys(p * PAGE)
       /\ (\A j \in 1 .. Len(todo) : todo[j] # DirectMapping) =>
            \A p \in Pages : Prefix(p, 3) = Slot =>
              expected[p].addr = p * PAGE - LINER_MAPPING_BASE_VADDR

PageInv == FreshNode /\ OpInv /\ TreeInv /\ MapInv

(* What a step of the walk leaves of the call.                             *)
LEMMA OpDownKeeps ==
  ASSUME NEW o \in Op, NEW n, NEW k
  PROVE  LET o2 == [o EXCEPT !.node = n, !.level = k]
         IN  /\ o2.node = n /\ o2.level = k
             /\ o2.virt = o.virt /\ o2.phys = o.phys /\ o2.pages = o.pages
             /\ o2.attr = o.attr /\ o2.i = o.i /\ o2.walked = o.walked
BY DEF Op

SameCall ==
  /\ op'.virt = op.virt /\ op'.phys = op.phys /\ op'.pages = op.pages
  /\ op'.attr = op.attr
  /\ booting' = booting /\ root' = root /\ before' = before /\ expected' = expected

(* What is asked for depends on the arguments of the call alone.           *)
LEMMA CallFrame ==
  ASSUME SameCall
  PROVE  /\ VPage' = VPage /\ HugeSlots' = HugeSlots
         /\ \A p, n : Within(p, n)' <=> Within(p, n)
         /\ \A p : Asked(p)' = Asked(p)
         /\ \A v, n : SmallRange(v, n)' <=> SmallRange(v, n)
BY DEF SameCall, VPage, HugeSlots, Within, Asked, SmallRange

(* The address in progress is that of the page in progress.                *)
LEMMA VaddrIsPage ==
  ASSUME op \in Op, op.virt = VPage * PAGE
  PROVE  VPage \in Nat /\ Vaddr = (VPage + op.i) * PAGE
<1>1. op.virt \in Nat /\ op.i \in Nat BY DEF Op
<1>2. PAGE \in Nat \ {0} BY PagingAssumption
<1>3. PICK n, i : n = VPage /\ i = op.i OBVIOUS
<1>4. n \in Nat BY <1>1, <1>2, <1>3, DivFacts DEF VPage
<1>5. n * PAGE + i * PAGE = (n + i) * PAGE BY <1>1, <1>2, <1>3, <1>4
<1> QED BY <1>3, <1>4, <1>5 DEF Vaddr

(* Walk (one level down on the way to a 4 KiB page) keeps the invariant.   *)
LEMMA WalkStep ==
  ASSUME PageInv, Walk
  PROVE  OpInv' /\ TreeInv' /\ MapInv'
<1>1. /\ pc = "walk" /\ Small /\ ~Huge /\ FreshNode /\ op \in Op /\ Slot < F
      /\ op.virt = VPage * PAGE /\ op.i \in Nat /\ op.pages \in Nat
  BY DEF PageInv, OpInv, Walk, Small, Huge, Op
<1>2. PICK lv, pf : Tree(lv, pf) /\ Here(lv, pf) /\ FirmwareKept(lv, pf)
  BY DEF PageInv, TreeInv
<1>3. PICK p, l : p = VPage + op.i /\ l = op.level OBVIOUS
<1>4. p \in Pages /\ Prefix(p, 3) \notin HugeSlots
  <2>1. SmallRange(VPage, op.pages) /\ op.i <= op.pages
        /\ (op.i = 0 \/ op.i < op.pages)
    BY <1>1 DEF PageInv, OpInv
  <2>2. op.i \in 0 .. op.pages BY <1>1, <2>1
  <2> QED BY <1>3, <2>1, <2>2 DEF SmallRange
<1>5. l \in 2 .. 4 /\ OnPath(lv, pf, op.node, l, p) BY <1>1, <1>2, <1>3 DEF Here
<1>6. p \in Nat /\ l \in 1 .. 4 BY <1>4, <1>5, PrefixTop
<1>7. Index(Vaddr, op.level) = Digit(p, l)
  BY <1>1, <1>3, <1>6, VaddrIsPage, IndexIsDigit
<1>8. PICK next_pc : next_pc = IF op.level = 2 THEN "fill" ELSE "walk" OBVIOUS
<1>9. GetOrAlloc(Digit(p, l), next_pc) /\ root' = root /\ booting' = booting
      /\ before' = before /\ expected' = expected
  BY <1>7, <1>8 DEF Walk
<1>10. /\ \E lw, pg : /\ Tree(lw, pg)' /\ FirmwareKept(lw, pg)'
                      /\ OnPath(lw, pg, op.node, l - 1, p)'
       /\ op' = [op EXCEPT !.node = op'.node, !.level = l - 1] /\ op' \in Op
       /\ pc' = next_pc
       /\ \A q \in Pages : Translate(root, q * PAGE)' = Translate(root, q * PAGE)
  BY <1>1, <1>2, <1>3, <1>4, <1>5, <1>9, GetOrAllocStep, Zenon
<1>11. PICK m : m = op'.node OBVIOUS
<1>12. op' = [op EXCEPT !.node = m, !.level = l - 1] BY <1>10, <1>11
<1>13. op'.level = l - 1 /\ op'.i = op.i /\ SameCall
  BY <1>1, <1>9, <1>12, OpDownKeeps DEF SameCall
<1>14. /\ VPage' = VPage /\ HugeSlots' = HugeSlots
       /\ \A q, n : Within(q, n)' <=> Within(q, n)
       /\ \A q : Asked(q)' = Asked(q)
       /\ \A v, n : SmallRange(v, n)' <=> SmallRange(v, n)
  BY <1>13, CallFrame
<1>15. pc' = IF l = 2 THEN "fill" ELSE "walk" BY <1>3, <1>8, <1>10
<1>16. Small' /\ ~Huge' BY <1>15 DEF Small, Huge
<1>17. OpInv'
  BY <1>1, <1>10, <1>13, <1>14, <1>15, <1>16 DEF PageInv, OpInv, SameCall
<1>18. TreeInv'
  <2>1. PICK lw, pg : /\ Tree(lw, pg)' /\ FirmwareKept(lw, pg)'
                      /\ OnPath(lw, pg, op.node, l - 1, p)'
    BY <1>10
  <2>2. p = (VPage + op.i)' BY <1>3, <1>13, <1>14
  <2>3. Here(lw, pg)'
    <3>1. CASE l = 2
      <4>1. pc' = "fill" /\ l - 1 = 1 BY <1>15, <3>1
      <4> QED BY <2>1, <2>2, <4>1 DEF Here, OnPath
    <3>2. CASE l # 2
      <4>1. pc' = "walk" /\ l - 1 \in 2 .. 4 BY <1>5, <1>15, <3>2
      <4> QED BY <1>13, <2>1, <2>2, <4>1 DEF Here
    <3> QED BY <3>1, <3>2
  <2> QED BY <2>1, <2>3 DEF TreeInv
<1>19. MapInv'
  BY <1>1, <1>10, <1>13, <1>14, <1>16 DEF PageInv, MapInv, Mapped, SameCall
<1> QED BY <1>17, <1>18, <1>19

(* HugeWalk (from the PML4 to the PDPT) keeps the invariant.               *)
LEMMA HugeWalkStep ==
  ASSUME PageInv, HugeWalk
  PROVE  OpInv' /\ TreeInv' /\ MapInv'
<1>1. /\ pc = "huge_walk" /\ ~Small /\ Huge /\ FreshNode /\ op \in Op /\ Slot < F
      /\ op.virt = VPage * PAGE /\ op.virt = LINER_MAPPING_BASE_VADDR
  BY DEF PageInv, OpInv, HugeWalk, Small, Huge
<1>2. PICK lv, pf : Tree(lv, pf) /\ Here(lv, pf) /\ FirmwareKept(lv, pf)
  BY DEF PageInv, TreeInv
<1>3. PICK p : p = VPage OBVIOUS
<1>4. p \in Pages /\ Prefix(p, 3) = Slot BY <1>1, <1>3, SlotFacts DEF VPage
<1>5. op.level = 4 /\ OnPath(lv, pf, op.node, 4, p)
  BY <1>1, <1>2, <1>4, TopOnPath DEF Here
<1>6. p \in Nat /\ 4 \in 1 .. 4 /\ 4 \in 2 .. 4 BY <1>4, PrefixTop
<1>7. Index(op.virt, 4) = Digit(p, 4) BY <1>1, <1>3, <1>6, IndexIsDigit
<1>8. GetOrAlloc(Digit(p, 4), "huge_fill") /\ root' = root /\ booting' = booting
      /\ before' = before /\ expected' = expected
  BY <1>7 DEF HugeWalk
<1>9. /\ \E lw, pg : /\ Tree(lw, pg)' /\ FirmwareKept(lw, pg)'
                     /\ OnPath(lw, pg, op.node, 4 - 1, p)'
      /\ op' = [op EXCEPT !.node = op'.node, !.level = 4 - 1] /\ op' \in Op
      /\ pc' = "huge_fill"
      /\ \A q \in Pages : Translate(root, q * PAGE)' = Translate(root, q * PAGE)
  <2>1. ~(4 = 3 /\ Prefix(p, 3) \in HugeSlots) OBVIOUS
  <2>2. PICK l : l = 4 OBVIOUS
  <2>3. /\ l \in 2 .. 4 /\ op.level = l /\ OnPath(lv, pf, op.node, l, p)
        /\ ~(l = 3 /\ Prefix(p, 3) \in HugeSlots) /\ GetOrAlloc(Digit(p, l), "huge_fill")
    BY <1>5, <1>8, <2>2
  <2>4. /\ \E lw, pg : /\ Tree(lw, pg)' /\ FirmwareKept(lw, pg)'
                       /\ OnPath(lw, pg, op.node, l - 1, p)'
        /\ op' = [op EXCEPT !.node = op'.node, !.level = l - 1] /\ op' \in Op
        /\ pc' = "huge_fill"
        /\ \A q \in Pages : Translate(root, q * PAGE)' = Translate(root, q * PAGE)
    BY <1>1, <1>2, <1>4, <1>8, <2>3, GetOrAllocStep, Zenon
  <2> QED BY <2>2, <2>4
<1>11. PICK m : m = op'.node OBVIOUS
<1>12. op' = [op EXCEPT !.node = m, !.level = 4 - 1] BY <1>9, <1>11
<1>13. op'.i = op.i /\ SameCall
  BY <1>1, <1>8, <1>12, OpDownKeeps DEF SameCall
<1>14. /\ VPage' = VPage /\ HugeSlots' = HugeSlots
       /\ \A q, n : Within(q, n)' <=> Within(q, n)
       /\ \A q : Asked(q)' = Asked(q)
  BY <1>13, CallFrame
<1>16. ~Small' /\ Huge' BY <1>9 DEF Small, Huge
<1>17. OpInv'
  BY <1>1, <1>9, <1>13, <1>14, <1>16 DEF PageInv, OpInv, SameCall
<1>18. TreeInv'
  <2>1. PICK lw, pg : /\ Tree(lw, pg)' /\ FirmwareKept(lw, pg)'
                      /\ OnPath(lw, pg, op.node, 4 - 1, p)'
    BY <1>9
  <2>2. OnPath(lw, pg, op.node, 3, p)' BY <2>1
  <2>3. Here(lw, pg)' BY <1>4, <1>9, <2>2 DEF Here, OnPath
  <2> QED BY <2>1, <2>3 DEF TreeInv
<1>19. MapInv'
  BY <1>1, <1>9, <1>13, <1>14, <1>16 DEF PageInv, MapInv, Mapped, SameCall
<1> QED BY <1>17, <1>18, <1>19

(* The call in progress after it goes back to the root.                    *)
LEMMA OpRewalks ==
  ASSUME NEW o \in Op, NEW n \in Nat
  PROVE  LET o2 == [o EXCEPT !.node = n, !.level = 4, !.walked = TRUE]
         IN  /\ o2 \in Op /\ o2.node = n /\ o2.level = 4
             /\ o2.virt = o.virt /\ o2.phys = o.phys /\ o2.pages = o.pages
             /\ o2.attr = o.attr /\ o2.i = o.i
<1>1. 4 \in 0 .. 4 OBVIOUS
<1>2. [o EXCEPT !.node = n, !.level = 4, !.walked = TRUE] \in Op
  BY <1>1, Zenon DEF Op
<1> HIDE DEF Attr
<1>3. LET o2 == [o EXCEPT !.node = n, !.level = 4, !.walked = TRUE]
      IN  /\ o2.node = n /\ o2.level = 4
          /\ o2.virt = o.virt /\ o2.phys = o.phys /\ o2.pages = o.pages
          /\ o2.attr = o.attr /\ o2.i = o.i
  BY DEF Op
<1> QED BY <1>2, <1>3

(* Rewalk (back to the PML4 at the end of a page table) keeps the invariant. *)
LEMMA RewalkStep ==
  ASSUME PageInv, Rewalk, root \in Nat
  PROVE  OpInv' /\ TreeInv' /\ MapInv'
<1>1. /\ pc = "fill" /\ Small /\ ~Huge /\ op \in Op /\ Slot < F
      /\ op.i < op.pages /\ op.i \in Nat /\ op.pages \in Nat
      /\ SmallRange(VPage, op.pages)
  BY DEF PageInv, OpInv, Rewalk, Small, Huge, Op
<1>2. PICK lv, pf : Tree(lv, pf) /\ Here(lv, pf) /\ FirmwareKept(lv, pf)
  BY DEF PageInv, TreeInv
<1>3. /\ pc' = "walk" /\ node' = node /\ root' = root /\ booting' = booting
      /\ before' = before /\ expected' = expected
      /\ op' = [op EXCEPT !.node = root, !.level = 4, !.walked = TRUE]
  BY DEF Rewalk
<1>4. op' \in Op /\ op'.node = root /\ op'.level = 4 /\ op'.i = op.i /\ SameCall
  <2>1. PICK r : r = root OBVIOUS
  <2>2. op' = [op EXCEPT !.node = r, !.level = 4, !.walked = TRUE] BY <1>3, <2>1
  <2>3. r \in Nat /\ op \in Op BY <1>1, <2>1
  <2>4. /\ op' \in Op /\ op'.node = r /\ op'.level = 4
        /\ op'.virt = op.virt /\ op'.phys = op.phys /\ op'.pages = op.pages
        /\ op'.attr = op.attr /\ op'.i = op.i
    BY <2>2, <2>3, OpRewalks, Zenon
  <2> QED BY <1>3, <2>1, <2>4 DEF SameCall
<1>5. /\ VPage' = VPage /\ HugeSlots' = HugeSlots
      /\ \A q, n : Within(q, n)' <=> Within(q, n)
      /\ \A q : Asked(q)' = Asked(q)
      /\ \A v, n : SmallRange(v, n)' <=> SmallRange(v, n)
  BY <1>4, CallFrame
<1>6. Small' /\ ~Huge' BY <1>3 DEF Small, Huge
<1>7. OpInv' BY <1>1, <1>3, <1>4, <1>5, <1>6 DEF PageInv, OpInv, SameCall
<1>8. PICK p : p = VPage + op.i OBVIOUS
<1>9. p \in Pages
  <2>1. op.i \in 0 .. op.pages BY <1>1
  <2> QED BY <1>1, <1>8, <2>1 DEF SmallRange
<1>10. OnPath(lv, pf, root, 4, p) BY <1>2, <1>9, TopOnPath
<1>11. Tree(lv, pf)' /\ FirmwareKept(lv, pf)' /\ Here(lv, pf)'
  <2>1. Tree(lv, pf)' /\ FirmwareKept(lv, pf)' BY <1>2, <1>3, SameTree
  <2>2. 4 \in 2 .. 4 OBVIOUS
  <2>3. Here(lv, pf)' BY <1>3, <1>4, <1>5, <1>8, <1>10, <2>2 DEF Here, OnPath
  <2> QED BY <2>1, <2>3
<1>12. \A q : Translate(root, q)' = Translate(root, q) BY <1>3 DEF Translate, Lookup
<1>13. MapInv'
  BY <1>1, <1>4, <1>5, <1>6, <1>12 DEF PageInv, MapInv, Mapped, SameCall
<1> QED BY <1>7, <1>11, <1>13 DEF TreeInv

(* The call in progress after one entry of 4 KiB.                          *)
LEMMA OpFilled ==
  ASSUME NEW o \in Op, NEW n \in Nat
  PROVE  LET o2 == [o EXCEPT !.i = n, !.walked = FALSE]
         IN  /\ o2 \in Op /\ o2.node = o.node /\ o2.i = n
             /\ o2.virt = o.virt /\ o2.phys = o.phys /\ o2.pages = o.pages
             /\ o2.attr = o.attr /\ o2.walked = FALSE
<1>2. [o EXCEPT !.i = n, !.walked = FALSE] \in Op BY Zenon DEF Op
<1> HIDE DEF Attr
<1>3. LET o2 == [o EXCEPT !.i = n, !.walked = FALSE]
      IN  /\ o2.node = o.node /\ o2.i = n
          /\ o2.virt = o.virt /\ o2.phys = o.phys /\ o2.pages = o.pages
          /\ o2.attr = o.attr
  BY DEF Op
<1>4. [o EXCEPT !.i = n, !.walked = FALSE].walked = FALSE BY DEF Op
<1> QED BY <1>2, <1>3, <1>4

(* The page table entry that the loop of map is at.                        *)
LEMMA FillIndexIs ==
  ASSUME op \in Op, op.virt = VPage * PAGE
  PROVE  FillIndex = Digit(VPage + op.i, 1)
<1>1. VPage \in Nat /\ op.i \in Nat BY VaddrIsPage DEF Op
<1>2. 1 \in 1 .. 4 OBVIOUS
<1>3. PICK v : v = VPage OBVIOUS
<1>4. Index(v * PAGE, 1) = v % F BY <1>1, <1>2, <1>3, IndexIsDigit DEF Digit
<1>5. ((v % F) + op.i) % F = Digit(v + op.i, 1) BY <1>1, <1>3, ModAdd, Zenon
<1> QED BY <1>3, <1>4, <1>5 DEF FillIndex

(* FillIndexIs, of the next state.                                         *)
LEMMA FillIndexIsNext ==
  (op \in Op /\ op.virt = VPage * PAGE => FillIndex = Digit(VPage + op.i, 1))'
<1>1. op \in Op /\ op.virt = VPage * PAGE => FillIndex = Digit(VPage + op.i, 1)
  BY FillIndexIs
<1> QED BY <1>1, PTL

(* Fill (one 4 KiB entry) keeps the invariant.                             *)
LEMMA FillStep ==
  ASSUME PageInv, Fill
  PROVE  OpInv' /\ TreeInv' /\ MapInv'
<1>1. /\ pc = "fill" /\ Small /\ ~Huge /\ op \in Op /\ Slot < F
      /\ op.i < op.pages /\ op.i \in Nat /\ op.pages \in Nat /\ op.phys \in Nat
      /\ op.attr \in Attr /\ op.attr \notin {"NotPresent", "ReadWriteKernel1GiB"}
      /\ op.virt = VPage * PAGE /\ SmallRange(VPage, op.pages)
  BY DEF PageInv, OpInv, Fill, Small, Huge, Op
<1>2. PICK lv, pf : Tree(lv, pf) /\ Here(lv, pf) /\ FirmwareKept(lv, pf)
  BY DEF PageInv, TreeInv
<1>3. /\ pc' = "fill" /\ root' = root /\ booting' = booting
      /\ before' = before /\ expected' = expected /\ ~NeedsWalk
      /\ node' = [node EXCEPT ![op.node][FillIndex] =
                    Entry(op.phys + op.i * PAGE, op.attr)]
      /\ op' = [op EXCEPT !.i = op.i + 1, !.walked = FALSE]
  BY <1>1 DEF Fill
<1>4. /\ op' \in Op /\ op'.node = op.node /\ op'.i = op.i + 1 /\ op'.walked = FALSE
      /\ SameCall
  <2>1. PICK n : n = op.i + 1 OBVIOUS
  <2>2. op' = [op EXCEPT !.i = n, !.walked = FALSE] BY <1>3, <2>1
  <2>3. n \in Nat /\ op \in Op BY <1>1, <2>1
  <2>4. /\ op' \in Op /\ op'.node = op.node /\ op'.i = n /\ op'.walked = FALSE
        /\ op'.virt = op.virt /\ op'.phys = op.phys /\ op'.pages = op.pages
        /\ op'.attr = op.attr
    BY <2>2, <2>3, OpFilled, Zenon
  <2> QED BY <1>3, <2>1, <2>4 DEF SameCall
<1>5. /\ VPage' = VPage /\ HugeSlots' = HugeSlots
      /\ \A q, n : Within(q, n)' <=> Within(q, n)
      /\ \A q : Asked(q)' = Asked(q)
      /\ \A v, n : SmallRange(v, n)' <=> SmallRange(v, n)
  BY <1>4, CallFrame
<1>6. Small' /\ ~Huge' BY <1>3 DEF Small, Huge
<1>7. OpInv'
  BY <1>1, <1>3, <1>4, <1>5, <1>6 DEF PageInv, OpInv, SameCall
<1>8. PICK a, i, e, p : /\ a = op.node /\ i = FillIndex /\ p = VPage + op.i
                        /\ e = Entry(op.phys + op.i * PAGE, op.attr)
  OBVIOUS
<1>9. p \in Pages /\ p \in Nat
  <2>1. op.i \in 0 .. op.pages BY <1>1
  <2>2. p \in Pages BY <1>1, <1>8, <2>1 DEF SmallRange
  <2> QED BY <2>2, PrefixTop
<1>10. i = Digit(p, 1) /\ i \in 0 .. F - 1
  <2>1. 1 \in 1 .. 4 OBVIOUS
  <2>2. i = Digit(p, 1) BY <1>1, <1>8, FillIndexIs
  <2> QED BY <1>9, <2>1, <2>2, PrefixType
<1>11. a \in DOMAIN node /\ lv[a] = 1 /\ pf[a] = Prefix(p, 1)
  BY <1>1, <1>2, <1>3, <1>8 DEF Here
<1>12. e \in PageEntry /\ IsPresent(e)
  <2>1. op.phys + op.i * PAGE \in Nat
    <3>1. PAGE \in Nat BY PagingAssumption
    <3>2. op.i * PAGE \in Nat BY <1>1, <3>1
    <3> QED BY <1>1, <3>2
  <2> HIDE DEF Attr
  <2> QED BY <1>1, <1>8, <2>1 DEF PageEntry, Entry, IsPresent
<1>13. SetsEntry(lv, pf, a, i, e)
  BY <1>2, <1>3, <1>8, <1>10, <1>11, <1>12 DEF SetsEntry
<1>14. Tree(lv, pf)' BY <1>13, EntrySet
<1>15. FirmwareKept(lv, pf)'
  <2>1. /\ DOMAIN node' = DOMAIN node
        /\ \A b \in DOMAIN node : b # a => node'[b] = node[b]
    BY <1>13, EntrySetFacts
  <2> QED BY <1>2, <1>3, <1>11, <2>1 DEF FirmwareKept
<1>16. Here(lv, pf)'
  <2>1. /\ op'.node \in DOMAIN node' /\ lv[op'.node] = 1 /\ pf[op'.node] = Prefix(p, 1)
    BY <1>4, <1>8, <1>11, <1>13, EntrySetFacts
  <2>2. (VPage + op.i)' = p + 1
    <3>1. VPage \in Nat BY <1>1, VaddrIsPage
    <3> QED BY <1>1, <1>4, <1>5, <1>8, <3>1
  <2>3. FillIndex' = Digit(p + 1, 1)
    <3>1. (op \in Op /\ op.virt = VPage * PAGE)' BY <1>1, <1>4, <1>5 DEF SameCall
    <3> QED BY <2>2, <3>1, FillIndexIsNext
  <2>4. NeedsWalk' \/ Prefix(p, 1) = Prefix(p + 1, 1)
    <3>1. op'.i # 0 BY <1>1, <1>4
    <3> QED BY <1>4, <1>9, <2>3, <3>1, NextPage DEF NeedsWalk
  <2> QED BY <1>3, <2>1, <2>2, <2>4 DEF Here
<1>17. MapInv'
  <2>1. SUFFICES ASSUME NEW q \in Pages
                 PROVE  Translate(root, q * PAGE)' =
                          IF Within(q, op.i + 1) THEN Asked(q) ELSE before[q]
    BY <1>3, <1>4, <1>5, <1>6 DEF MapInv, Mapped
  <2>2. Translate(root, q * PAGE) = IF Within(q, op.i) THEN Asked(q) ELSE before[q]
    BY <1>1 DEF PageInv, MapInv, Mapped
  <2>3. Translate(root, q * PAGE)' = IF pf[a] = Prefix(q, 1) /\ Digit(q, 1) = i THEN e
                                     ELSE Translate(root, q * PAGE)
    BY <1>11, <1>13, SmallEntrySeen
  <2>4. q \in Nat BY PrefixTop
  <2>5. (pf[a] = Prefix(q, 1) /\ Digit(q, 1) = i) <=> q = p
    BY <1>9, <1>10, <1>11, <2>4, SamePage
  <2>6. PICK v, k : v = VPage /\ k = op.i OBVIOUS
  <2>7. v \in Nat /\ k \in Nat /\ p = v + k BY <1>1, <1>8, <2>6, VaddrIsPage
  <2>8. Within(q, op.i + 1) <=> Within(q, op.i) \/ q = p
    BY <2>4, <2>6, <2>7 DEF Within
  <2>9. q = p => Asked(q) = e BY <1>8, <2>6, <2>7 DEF Asked
  <2>10. q = p => ~Within(q, op.i) BY <2>6, <2>7 DEF Within
  <2> QED BY <2>2, <2>3, <2>5, <2>8, <2>9, <2>10
<1> QED BY <1>7, <1>14, <1>15, <1>16, <1>17 DEF TreeInv

(* The call in progress after one entry of 1 GiB.                          *)
LEMMA OpHugeFilled ==
  ASSUME NEW o \in Op, NEW n \in Nat
  PROVE  LET o2 == [o EXCEPT !.i = n]
         IN  /\ o2 \in Op /\ o2.node = o.node /\ o2.i = n
             /\ o2.virt = o.virt /\ o2.phys = o.phys /\ o2.pages = o.pages
             /\ o2.attr = o.attr
<1>2. [o EXCEPT !.i = n] \in Op BY Zenon DEF Op
<1> HIDE DEF Attr
<1>3. LET o2 == [o EXCEPT !.i = n]
      IN  /\ o2.node = o.node /\ o2.i = n
          /\ o2.virt = o.virt /\ o2.phys = o.phys /\ o2.pages = o.pages
          /\ o2.attr = o.attr
  BY DEF Op
<1> QED BY <1>2, <1>3

(* The direct mapping fills one page directory pointer table from entry 0. *)
LEMMA HugePagesIs ==
  ASSUME op.pages = F * F * F
  PROVE  HugePages = F
<1>1. F \in Nat \ {0} /\ F * F \in Nat \ {0} BY Spans
<1>2. PICK m : m = F * F OBVIOUS
<1>3. F * F * F = F * m BY <1>1, <1>2
<1>4. (F * m) \div m = F BY <1>1, <1>2, MultipleAligned
<1> QED BY <1>2, <1>3, <1>4 DEF HugePages

(* Where the huge page under entry i starts.                               *)
LEMMA HugeAsked ==
  ASSUME op \in Op, op.virt = LINER_MAPPING_BASE_VADDR, NEW q \in Nat, NEW i \in Nat,
         Prefix(q, 3) = Slot, Digit(q, 3) = i
  PROVE  Asked(q) = Leaf(Entry(op.phys + i * HUGE, op.attr), (q * PAGE) % HUGE)
<1>1. VPage = F * F * F * Slot BY SlotFacts DEF VPage
<1>2. PICK v, z, w, f : /\ v = F * F * F * Slot /\ z = (q * PAGE) % HUGE
                        /\ w = Slot * LINER_MAPPING_SIZE /\ f = op.phys
  OBVIOUS
<1>3. v \in Nat /\ w = v * PAGE /\ w \in Nat /\ f \in Nat
      /\ PAGE \in Nat /\ HUGE \in Nat
  BY <1>2, SlotFacts, Sizes, PagingAssumption DEF Op
<1>4. q * PAGE = (w + i * HUGE) + z /\ z \in Nat BY <1>2, HugeLeaf
<1>5. (q - v) * PAGE = q * PAGE - v * PAGE BY <1>3
<1>6. PICK h : h = i * HUGE OBVIOUS
<1>7. h \in Nat /\ q * PAGE \in Nat BY <1>3, <1>6
<1>8. (q - v) * PAGE = h + z BY <1>3, <1>4, <1>5, <1>6, <1>7
<1>9. f + (q - v) * PAGE = (f + h) + z BY <1>3, <1>4, <1>7, <1>8
<1> QED BY <1>1, <1>2, <1>6, <1>9 DEF Asked, Leaf, Entry

(* HugeFill (one 1 GiB entry) keeps the invariant.                         *)
LEMMA HugeFillStep ==
  ASSUME PageInv, HugeFill
  PROVE  OpInv' /\ TreeInv' /\ MapInv'
<1>1. /\ pc = "huge_fill" /\ ~Small /\ Huge /\ op \in Op /\ Slot < F
      /\ op.i \in Nat /\ op.pages = F * F * F /\ op.phys \in Nat
      /\ op.attr = "ReadWriteKernel1GiB"
      /\ op.virt = VPage * PAGE /\ op.virt = LINER_MAPPING_BASE_VADDR
  BY DEF PageInv, OpInv, HugeFill, Small, Huge, Op
<1>2. PICK lv, pf : Tree(lv, pf) /\ Here(lv, pf) /\ FirmwareKept(lv, pf)
  BY DEF PageInv, TreeInv
<1>3. F \in Nat /\ op.i < F BY <1>1, HugePagesIs, PagingAssumption DEF HugeFill
<1>4. VPage = F * F * F * Slot /\ Slot \in Nat BY <1>1, SlotFacts DEF VPage
<1>5. Index(op.virt, 3) = 0
  <2>1. 3 \in 1 .. 4 OBVIOUS
  <2>2. Index((F * F * F * Slot) * PAGE, 3) = Digit(F * F * F * Slot, 3)
    BY <2>1, SlotFacts, IndexIsDigit
  <2> QED BY <1>1, <2>2, SlotFacts
<1>6. /\ pc' = pc /\ root' = root /\ booting' = booting
      /\ before' = before /\ expected' = expected
      /\ node' = [node EXCEPT ![op.node][op.i] = Entry(op.phys + op.i * HUGE, op.attr)]
      /\ op' = [op EXCEPT !.i = op.i + 1]
  <2>1. Index(op.virt, 3) + op.i = op.i /\ ~(op.i >= F) BY <1>1, <1>3, <1>5
  <2> QED BY <2>1 DEF HugeFill
<1>7. /\ op' \in Op /\ op'.node = op.node /\ op'.i = op.i + 1 /\ SameCall
  <2>1. PICK n : n = op.i + 1 OBVIOUS
  <2>2. op' = [op EXCEPT !.i = n] BY <1>6, <2>1
  <2>3. n \in Nat /\ op \in Op BY <1>1, <2>1
  <2>4. /\ op' \in Op /\ op'.node = op.node /\ op'.i = n
        /\ op'.virt = op.virt /\ op'.phys = op.phys /\ op'.pages = op.pages
        /\ op'.attr = op.attr
    BY <2>2, <2>3, OpHugeFilled
  <2> QED BY <1>6, <2>1, <2>4 DEF SameCall
<1>8. /\ VPage' = VPage /\ HugeSlots' = HugeSlots
      /\ \A q, n : Within(q, n)' <=> Within(q, n)
      /\ \A q : Asked(q)' = Asked(q)
  BY <1>7, CallFrame
<1>9. ~Small' /\ Huge' /\ pc' = "huge_fill" BY <1>1, <1>6 DEF Small, Huge
<1>10. OpInv'
  BY <1>1, <1>3, <1>7, <1>8, <1>9 DEF PageInv, OpInv, SameCall
<1>11. PICK a, i, e : /\ a = op.node /\ i = op.i
                      /\ e = Entry(op.phys + op.i * HUGE, op.attr)
  OBVIOUS
<1>12. i \in 0 .. F - 1 BY <1>1, <1>3, <1>11
<1>13. a \in DOMAIN node /\ lv[a] = 3 /\ pf[a] = Slot
  BY <1>1, <1>2, <1>11 DEF Here
<1>14. e \in PageEntry /\ IsPresent(e) /\ IsHuge(e)
  <2>1. op.phys + op.i * HUGE \in Nat
    <3>1. HUGE \in Nat BY Sizes
    <3>2. op.i * HUGE \in Nat BY <1>1, <3>1
    <3> QED BY <1>1, <3>2
  <2>2. op.attr \in Attr BY <1>1 DEF Attr
  <2> HIDE DEF Attr
  <2> QED BY <1>1, <1>11, <2>1, <2>2 DEF PageEntry, Entry, IsPresent, IsHuge
<1>15. SetsEntry(lv, pf, a, i, e)
  BY <1>2, <1>6, <1>11, <1>12, <1>13, <1>14 DEF SetsEntry, HugeSlots
<1>16. Tree(lv, pf)' BY <1>15, EntrySet
<1>17. /\ DOMAIN node' = DOMAIN node
       /\ \A b \in DOMAIN node : b # a => node'[b] = node[b]
  BY <1>15, EntrySetFacts
<1>18. FirmwareKept(lv, pf)'
  <2>1. Slot # 0 \/ booting # "loader"
    <3>1. APIC_IO_START_ADDR \in Nat /\ APIC_IO_START_ADDR < LINER_MAPPING_BASE_VADDR
      BY PagingAssumption
    <3>2. LINER_MAPPING_SIZE \in Nat /\ LINER_MAPPING_BASE_VADDR = Slot * LINER_MAPPING_SIZE
      BY SlotFacts, Sizes
    <3>3. Slot = 0 => Slot * LINER_MAPPING_SIZE = 0 BY <3>2
    <3> QED BY <3>1, <3>2, <3>3
  <2> QED BY <1>2, <1>6, <1>13, <1>17, <2>1 DEF FirmwareKept
<1>19. Here(lv, pf)' BY <1>7, <1>9, <1>11, <1>13, <1>17 DEF Here
<1>20. MapInv'
  <2>1. SUFFICES ASSUME NEW q \in Pages
                 PROVE  Translate(root, q * PAGE)' =
                          IF Within(q, (op.i + 1) * F * F) THEN Asked(q) ELSE before[q]
    BY <1>6, <1>7, <1>8, <1>9 DEF MapInv, Mapped
  <2>2. Translate(root, q * PAGE) = IF Within(q, op.i * F * F) THEN Asked(q) ELSE before[q]
    BY <1>1 DEF PageInv, MapInv, Mapped
  <2>3. Translate(root, q * PAGE)' =
          IF pf[a] = Prefix(q, 3) /\ Digit(q, 3) = i THEN Leaf(e, (q * PAGE) % HUGE)
          ELSE Translate(root, q * PAGE)
    BY <1>13, <1>15, HugeEntrySeen
  <2>4. q \in Nat /\ Digit(q, 3) \in Nat
    <3>1. q \in Nat /\ 3 \in 1 .. 4 BY PrefixTop
    <3>2. Digit(q, 3) \in 0 .. F - 1 BY <3>1, PrefixType
    <3> QED BY <1>3, <3>1, <3>2
  <2>5. PICK s : s = Slot OBVIOUS
  <2>6. \A n \in 0 .. F : Within(q, n * F * F) <=> (Prefix(q, 3) = s /\ Digit(q, 3) < n)
    <3>1. VPage = F * F * F * s /\ s \in Nat BY <1>4, <2>5
    <3>2. \A n \in 0 .. F : (F * F * F * s <= q /\ q < F * F * F * s + n * F * F)
                              <=> (Prefix(q, 3) = s /\ Digit(q, 3) < n)
      BY <2>4, <3>1, HugeFilled
    <3> QED BY <3>1, <3>2 DEF Within
  <2>7. i \in 0 .. F /\ i + 1 \in 0 .. F /\ i \in Nat BY <1>3, <1>12
  <2>8. Within(q, (i + 1) * F * F) <=> (Prefix(q, 3) = s /\ Digit(q, 3) < i + 1)
    BY <2>6, <2>7
  <2>9. Within(q, i * F * F) <=> (Prefix(q, 3) = s /\ Digit(q, 3) < i)
    BY <2>6, <2>7
  <2>10. Prefix(q, 3) = s /\ Digit(q, 3) = i => Asked(q) = Leaf(e, (q * PAGE) % HUGE)
    BY <1>1, <1>11, <2>4, <2>5, <2>7, HugeAsked
  <2>11. Digit(q, 3) < i + 1 <=> Digit(q, 3) < i \/ Digit(q, 3) = i BY <2>4, <2>7
  <2> QED BY <1>11, <1>13, <2>2, <2>3, <2>5, <2>8, <2>9, <2>10, <2>11
<1> QED BY <1>10, <1>16, <1>18, <1>19, <1>20 DEF TreeInv

(* Translation reads the tables alone.                                     *)
LEMMA SameNodes ==
  ASSUME node' = node, root' = root, NEW q
  PROVE  Translate(root, q)' = Translate(root, q)
<1>1. \A a, i : Lookup(a, i)' = Lookup(a, i) BY DEF Lookup
<1> QED BY <1>1, Zenon DEF Translate

(* MapDone (the call returns) keeps the invariant.                         *)
LEMMA MapDoneStep ==
  ASSUME PageInv, MapDone
  PROVE  OpInv' /\ TreeInv' /\ MapInv'
<1>1. /\ pc' = "idle" /\ op' = Idle /\ node' = node /\ root' = root
      /\ booting' = booting /\ before' = before /\ expected' = expected
  BY DEF MapDone
<1>2. Idle \in Op
  <2>1. "NotPresent" \in Attr /\ 0 \in 0 .. 4 /\ 0 \in Nat BY DEF Attr
  <2> QED BY <2>1, Zenon DEF Idle, Op
<1>3. ~Small' /\ ~Huge' BY <1>1 DEF Small, Huge
<1>4. OpInv' BY <1>1, <1>2, <1>3 DEF PageInv, OpInv
<1>5. TreeInv'
  <2>1. PICK lv, pf : Tree(lv, pf) /\ Here(lv, pf) /\ FirmwareKept(lv, pf)
    BY DEF PageInv, TreeInv
  <2>2. Tree(lv, pf)' /\ FirmwareKept(lv, pf)' BY <1>1, <2>1, SameTree
  <2>3. Here(lv, pf)' BY <1>1 DEF Here
  <2> QED BY <2>2, <2>3 DEF TreeInv
<1>6. \A q : Translate(root, q)' = Translate(root, q) BY <1>1, SameNodes
<1>7. ASSUME NEW q \in Pages PROVE Translate(root, q * PAGE) = expected[q]
  <2>1. CASE pc = "fill" /\ op.i = op.pages
    <3>1. Small BY <2>1 DEF Small
    <3> QED BY <2>1, <3>1 DEF PageInv, MapInv, Mapped, OpInv
  <2>2. CASE pc = "huge_fill" /\ op.i = HugePages
    <3>1. Huge BY <2>2 DEF Huge
    <3>2. op.pages = F * F * F BY <3>1 DEF PageInv, OpInv
    <3>3. op.i * F * F = op.pages BY <2>2, <3>2, HugePagesIs
    <3> QED BY <3>1, <3>3 DEF PageInv, MapInv, Mapped, OpInv
  <2> QED BY <2>1, <2>2 DEF MapDone
<1>8. MapInv' BY <1>1, <1>3, <1>6, <1>7 DEF MapInv
<1> QED BY <1>4, <1>5, <1>8

(* WriteCr3 keeps the invariant.                                           *)
LEMMA WriteCr3Step ==
  ASSUME PageInv, WriteCr3
  PROVE  OpInv' /\ TreeInv' /\ MapInv'
<1>1. /\ pc = "idle" /\ pc' = "active" /\ op' = op /\ node' = node /\ root' = root
      /\ booting' = booting /\ before' = before /\ expected' = expected
  BY DEF WriteCr3
<1>2. ~Small /\ ~Huge /\ ~Small' /\ ~Huge' BY <1>1 DEF Small, Huge
<1>3. OpInv' BY <1>1, <1>2 DEF PageInv, OpInv
<1>4. TreeInv'
  <2>1. PICK lv, pf : Tree(lv, pf) /\ Here(lv, pf) /\ FirmwareKept(lv, pf)
    BY DEF PageInv, TreeInv
  <2>2. Tree(lv, pf)' /\ FirmwareKept(lv, pf)' BY <1>1, <2>1, SameTree
  <2>3. Here(lv, pf)' BY <1>1 DEF Here
  <2> QED BY <2>2, <2>3 DEF TreeInv
<1>5. \A q : Translate(root, q)' = Translate(root, q) BY <1>1, SameNodes
<1>6. MapInv' BY <1>1, <1>2, <1>5 DEF PageInv, MapInv
<1> QED BY <1>3, <1>4, <1>6

(* Copying a root table leaves the tables of the one being built alone.    *)
LEMMA DuplicatePageStep ==
  ASSUME PageInv, tables \subseteq DOMAIN node, NEW parent \in tables,
         DuplicateKernel(parent)
  PROVE  OpInv' /\ TreeInv' /\ MapInv'
<1>1. /\ pc = "active" /\ pc' = pc /\ op' = op /\ root' = root /\ booting = "kernel"
      /\ booting' = booting /\ before' = before /\ expected' = expected
  BY DEF DuplicateKernel
<1>2. ~Small /\ ~Huge /\ ~Small' /\ ~Huge' BY <1>1 DEF Small, Huge
<1>3. OpInv' BY <1>1, <1>2 DEF PageInv, OpInv
<1>4. PICK lv, pf : Tree(lv, pf) BY DEF PageInv, TreeInv
<1>5. PICK new, n : /\ new = NewNode
                    /\ n = [i \in 0 .. F - 1 |-> IF IsPresent(node[parent][i])
                                             THEN node[parent][i] ELSE NotPresent]
  BY Zenon
<1>6. n \in [0 .. F - 1 -> PageEntry]
  <2>1. NotPresent \in PageEntry BY DEF NotPresent, PageEntry, Attr, IsPresent
  <2>2. node \in [DOMAIN node -> [0 .. F - 1 -> PageEntry]] BY <1>4 DEF Tree
  <2>3. \A i \in 0 .. F - 1 : node[parent][i] \in PageEntry
    <3> HIDE DEF PageEntry
    <3> QED BY <2>2, Zenon
  <2> HIDE DEF PageEntry
  <2> QED BY <1>5, <2>1, <2>3
<1>7. node' = WithNode(node, new, n) BY <1>5 DEF DuplicateKernel
<1>8. new \notin DOMAIN node BY <1>5 DEF PageInv, FreshNode
<1>9. PICK lw, pg : lw = WithNode(lv, new, 0) /\ pg = WithNode(pf, new, 0) OBVIOUS
<1>10. /\ Tree(lw, pg)'
       /\ \A p \in Pages : Translate(root, p * PAGE)' = Translate(root, p * PAGE)
  BY <1>1, <1>4, <1>6, <1>7, <1>8, <1>9, NodeAside
<1>11. Here(lw, pg)' /\ FirmwareKept(lw, pg)'
  BY <1>1 DEF Here, FirmwareKept
<1>12. TreeInv' BY <1>10, <1>11 DEF TreeInv
<1>13. MapInv' BY <1>1, <1>2, <1>10 DEF PageInv, MapInv
<1> QED BY <1>3, <1>12, <1>13

(* Where a call writes, in pages.                                          *)
LEMMA OverlayIs ==
  ASSUME NEW c \in Call, c.virt % PAGE = 0, NEW space, NEW p \in Pages
  PROVE  /\ c.virt \div PAGE \in Nat /\ NumPages(c.size) \in Nat
         /\ c.virt = (c.virt \div PAGE) * PAGE
         /\ Overlay(space, c)[p] =
              IF c.virt \div PAGE <= p /\ p < c.virt \div PAGE + NumPages(c.size)
                THEN Entry(c.phys + (p - c.virt \div PAGE) * PAGE, c.attr)
                ELSE space[p]
<1>1. c.virt \in Nat /\ c.size \in Nat BY DEF Call
<1>2. PAGE \in Nat \ {0} /\ p \in Nat BY PagingAssumption, PrefixTop
<1>3. PICK v, n : v = c.virt \div PAGE /\ n = NumPages(c.size) OBVIOUS
<1>4. v \in Nat /\ c.virt = v * PAGE BY <1>1, <1>2, <1>3, Aligned, Zenon
<1>5. n \in Nat /\ \A k \in Nat : k * PAGE < c.size <=> k < n
  BY <1>1, <1>3, NumPagesIs
<1>6. (p - v >= 0 /\ (p - v) * PAGE < c.size) <=> (v <= p /\ p < v + n)
  <2>1. CASE v <= p
    <3>1. p - v \in Nat BY <1>2, <1>4, <2>1
    <3>2. (p - v) * PAGE < c.size <=> p - v < n BY <1>5, <3>1
    <3> QED BY <1>2, <1>4, <1>5, <2>1, <3>2
  <2>2. CASE ~(v <= p) BY <1>2, <1>4, <2>2
  <2> QED BY <2>1, <2>2
<1>7. Overlay(space, c)[p] = IF p - v >= 0 /\ (p - v) * PAGE < c.size
                               THEN Entry(c.phys + (p - v) * PAGE, c.attr)
                               ELSE space[p]
  BY <1>3 DEF Overlay
<1> QED BY <1>3, <1>4, <1>5, <1>6, <1>7, Zenon

(* The entry of the direct mapping is one of 1 GiB entries throughout.     *)
LEMMA HugeSlotFixed ==
  Slot \in HugeSlots
BY DEF HugeSlots

CallsInv == todo \in Seq(GoodCalls)

(* Taking the next call leaves calls of the same kind.                     *)
LEMMA CallsNext ==
  ASSUME CallsInv, booting' = booting, 
         todo' = todo \/ (todo # <<>> /\ todo' = Tail(todo))
  PROVE  CallsInv'
<1>1. GoodCalls' = GoodCalls
  BY DEF GoodCalls, SmallCall, SmallRange, HugeSlots, CallAgrees
<1>2. PICK G : G = GoodCalls OBVIOUS
<1>3. todo \in Seq(G) /\ GoodCalls' = G BY <1>1, <1>2 DEF CallsInv
<1>4. todo' \in Seq(G) BY <1>3
<1> QED BY <1>3, <1>4 DEF CallsInv

(* A call of create_mapping that is made passes the asserts of map.        *)
LEMMA BeginFacts ==
  ASSUME CallsInv, Begin
  PROVE  \E c \in Call :
           /\ c = Head(todo) /\ (c = DirectMapping \/ SmallCall(c))
           /\ CallAgrees(c)
           /\ c.virt % PAGE = 0 /\ c.phys % PAGE = 0
           /\ pc = "idle" /\ todo # <<>> /\ todo' = Tail(todo)
           /\ pc' = IF IsHugeCall(c) THEN "huge_walk" ELSE "walk"
           /\ op' = [virt |-> c.virt, phys |-> c.phys,
                     pages |-> NumPages(c.size), attr |-> c.attr,
                     i |-> 0, node |-> root, level |-> 4, walked |-> TRUE]
           /\ before' = expected /\ expected' = Overlay(expected, c)
           /\ booting' = booting /\ node' = node /\ root' = root
<1>1. pc = "idle" /\ todo # <<>> /\ booting' = booting /\ node' = node /\ root' = root
  BY DEF Begin
<1>2. PICK c : c = Head(todo) OBVIOUS
<1>3. c \in GoodCalls
  <2>1. PICK G : G = GoodCalls OBVIOUS
  <2>2. todo \in Seq(G) BY <2>1 DEF CallsInv
  <2>3. Head(todo) \in G BY <1>1, <2>2
  <2> QED BY <1>2, <2>1, <2>3
<1>4. c \in Call /\ (c = DirectMapping \/ SmallCall(c)) /\ CallAgrees(c)
  BY <1>3 DEF GoodCalls
<1>5. c.virt % PAGE = 0 /\ c.phys % PAGE = 0
  <2>1. CASE c = DirectMapping
    <3>1. c.virt = LINER_MAPPING_BASE_VADDR /\ c.phys = 0
      BY <2>1 DEF DirectMapping, Mapping
    <3> QED BY <3>1, DirectIsHuge
  <2>2. CASE SmallCall(c) BY <2>2 DEF SmallCall
  <2> QED BY <1>4, <2>1, <2>2
<1> QED BY <1>1, <1>2, <1>4, <1>5, Zenon DEF Begin

(* Begin (the next call, with its asserts) keeps the invariant.            *)
LEMMA BeginStep ==
  ASSUME PageInv, CallsInv, Begin, root \in Nat
  PROVE  OpInv' /\ TreeInv' /\ MapInv'
<1>1. PICK c \in Call :
           /\ c = Head(todo) /\ (c = DirectMapping \/ SmallCall(c))
           /\ CallAgrees(c)
           /\ c.virt % PAGE = 0 /\ c.phys % PAGE = 0
           /\ pc = "idle" /\ todo # <<>> /\ todo' = Tail(todo)
           /\ pc' = IF IsHugeCall(c) THEN "huge_walk" ELSE "walk"
           /\ op' = [virt |-> c.virt, phys |-> c.phys,
                     pages |-> NumPages(c.size), attr |-> c.attr,
                     i |-> 0, node |-> root, level |-> 4, walked |-> TRUE]
           /\ before' = expected /\ expected' = Overlay(expected, c)
           /\ booting' = booting /\ node' = node /\ root' = root
  BY BeginFacts
<1>2. PICK v, n : v = c.virt \div PAGE /\ n = NumPages(c.size) OBVIOUS
<1>3. c.virt \in Nat /\ c.phys \in Nat /\ c.size \in Nat /\ c.attr \in Attr
  BY DEF Call
<1>4. PAGE \in Nat \ {0} BY PagingAssumption
<1>5. v \in Nat /\ n \in Nat /\ c.virt = v * PAGE
  BY <1>1, <1>2, <1>3, <1>4, Aligned, NumPagesIs, Zenon
<1>6. /\ op'.virt = c.virt /\ op'.phys = c.phys /\ op'.pages = n /\ op'.attr = c.attr
      /\ op'.i = 0 /\ op'.node = root /\ op'.level = 4
  BY <1>1, <1>2
<1>7. op' \in Op
  <2>1. PICK r : r = root OBVIOUS
  <2>2. r \in Nat /\ 4 \in 0 .. 4 /\ 0 \in Nat BY <2>1
  <2>3. op' = [virt |-> c.virt, phys |-> c.phys, pages |-> n, attr |-> c.attr,
               i |-> 0, node |-> r, level |-> 4, walked |-> TRUE]
    BY <1>1, <1>2, <2>1
  <2> QED BY <1>3, <1>5, <2>2, <2>3, Zenon DEF Op
<1>8. VPage' = v BY <1>2, <1>6 DEF VPage
<1>9. HugeSlots' = HugeSlots BY <1>1 DEF HugeSlots
<1>10. ASSUME NEW p \in Pages
       PROVE  expected'[p] = IF Within(p, op.pages)' THEN Asked(p)' ELSE before'[p]
  <2>1. expected'[p] = IF v <= p /\ p < v + n
                         THEN Entry(c.phys + (p - v) * PAGE, c.attr)
                         ELSE expected[p]
    BY <1>1, <1>2, OverlayIs
  <2>2. Within(p, op.pages)' <=> (v <= p /\ p < v + n) BY <1>6, <1>8 DEF Within
  <2>3. Asked(p)' = Entry(c.phys + (p - v) * PAGE, c.attr) BY <1>6, <1>8 DEF Asked
  <2> QED BY <1>1, <2>1, <2>2, <2>3, Zenon
<1>11. ASSUME NEW p \in Pages
       PROVE  Translate(root, p * PAGE)' = before'[p]
  <2>1. ~Small /\ ~Huge BY <1>1 DEF Small, Huge
  <2>2. Translate(root, p * PAGE)' = Translate(root, p * PAGE) BY <1>1, SameNodes
  <2> QED BY <1>1, <2>1, <2>2 DEF PageInv, MapInv
<1>12. ASSUME NEW p \in Pages PROVE ~Within(p, 0)'
  BY <1>5, <1>8, PrefixTop DEF Within
<1>13. Slot < F BY Zenon DEF PageInv, OpInv
<1>14. PICK lv, pf : Tree(lv, pf) /\ FirmwareKept(lv, pf) BY DEF PageInv, TreeInv
<1>15. Tree(lv, pf)' /\ FirmwareKept(lv, pf)'
  BY <1>1, <1>14, SameTree
<1>16. CASE c = DirectMapping
  <2>1. c.virt = LINER_MAPPING_BASE_VADDR /\ c.attr = "ReadWriteKernel1GiB"
        /\ c.size = LINER_MAPPING_SIZE
    BY <1>16 DEF DirectMapping, Mapping
  <2>2. IsHugeCall(c) /\ n = F * F * F BY <1>2, <1>16, <2>1, DirectIsHuge
  <2>3. pc' = "huge_walk" BY <1>1, <2>2
  <2>4. ~Small' /\ Huge' BY <2>3 DEF Small, Huge
  <2>5. OpInv'
    <3>1. 0 <= F BY PagingAssumption
    <3> QED
      BY <1>5, <1>6, <1>7, <1>8, <1>10, <1>13, <2>1, <2>2, <2>3, <2>4, <3>1, Zenon
        DEF OpInv
  <2>6. Here(lv, pf)' BY <1>1, <1>6, <2>3 DEF Here
  <2>7. MapInv'
    <3>1. op'.i * F * F = 0 BY <1>6, PagingAssumption
    <3> QED BY <1>11, <1>12, <2>4, <3>1, Zenon DEF MapInv, Mapped
  <2> QED BY <1>15, <2>5, <2>6, <2>7 DEF TreeInv
<1>17. CASE SmallCall(c)
  <2>1. /\ c.attr \notin {"NotPresent", "ReadWriteKernel1GiB"} /\ SmallRange(v, n)
    BY <1>2, <1>17 DEF SmallCall
  <2>2. pc' = "walk" BY <1>1, <2>1 DEF IsHugeCall
  <2>3. Small' /\ ~Huge' BY <2>2 DEF Small, Huge
  <2>4. SmallRange(v, n)' BY <1>9, <2>1 DEF SmallRange
  <2>5. OpInv'
    <3>1. 0 <= op'.pages /\ op'.i = 0 /\ op'.virt = VPage' * PAGE
      BY <1>5, <1>6, <1>8
    <3>2. SmallRange(VPage, op.pages)' BY <1>6, <1>8, <2>4 DEF SmallRange
    <3>3. op'.attr \notin {"NotPresent", "ReadWriteKernel1GiB"} BY <1>6, <2>1
    <3> QED BY <1>7, <1>10, <1>13, <2>2, <2>3, <3>1, <3>2, <3>3, Zenon DEF OpInv, Slot
  <2>6. Here(lv, pf)'
    <3>1. v + 0 \in Pages
      <4>1. 0 \in 0 .. n BY <1>5
      <4> QED BY <2>1, <4>1 DEF SmallRange
    <3>2. OnPath(lv, pf, root, 4, v + 0) BY <1>14, <3>1, TopOnPath
    <3>3. 4 \in 2 .. 4 OBVIOUS
    <3> QED BY <1>1, <1>6, <1>8, <2>2, <3>2, <3>3 DEF Here, OnPath
  <2>7. MapInv' BY <1>6, <1>11, <1>12, <2>3 DEF MapInv, Mapped
  <2> QED BY <1>15, <2>5, <2>6, <2>7 DEF TreeInv
<1> QED BY <1>1, <1>16, <1>17

(* The calls keep what virt_to_phys says.                                  *)
LEMMA BeginAgrees ==
  ASSUME CallsInv, AgreeInv, Begin
  PROVE  AgreeInv'
<1>1. PICK c \in Call :
           /\ c = Head(todo) /\ (c = DirectMapping \/ SmallCall(c))
           /\ CallAgrees(c)
           /\ c.virt % PAGE = 0 /\ c.phys % PAGE = 0
           /\ pc = "idle" /\ todo # <<>> /\ todo' = Tail(todo)
           /\ pc' = IF IsHugeCall(c) THEN "huge_walk" ELSE "walk"
           /\ expected' = Overlay(expected, c)
           /\ booting' = booting
  BY BeginFacts
<1> SUFFICES ASSUME booting = "kernel"
             PROVE  /\ \A p \in Pages :
                         p * PAGE >= LINER_MAPPING_BASE_VADDR /\ IsPresent(expected'[p])
                           => expected'[p].addr = VirtToPhys(p * PAGE)
                    /\ (\A j \in 1 .. Len(todo') : todo'[j] # DirectMapping) =>
                         \A p \in Pages : Prefix(p, 3) = Slot =>
                           expected'[p].addr = p * PAGE - LINER_MAPPING_BASE_VADDR
  BY <1>1 DEF AgreeInv
<1>2. PICK v, n : v = c.virt \div PAGE /\ n = NumPages(c.size) OBVIOUS
<1>3. c.virt \in Nat /\ c.phys \in Nat /\ c.size \in Nat BY DEF Call
<1>4. PAGE \in Nat \ {0} BY PagingAssumption
<1>5. v \in Nat /\ n \in Nat /\ c.virt = v * PAGE
  BY <1>1, <1>2, <1>3, <1>4, Aligned, NumPagesIs, Zenon
<1>6. ASSUME NEW p \in Pages
      PROVE  expected'[p] = IF v <= p /\ p < v + n
                              THEN Entry(c.phys + (p - v) * PAGE, c.attr)
                              ELSE expected[p]
  BY <1>1, <1>2, OverlayIs, Zenon
<1>7. ASSUME NEW p \in Pages,
             p * PAGE >= LINER_MAPPING_BASE_VADDR, IsPresent(expected'[p])
      PROVE  expected'[p].addr = VirtToPhys(p * PAGE)
  <2>1. CASE ~(v <= p /\ p < v + n) BY <1>6, <1>7, <2>1 DEF AgreeInv
  <2>2. CASE v <= p /\ p < v + n
    <3>1. p \in Nat BY PrefixTop
    <3>2. PICK k : k = p - v OBVIOUS
    <3>3. k \in 0 .. n /\ k < n /\ p = v + k BY <1>5, <2>2, <3>1, <3>2
    <3>4. c.virt + k * PAGE = p * PAGE BY <1>4, <1>5, <3>3
    <3>5. c.phys + k * PAGE = VirtToPhys(c.virt + k * PAGE)
      BY <1>1, <1>2, <1>7, <3>3, <3>4 DEF CallAgrees
    <3>6. expected'[p] = Entry(c.phys + k * PAGE, c.attr) BY <1>6, <2>2, <3>2
    <3>7. expected'[p].addr = c.phys + k * PAGE BY <3>6 DEF Entry
    <3> QED BY <3>4, <3>5, <3>7
  <2> QED BY <2>1, <2>2
<1>8. ASSUME \A j \in 1 .. Len(todo') : todo'[j] # DirectMapping,
             NEW p \in Pages, Prefix(p, 3) = Slot
      PROVE  expected'[p].addr = p * PAGE - LINER_MAPPING_BASE_VADDR
  <2>1. p \in Nat BY PrefixTop
  <2>2. PICK s : s = F * F * F * Slot OBVIOUS
  <2>3. /\ s \in Nat /\ LINER_MAPPING_BASE_VADDR = s * PAGE
        /\ LINER_MAPPING_BASE_VADDR \div PAGE = s /\ Slot \in Nat
    BY <2>2, SlotFacts
  <2>4. CASE c = DirectMapping
    <3>1. c.virt = LINER_MAPPING_BASE_VADDR /\ c.phys = 0 /\ c.size = LINER_MAPPING_SIZE
      BY <2>4 DEF DirectMapping, Mapping
    <3>2. n = F * F * F /\ v = s BY <1>2, <2>3, <3>1, DirectIsHuge
    <3>3. s <= p /\ p < s + F * F * F BY <1>8, <2>1, <2>2, <2>3, SlotRange
    <3>4. expected'[p] = Entry(c.phys + (p - v) * PAGE, c.attr) BY <1>6, <3>2, <3>3
    <3>5. expected'[p].addr = c.phys + (p - v) * PAGE BY <3>4 DEF Entry
    <3>6. 0 + (p - s) * PAGE = p * PAGE - s * PAGE BY <1>4, <2>1, <2>3
    <3> QED BY <2>3, <3>1, <3>2, <3>5, <3>6
  <2>5. CASE SmallCall(c) /\ c # DirectMapping
    <3>1. ~(v <= p /\ p < v + n)
      <4> SUFFICES ASSUME v <= p, p < v + n PROVE FALSE OBVIOUS
      <4>1. PICK k : k = p - v OBVIOUS
      <4>2. k \in 0 .. n /\ k < n /\ p = v + k BY <1>5, <2>1, <4>1
      <4>3. SmallRange(v, n) BY <1>2, <2>5 DEF SmallCall
      <4>4. Prefix(p, 3) \notin HugeSlots BY <4>2, <4>3 DEF SmallRange
      <4> QED BY <1>8, <4>4, HugeSlotFixed
    <3>2. \A j \in 1 .. Len(todo) : todo[j] # DirectMapping
      <4>1. PICK G : G = GoodCalls OBVIOUS
      <4>2. todo \in Seq(G) BY <4>1 DEF CallsInv
      <4>3. SUFFICES ASSUME NEW j \in 1 .. Len(todo) PROVE todo[j] # DirectMapping
        OBVIOUS
      <4>4. CASE j = 1
        <5>1. Head(todo) = todo[1] BY <1>1, <4>2
        <5>2. c = Head(todo) BY <1>1
        <5>3. c # DirectMapping BY <2>5
        <5> QED BY <4>4, <5>1, <5>2, <5>3, Zenon
      <4>5. CASE j # 1
        <5>1. j - 1 \in 1 .. Len(Tail(todo)) /\ Tail(todo)[j - 1] = todo[j]
          BY <1>1, <4>2, <4>3, <4>5
        <5> QED BY <1>1, <1>8, <5>1
      <4> QED BY <4>4, <4>5
    <3> QED BY <1>6, <1>8, <3>1, <3>2 DEF AgreeInv
  <2> QED BY <1>1, <2>4, <2>5
<1> QED BY <1>7, <1>8
===============================================================================
