----------------------------- MODULE PagingProofs -----------------------------
(***************************************************************************)
(* Proofs about Paging for every node size, page size and image: nodes are *)
(* never allocated twice, the tables of all tasks translate alike, and map *)
(* builds a tree that translates every page as the calls ask.              *)
(***************************************************************************)
EXTENDS PagingSteps, FiniteSetTheorems

(* The nodes are the first ones of the heap, without a gap.                *)
FirstNodes(n) == {HEAP + PAGE * k : k \in 0 .. n - 1}

NodesInv ==
  /\ IsFiniteSet(DOMAIN node)
  /\ DOMAIN node = FirstNodes(Cardinality(DOMAIN node))

(* The next table of the bump allocator is none of those handed out.       *)
LEMMA NextNodeIsNew ==
  ASSUME NEW n \in Nat
  PROVE  /\ HEAP + PAGE * n \notin FirstNodes(n)
         /\ FirstNodes(n + 1) = FirstNodes(n) \cup {HEAP + PAGE * n}
<1>1. HEAP \in Nat /\ PAGE \in Nat \ {0} BY PagingAssumption
<1>2. ASSUME NEW k \in 0 .. n - 1 PROVE HEAP + PAGE * k # HEAP + PAGE * n
  <2>1. k \in Nat /\ k < n BY <1>2
  <2>2. PAGE * k < PAGE * n BY <1>1, <2>1
  <2> QED BY <1>1, <2>1, <2>2
<1>3. 0 .. n + 1 - 1 = (0 .. n - 1) \cup {n} OBVIOUS
<1> QED BY <1>2, <1>3 DEF FirstNodes

(* A new table is one the tables do not use yet.                           *)
LEMMA NewNodeIsNew ==
  ASSUME NodesInv
  PROVE  FreshNode
<1> DEFINE n == Cardinality(DOMAIN node)
<1>1. n \in Nat BY FS_CardinalityType DEF NodesInv
<1>2. NewNode = HEAP + PAGE * n BY DEF NewNode
<1>3. DOMAIN node = FirstNodes(n) BY DEF NodesInv
<1>4. HEAP \in Nat /\ PAGE \in Nat BY PagingAssumption
<1> HIDE DEF n
<1> QED BY <1>1, <1>2, <1>3, <1>4, NextNodeIsNew DEF FreshNode

(* The same of the next state.                                             *)
LEMMA NextNodesNew == (NodesInv => FreshNode)'
<1>1. NodesInv => FreshNode BY NewNodeIsNew
<1> QED BY <1>1, PTL

(* Two tables agree on every entry that is present in one of them.         *)
Alike(t) ==
  \A i \in 0 .. F - 1 :
    IsPresent(node[t][i]) \/ IsPresent(node[root][i]) => node[t][i] = node[root][i]

CopiesInv ==
  /\ root \in DOMAIN node /\ tables \subseteq DOMAIN node
  /\ pc # "active" => tables = {}
  /\ \A t \in tables : Alike(t)

-----------------------------------------------------------------------------
(* Adding the node that NewNode names keeps the nodes in a row.            *)
LEMMA NodeAdded ==
  ASSUME NodesInv, DOMAIN node' = DOMAIN node \cup {NewNode}
  PROVE  NodesInv' /\ NewNode \notin DOMAIN node
<1> DEFINE n == Cardinality(DOMAIN node)
<1>1. n \in Nat BY FS_CardinalityType DEF NodesInv
<1>2. NewNode = HEAP + PAGE * n BY DEF NewNode
<1>3. DOMAIN node = FirstNodes(n) BY DEF NodesInv
<1>4. NewNode \notin DOMAIN node BY <1>1, <1>2, <1>3, NextNodeIsNew
<1>5. IsFiniteSet(DOMAIN node') /\ Cardinality(DOMAIN node') = n + 1
  BY <1>4, FS_AddElement DEF NodesInv
<1>6. DOMAIN node' = FirstNodes(n + 1) BY <1>1, <1>2, <1>3, NextNodeIsNew
<1> QED BY <1>4, <1>5, <1>6 DEF NodesInv, FirstNodes

(* get_or_alloc_next_level_table adds no node, or the one NewNode names.   *)
LEMMA GetOrAllocNodes ==
  ASSUME NEW i, NEW next_pc, GetOrAlloc(i, next_pc)
  PROVE  DOMAIN node' \in {DOMAIN node, DOMAIN node \cup {NewNode}}
<1>1. CASE IsPresent(node[op.node][i]) BY <1>1 DEF GetOrAlloc
<1>2. CASE ~IsPresent(node[op.node][i])
  <2>1. node' = WithNode([node EXCEPT ![op.node][i] =
                            Entry(NewNode, "ReadWriteExecuteKernel")],
                         NewNode, EmptyNode)
    BY <1>2 DEF GetOrAlloc
  <2> QED BY <2>1 DEF WithNode
<1> QED BY <1>1, <1>2

(* map and write_cr3, before any table is in use.                          *)
LEMMA MapStep ==
  ASSUME NodesInv, CopiesInv, Map
  PROVE  /\ DOMAIN node' \in {DOMAIN node, DOMAIN node \cup {NewNode}}
         /\ root' = root /\ tables = {}
         /\ tables' = {} \/ (tables' = {root} /\ pc' = "active")
<1>1. pc # "active"
  BY DEF Map, Begin, Walk, Rewalk, Fill, HugeWalk, HugeFill, MapDone, WriteCr3
<1>2. tables = {} BY <1>1 DEF CopiesInv
<1>3. root' = root
  BY DEF Map, Begin, Walk, Rewalk, Fill, HugeWalk, HugeFill, MapDone, WriteCr3
<1>4. tables' = tables \/ (tables' = {root} /\ pc' = "active")
  <2>1. CASE WriteCr3 BY <2>1 DEF WriteCr3
  <2>2. CASE Begin \/ Walk \/ Rewalk \/ Fill BY <2>2 DEF Begin, Walk, Rewalk, Fill
  <2>3. CASE HugeWalk \/ HugeFill \/ MapDone BY <2>3 DEF HugeWalk, HugeFill, MapDone
  <2> QED BY <2>1, <2>2, <2>3 DEF Map
<1>5. DOMAIN node' \in {DOMAIN node, DOMAIN node \cup {NewNode}}
  <2>1. CASE Walk \/ HugeWalk
    BY <2>1, GetOrAllocNodes DEF Walk, HugeWalk
  <2>2. CASE Begin \/ Rewalk \/ MapDone \/ WriteCr3
    <3>1. node' = node BY <2>2 DEF Begin, Rewalk, MapDone, WriteCr3
    <3> QED BY <3>1
  <2>3. CASE Fill \/ HugeFill
    <3>1. DOMAIN node' = DOMAIN node BY <2>3 DEF Fill, HugeFill
    <3> QED BY <3>1
  <2> QED BY <2>1, <2>2, <2>3 DEF Map
<1> QED BY <1>2, <1>3, <1>4, <1>5

(* The copy of a table that is like root's is like root's, and the others  *)
(* are not touched: the node of the copy is a new one.                     *)
LEMMA DuplicateStep ==
  ASSUME NodesInv, CopiesInv, NEW parent \in tables, DuplicateKernel(parent)
  PROVE  NodesInv' /\ CopiesInv'
<1> DEFINE new == NewNode
           copy == [i \in 0 .. F - 1 |-> IF IsPresent(node[parent][i])
                                          THEN node[parent][i] ELSE NotPresent]
<1>1. /\ node' = WithNode(node, new, copy)
      /\ tables' = tables \cup {new} /\ root' = root /\ pc' = pc /\ pc = "active"
  BY DEF DuplicateKernel
<1>2. DOMAIN node' = DOMAIN node \cup {new} BY <1>1 DEF WithNode
<1>3. NodesInv' /\ new \notin DOMAIN node BY <1>2, NodeAdded
<1>4. \A a \in DOMAIN node : node'[a] = node[a]
  <2> HIDE DEF new, copy
  <2> QED BY <1>1, <1>3 DEF WithNode
<1>5. node'[new] = copy
  <2> HIDE DEF new, copy
  <2> QED BY <1>1 DEF WithNode
<1>6. parent \in DOMAIN node /\ root \in DOMAIN node BY DEF CopiesInv
<1>7. Alike(parent) BY DEF CopiesInv
<1>8. ASSUME NEW t \in tables' PROVE Alike(t)'
  <2> SUFFICES ASSUME NEW i \in 0 .. F - 1,
                      IsPresent(node'[t][i]) \/ IsPresent(node[root][i])
               PROVE  node'[t][i] = node[root][i]
    BY <1>1, <1>4, <1>6 DEF Alike, IsPresent
  <2>1. CASE t \in tables BY <2>1, <1>4 DEF CopiesInv, Alike
  <2>2. CASE t = new
    <3>1. node'[t][i] = IF IsPresent(node[parent][i]) THEN node[parent][i]
                        ELSE NotPresent
      BY <2>2, <1>5
    <3>2. ~IsPresent(NotPresent) BY DEF IsPresent, NotPresent
    <3> HIDE DEF new, copy
    <3> QED BY <3>1, <3>2, <1>7 DEF Alike
  <2> QED BY <1>1, <2>1, <2>2
<1> HIDE DEF new
<1> QED BY <1>1, <1>2, <1>3, <1>6, <1>8, Zenon DEF CopiesInv

(* The invariant of the copies holds initially.                            *)
LEMMA PagingInit ==
  ASSUME Init
  PROVE  NodesInv /\ CopiesInv
<1>1. HEAP \in Nat /\ PAGE \in Nat \ {0} BY PagingAssumption
<1>2. /\ FirstNodes(0) = {} /\ FirstNodes(1) = {HEAP}
      /\ FirstNodes(3) = {HEAP, HEAP + PAGE, HEAP + 2 * PAGE}
  <2>1. 0 .. 0 - 1 = {} /\ 0 .. 1 - 1 = {0} /\ 0 .. 3 - 1 = {0, 1, 2} OBVIOUS
  <2>2. HEAP + PAGE * 0 = HEAP /\ HEAP + PAGE * 1 = HEAP + PAGE
        /\ HEAP + PAGE * 2 = HEAP + 2 * PAGE
    BY <1>1
  <2> QED BY <2>1, <2>2 DEF FirstNodes
<1>3. tables = {} BY DEF Init
<1>4. CASE booting = "loader"
  <2>1. node = WithNode(FirmwareNodes, CopiedPml4, FirmwareNode) /\ root = CopiedPml4
    BY <1>4 DEF Init
  <2>2. DOMAIN node = {HEAP, HEAP + PAGE, HEAP + 2 * PAGE}
    BY <2>1 DEF WithNode, FirmwareNodes, FirmwarePml4, FirmwarePdpt, CopiedPml4
  <2>3. HEAP # HEAP + PAGE /\ HEAP + 2 * PAGE \notin {HEAP, HEAP + PAGE} BY <1>1
  <2>4. IsFiniteSet({HEAP}) /\ Cardinality({HEAP}) = 1 BY FS_Singleton, Zenon
  <2>5. /\ IsFiniteSet({HEAP} \cup {HEAP + PAGE})
        /\ Cardinality({HEAP} \cup {HEAP + PAGE}) = 2
    BY <2>3, <2>4, FS_AddElement
  <2>6. /\ IsFiniteSet(({HEAP} \cup {HEAP + PAGE}) \cup {HEAP + 2 * PAGE})
        /\ Cardinality(({HEAP} \cup {HEAP + PAGE}) \cup {HEAP + 2 * PAGE}) = 3
    BY <2>3, <2>5, FS_AddElement
  <2>7. DOMAIN node = ({HEAP} \cup {HEAP + PAGE}) \cup {HEAP + 2 * PAGE}
    BY <2>2
  <2>8. NodesInv BY <1>2, <2>2, <2>6, <2>7 DEF NodesInv
  <2>9. root \in DOMAIN node BY <2>1, <2>2 DEF CopiedPml4
  <2> QED BY <1>3, <2>8, <2>9 DEF CopiesInv
<1>5. CASE booting # "loader"
  <2>1. node = [a \in {HEAP} |-> EmptyNode] /\ root = HEAP BY <1>5 DEF Init
  <2>2. DOMAIN node = {HEAP} BY <2>1
  <2>3. IsFiniteSet({HEAP}) /\ Cardinality({HEAP}) = 1 BY FS_Singleton, Zenon
  <2> QED BY <1>2, <1>3, <2>1, <2>2, <2>3 DEF NodesInv, CopiesInv
<1> QED BY <1>4, <1>5

(* Once the tables of the tasks are alike, the CPU finds the same entry in *)
(* the nodes below, which they share.                                      *)
LEMMA AlikeTranslates ==
  ASSUME CopiesInv, NEW t \in tables, NEW v \in Nat
  PROVE  Translate(t, v) = Translate(root, v)
<1> DEFINE i == Index(v, 4)
<1>1. i \in 0 .. F - 1
  <2>1. F \in Nat \ {0} /\ PAGE \in Nat \ {0} BY PagingAssumption
  <2>2. PAGE * F * F * F \in Nat \ {0}
    <3>1. PAGE * F \in Nat \ {0} BY <2>1
    <3> DEFINE x == PAGE * F
    <3> HIDE DEF x
    <3>2. x \in Nat \ {0} BY <3>1 DEF x
    <3>3. x * F \in Nat \ {0} BY <2>1, <3>2
    <3> DEFINE y == x * F
    <3>4. y \in Nat \ {0} BY <3>3
    <3> HIDE DEF y
    <3>5. y * F \in Nat \ {0} BY <2>1, <3>4
    <3> QED BY <3>5 DEF x, y
  <2> DEFINE s == PAGE * F * F * F
  <2>3. s \in Nat \ {0} BY <2>2
  <2>4. i = (v \div s) % F BY DEF Index, LevelSpan
  <2> HIDE DEF s, i
  <2>5. v \div s \in Int BY <2>3
  <2>6. (v \div s) % F \in 0 .. F - 1 BY <2>1, <2>5
  <2> QED BY <2>4, <2>6
<1>2. t \in DOMAIN node /\ root \in DOMAIN node /\ Alike(t) BY DEF CopiesInv
<1> DEFINE e == Lookup(t, i)
           r == Lookup(root, i)
<1>3. e = node[t][i] /\ r = node[root][i] BY <1>2 DEF Lookup
<1>4. IsPresent(e) \/ IsPresent(r) => e = r BY <1>1, <1>2, <1>3 DEF Alike
<1>5. CASE e = r BY <1>5 DEF Translate
<1>6. CASE ~IsPresent(e) /\ ~IsPresent(r)
  <2>1. Translate(t, v) = NotPresent BY <1>6 DEF Translate
  <2>2. Translate(root, v) = NotPresent BY <1>6 DEF Translate
  <2> QED BY <2>1, <2>2
<1> QED BY <1>4, <1>5, <1>6

PagingInv == NodesInv /\ CopiesInv

(* A new node is at an address where there is none.                        *)
THEOREM PagingInvariant == Spec => []PagingInv
<1>1. Init => PagingInv BY PagingInit DEF PagingInv
<1>2. PagingInv /\ [Next]_vars => PagingInv'
  <2> SUFFICES ASSUME NodesInv, CopiesInv, [Next]_vars PROVE NodesInv' /\ CopiesInv'
    BY DEF PagingInv
  <2>1. CASE Map
    <3>1. NodesInv'
      <4>1. CASE DOMAIN node' = DOMAIN node BY <4>1 DEF NodesInv, FirstNodes
      <4>2. CASE DOMAIN node' = DOMAIN node \cup {NewNode} BY <4>2, NodeAdded
      <4> QED BY <2>1, <4>1, <4>2, MapStep
    <3>2. root' \in DOMAIN node' BY <2>1, MapStep DEF CopiesInv
    <3>3. CASE tables' = {} BY <3>1, <3>2, <3>3 DEF CopiesInv
    <3>4. CASE tables' = {root} /\ pc' = "active"
      <4>1. root' = root BY <2>1, MapStep
      <4>2. Alike(root)' BY <4>1 DEF Alike
      <4>3. CopiesInv' BY <3>2, <3>4, <4>1, <4>2 DEF CopiesInv, Alike
      <4> QED BY <3>1, <4>3
    <3> QED BY <2>1, <3>1, <3>3, <3>4, MapStep
  <2>2. ASSUME NEW parent \in tables, DuplicateKernel(parent)
        PROVE  NodesInv' /\ CopiesInv'
    BY <2>2, DuplicateStep
  <2>3. CASE UNCHANGED vars
    BY <2>3 DEF vars, NodesInv, FirstNodes, CopiesInv, Alike, IsPresent
  <2> QED BY <2>1, <2>2, <2>3 DEF Next
<1> QED BY <1>1, <1>2, PTL DEF Spec

(* The table of every task, a copy of a copy included, translates as the   *)
(* idle task's does, for any page table the kernel may have built.         *)
THEOREM CopiesAlwaysTranslateAlike == Spec => []CopiesTranslateAlike
<1>1. PagingInv => CopiesTranslateAlike
  <2> SUFFICES ASSUME CopiesInv, NEW t \in tables, NEW p \in Pages
               PROVE  Translate(t, p * PAGE) = Translate(root, p * PAGE)
    BY DEF PagingInv, CopiesTranslateAlike
  <2>1. p * PAGE \in Nat
    <3>1. p \in Nat BY DEF Pages
    <3>2. PAGE \in Nat BY PagingAssumption
    <3> QED BY <3>1, <3>2
  <2> QED BY <2>1, AlikeTranslates
<1> QED BY <1>1, PagingInvariant, PTL

(* A table of zeroed entries.                                              *)
LEMMA EmptyIsNode ==
  /\ EmptyNode \in [0 .. F - 1 -> PageEntry]
  /\ \A i \in 0 .. F - 1 : EmptyNode[i] = NotPresent /\ ~IsPresent(EmptyNode[i])
<1>1. NotPresent \in PageEntry BY DEF NotPresent, PageEntry, Attr, IsPresent
<1>2. ~IsPresent(NotPresent) BY DEF NotPresent, IsPresent
<1> HIDE DEF PageEntry, NotPresent
<1> QED BY <1>1, <1>2 DEF EmptyNode

(* The kernel starts from an empty PML4.                                   *)
LEMMA KernelInit ==
  ASSUME node = [a \in {HEAP} |-> EmptyNode], root = HEAP, expected = Unmapped,
         booting = "kernel"
  PROVE  /\ \E lv, pf : Tree(lv, pf) /\ FirmwareKept(lv, pf)
         /\ \A p \in Pages : Translate(root, p * PAGE) = expected[p]
<1>1. DOMAIN node = {HEAP} /\ node[HEAP] = EmptyNode OBVIOUS
<1>2. PICK lv, pf : lv = [a \in {HEAP} |-> 4] /\ pf = [a \in {HEAP} |-> 0] BY Zenon
<1>3. Tree(lv, pf)
  <2>1. node \in [DOMAIN node -> [0 .. F - 1 -> PageEntry]]
    <3> HIDE DEF PageEntry, EmptyNode
    <3> QED BY <1>1, EmptyIsNode
  <2>2. lv \in [DOMAIN node -> 0 .. 4] /\ pf \in [DOMAIN node -> Nat] BY <1>1, <1>2
  <2>3. \A a \in DOMAIN node : lv[a] = 4 /\ pf[a] = 0 /\ a = HEAP BY <1>1, <1>2
  <2>4. \A a \in DOMAIN node, i \in 0 .. F - 1 : ~IsPresent(node[a][i])
    BY <1>1, EmptyIsNode
  <2>5. \A a \in DOMAIN node : \A i \in 0 .. F - 1 : LinksDown(lv, pf, a, i)
    BY <2>4 DEF LinksDown
  <2>6. root \in DOMAIN node BY <1>1
  <2>7. \A a \in DOMAIN node : lv[a] \notin 1 .. 3 BY <2>3
  <2> HIDE DEF PageEntry
  <2> QED BY <2>1, <2>2, <2>3, <2>5, <2>6, <2>7 DEF Tree
<1>4. FirmwareKept(lv, pf) BY DEF FirmwareKept
<1>5. ASSUME NEW p \in Pages PROVE Translate(root, p * PAGE) = expected[p]
  <2>1. p \in Nat /\ 4 \in 1 .. 4 BY PrefixTop
  <2>2. Index(p * PAGE, 4) \in 0 .. F - 1 BY <2>1, IndexIsDigit, PrefixType
  <2>3. ~IsPresent(Lookup(root, Index(p * PAGE, 4)))
    BY <1>1, <2>2, EmptyIsNode DEF Lookup
  <2>4. Translate(root, p * PAGE) = NotPresent BY <2>3 DEF Translate
  <2> QED BY <2>4 DEF Unmapped
<1> QED BY <1>3, <1>4, <1>5

(* The loader starts from a copy of the firmware's PML4.                   *)
LEMMA LoaderInit ==
  ASSUME node = WithNode(FirmwareNodes, CopiedPml4, FirmwareNode), root = CopiedPml4,
         expected = FirmwareMap, booting = "loader"
  PROVE  /\ \E lv, pf : Tree(lv, pf) /\ FirmwareKept(lv, pf)
         /\ \A p \in Pages : Translate(root, p * PAGE) = expected[p]
<1> DEFINE D == DOMAIN node
<1>1. PICK x, y, z : x = FirmwarePml4 /\ y = FirmwarePdpt /\ z = CopiedPml4 OBVIOUS
<1>2. /\ x \in Nat /\ y \in Nat /\ z \in Nat /\ x # y /\ x # z /\ y # z
      /\ F \in Nat \ {0} /\ 0 \in 0 .. F - 1
  BY <1>1, PagingAssumption DEF FirmwarePml4, FirmwarePdpt, CopiedPml4
<1>3. /\ D = {x, y, z} /\ node[x] = FirmwareNode /\ node[z] = FirmwareNode
      /\ node[y] = FirmwarePdptNode
  BY <1>1, <1>2 DEF WithNode, FirmwareNodes, FirmwarePdptNode
<1>4. PICK E : E = Entry(y, "ReadWriteExecuteKernel") OBVIOUS
<1>5. E \in PageEntry /\ IsPresent(E) /\ ~IsHuge(E) /\ E.addr = y
  BY <1>2, <1>4 DEF Entry, PageEntry, Attr, IsPresent, IsHuge
<1>6. /\ FirmwareNode \in [0 .. F - 1 -> PageEntry] /\ FirmwareNode[0] = E
      /\ \A i \in 0 .. F - 1 : i # 0 => ~IsPresent(FirmwareNode[i])
  <2> HIDE DEF PageEntry, EmptyNode
  <2> QED BY <1>1, <1>2, <1>4, <1>5, EmptyIsNode DEF FirmwareNode
<1>7. /\ FirmwarePdptNode \in [0 .. F - 1 -> PageEntry]
      /\ \A i \in 0 .. F - 1 : IsHuge(FirmwarePdptNode[i])
  <2>1. ASSUME NEW i \in 0 .. F - 1
        PROVE  /\ FirmwarePdptNode[i] \in PageEntry /\ IsHuge(FirmwarePdptNode[i])
    <3>1. FirmwarePdptNode[i] = Entry(i * HUGE, "ReadWriteKernel1GiB")
      BY DEF FirmwarePdptNode
    <3>2. i * HUGE \in Nat BY Sizes
    <3> HIDE DEF HUGE
    <3> QED BY <3>1, <3>2 DEF Entry, PageEntry, Attr, IsPresent, IsHuge
  <2>2. FirmwarePdptNode = [i \in 0 .. F - 1 |-> FirmwarePdptNode[i]]
    BY DEF FirmwarePdptNode
  <2> HIDE DEF PageEntry, FirmwarePdptNode
  <2> QED BY <2>1, <2>2
<1>8. PICK lv, pf : /\ lv = [a \in {x, y, z} |-> IF a = x THEN 0 ELSE IF a = y THEN 3 ELSE 4]
                    /\ pf = [a \in {x, y, z} |-> 0]
  BY Zenon
<1>9. /\ lv[x] = 0 /\ lv[y] = 3 /\ lv[z] = 4 /\ pf[x] = 0 /\ pf[y] = 0 /\ pf[z] = 0
      /\ lv \in [{x, y, z} -> 0 .. 4] /\ pf \in [{x, y, z} -> Nat]
  BY <1>2, <1>8
<1>10. 0 \in HugeSlots BY DEF HugeSlots
<1>11. Tree(lv, pf)
  <2>1. node \in [D -> [0 .. F - 1 -> PageEntry]]
    <3>1. \A a \in D : node[a] \in [0 .. F - 1 -> PageEntry] BY <1>3, <1>6, <1>7
    <3>2. node = [a \in D |-> node[a]] BY DEF WithNode
    <3> HIDE DEF PageEntry, D
    <3> QED BY <3>1, <3>2
  <2>2. lv \in [D -> 0 .. 4] /\ pf \in [D -> Nat] BY <1>3, <1>9
  <2>3. root = z /\ root \in D /\ lv[root] = 4 /\ pf[root] = 0 BY <1>1, <1>3, <1>9
  <2>4. \A a, b \in D : lv[a] = lv[b] /\ pf[a] = pf[b] /\ lv[a] # 0 => a = b
    BY <1>3, <1>9
  <2>5. ASSUME NEW i \in 0 .. F - 1 PROVE LinksDown(lv, pf, z, i)
    <3>1. CASE i = 0
      <4>1. node[z][i] = E BY <1>3, <1>6, <3>1
      <4>2. F * 0 + 0 = 0 BY <1>2
      <4> QED BY <1>3, <1>5, <1>9, <3>1, <4>1, <4>2 DEF LinksDown
    <3>2. CASE i # 0 BY <1>3, <1>6, <3>2 DEF LinksDown
    <3> QED BY <3>1, <3>2
  <2>6. ASSUME NEW i \in 0 .. F - 1 PROVE LinksDown(lv, pf, y, i)
    BY <1>3, <1>7, <1>9, <1>10 DEF LinksDown
  <2>7. \A a \in D : lv[a] \in 2 .. 4 => \A i \in 0 .. F - 1 : LinksDown(lv, pf, a, i)
    BY <1>3, <1>9, <2>5, <2>6
  <2>8. Points(lv, pf, z, 0, y)
    <3>1. F * 0 + 0 = 0 BY <1>2
    <3> QED BY <1>3, <1>5, <1>6, <1>9, <3>1 DEF Points
  <2>9. \A a \in D : lv[a] \in 1 .. 3 =>
          \E b \in D, i \in 0 .. F - 1 : Points(lv, pf, b, i, a)
    BY <1>2, <1>3, <1>9, <2>8
  <2> HIDE DEF PageEntry
  <2> QED BY <2>1, <2>2, <2>3, <2>4, <2>7, <2>9 DEF Tree
<1>12. FirmwareKept(lv, pf) BY <1>1, <1>3, <1>9 DEF FirmwareKept
<1>13. ASSUME NEW p \in Pages PROVE Translate(root, p * PAGE) = expected[p]
  <2>1. Translate(FirmwarePml4, p * PAGE) = FirmwareMap[p]
    BY <1>1, <1>3, FirmwareTranslates
  <2>2. \A i : Lookup(root, i) = Lookup(FirmwarePml4, i) BY <1>1, <1>3 DEF Lookup
  <2>3. Translate(root, p * PAGE) = Translate(FirmwarePml4, p * PAGE)
    BY <2>2, Zenon DEF Translate
  <2> QED BY <2>1, <2>3
<1> QED BY <1>11, <1>12, <1>13

TableInv == NodesInv /\ PageInv /\ CallsInv /\ AgreeInv

(* The invariant of the mapping holds initially.                           *)
LEMMA TableInit ==
  ASSUME Init, NodesInv
  PROVE  TableInv
<1>1. /\ booting \in {"loader", "kernel"} /\ pc = "idle" /\ op = Idle
  BY DEF Init
<1>2. PICK image \in Images :
        IF booting = "loader"
          THEN /\ todo = InitEarlyPaging(image)
               /\ node = WithNode(FirmwareNodes, CopiedPml4, FirmwareNode)
               /\ root = CopiedPml4 /\ expected = FirmwareMap
          ELSE /\ todo = InitPaging(image)
               /\ node = [a \in {HEAP} |-> EmptyNode]
               /\ root = HEAP /\ expected = Unmapped
  BY DEF Init
<1>3. Slot < F BY SlotBound
<1>4. ~Small /\ ~Huge BY <1>1 DEF Small, Huge
<1>5. Idle \in Op
  <2>1. "NotPresent" \in Attr /\ 0 \in 0 .. 4 /\ 0 \in Nat BY DEF Attr
  <2> QED BY <2>1, Zenon DEF Idle, Op
<1>6. OpInv BY <1>1, <1>3, <1>4, <1>5 DEF OpInv
<1>7. CallsInv BY <1>1, <1>2, ImageCalls DEF CallsInv
<1>8. /\ \E lv, pf : Tree(lv, pf) /\ FirmwareKept(lv, pf)
      /\ \A p \in Pages : Translate(root, p * PAGE) = expected[p]
  <2>1. CASE booting = "loader" BY <1>2, <2>1, LoaderInit
  <2>2. CASE booting = "kernel" BY <1>2, <2>2, KernelInit
  <2> QED BY <1>1, <2>1, <2>2
<1>9. TreeInv BY <1>1, <1>8 DEF TreeInv, Here
<1>10. MapInv BY <1>4, <1>8 DEF MapInv
<1>11. AgreeInv
  <2> SUFFICES ASSUME booting = "kernel"
               PROVE  /\ \A p \in Pages : ~IsPresent(expected[p])
                      /\ \E j \in 1 .. Len(todo) : todo[j] = DirectMapping
    BY <1>1 DEF AgreeInv
  <2>1. expected = Unmapped /\ todo = InitPaging(image) BY <1>2
  <2>2. Len(todo) = 5 /\ todo[1] = DirectMapping BY <2>1 DEF InitPaging
  <2> QED BY <2>1, <2>2 DEF Unmapped, NotPresent, IsPresent
<1>12. FreshNode BY NewNodeIsNew
<1> QED BY <1>6, <1>7, <1>9, <1>10, <1>11, <1>12 DEF TableInv, PageInv

(* Every step keeps the invariant of the mapping.                          *)
LEMMA TableStep ==
  ASSUME TableInv, PagingInv, NodesInv', [Next]_vars
  PROVE  TableInv'
<1>1. PageInv /\ CallsInv /\ AgreeInv BY DEF TableInv
<1>2. root \in Nat /\ tables \subseteq DOMAIN node
  <2>1. root \in DOMAIN node /\ tables \subseteq DOMAIN node
    BY DEF PagingInv, CopiesInv
  <2>2. PICK n : n = Cardinality(DOMAIN node) OBVIOUS
  <2>3. n \in Nat BY <2>2, FS_CardinalityType DEF PagingInv, NodesInv
  <2>4. root \in FirstNodes(n) BY <2>1, <2>2 DEF PagingInv, NodesInv
  <2>5. PICK k \in 0 .. n - 1 : root = HEAP + PAGE * k BY <2>4 DEF FirstNodes
  <2>6. HEAP \in Nat /\ PAGE \in Nat BY PagingAssumption
  <2>7. PAGE * k \in Nat BY <2>3, <2>5, <2>6
  <2> QED BY <2>1, <2>5, <2>6, <2>7
<1>3. ASSUME OpInv', TreeInv', MapInv', CallsInv', AgreeInv' PROVE TableInv'
  BY <1>3, NextNodesNew DEF TableInv, PageInv
<1>4. ASSUME booting' = booting, todo' = todo, expected' = expected,
             pc' = "active" => pc = "active" \/ todo = <<>>
      PROVE  CallsInv' /\ AgreeInv'
  <2>1. CallsInv' BY <1>1, <1>4, CallsNext
  <2>2. AgreeInv' BY <1>1, <1>4 DEF AgreeInv
  <2> QED BY <2>1, <2>2
<1>5. CASE Begin
  <2>1. OpInv' /\ TreeInv' /\ MapInv' BY <1>1, <1>2, <1>5, BeginStep
  <2>2. booting' = booting /\ todo' = Tail(todo) /\ todo # <<>>
    BY <1>1, <1>5, BeginFacts
  <2>3. CallsInv' BY <1>1, <2>2, CallsNext
  <2>4. AgreeInv' BY <1>1, <1>5, BeginAgrees
  <2> QED BY <1>3, <2>1, <2>3, <2>4
<1>6. CASE Walk
  <2>1. OpInv' /\ TreeInv' /\ MapInv' BY <1>1, <1>6, WalkStep
  <2>2. booting' = booting /\ todo' = todo /\ expected' = expected /\ pc' # "active"
    BY <1>6 DEF Walk, GetOrAlloc
  <2> QED BY <1>3, <1>4, <2>1, <2>2
<1>7. CASE Rewalk
  <2>1. OpInv' /\ TreeInv' /\ MapInv' BY <1>1, <1>2, <1>7, RewalkStep
  <2>2. booting' = booting /\ todo' = todo /\ expected' = expected /\ pc' # "active"
    BY <1>7 DEF Rewalk
  <2> QED BY <1>3, <1>4, <2>1, <2>2
<1>8. CASE Fill
  <2>1. OpInv' /\ TreeInv' /\ MapInv' BY <1>1, <1>8, FillStep
  <2>2. booting' = booting /\ todo' = todo /\ expected' = expected /\ pc' # "active"
    BY <1>8 DEF Fill
  <2> QED BY <1>3, <1>4, <2>1, <2>2
<1>9. CASE HugeWalk
  <2>1. OpInv' /\ TreeInv' /\ MapInv' BY <1>1, <1>9, HugeWalkStep
  <2>2. booting' = booting /\ todo' = todo /\ expected' = expected /\ pc' # "active"
    BY <1>9 DEF HugeWalk, GetOrAlloc
  <2> QED BY <1>3, <1>4, <2>1, <2>2
<1>10. CASE HugeFill
  <2>1. OpInv' /\ TreeInv' /\ MapInv' BY <1>1, <1>10, HugeFillStep
  <2>2. booting' = booting /\ todo' = todo /\ expected' = expected /\ pc' # "active"
    BY <1>10 DEF HugeFill
  <2> QED BY <1>3, <1>4, <2>1, <2>2
<1>11. CASE MapDone
  <2>1. OpInv' /\ TreeInv' /\ MapInv' BY <1>1, <1>11, MapDoneStep
  <2>2. booting' = booting /\ todo' = todo /\ expected' = expected /\ pc' # "active"
    BY <1>11 DEF MapDone
  <2> QED BY <1>3, <1>4, <2>1, <2>2
<1>12. CASE WriteCr3
  <2>1. OpInv' /\ TreeInv' /\ MapInv' BY <1>1, <1>12, WriteCr3Step
  <2>2. booting' = booting /\ todo' = todo /\ expected' = expected /\ todo = <<>>
    BY <1>12 DEF WriteCr3
  <2> QED BY <1>3, <1>4, <2>1, <2>2
<1>13. ASSUME NEW parent \in tables, DuplicateKernel(parent) PROVE TableInv'
  <2>1. OpInv' /\ TreeInv' /\ MapInv' BY <1>1, <1>2, <1>13, DuplicatePageStep
  <2>2. booting' = booting /\ todo' = todo /\ expected' = expected /\ pc = "active"
    BY <1>13 DEF DuplicateKernel
  <2> QED BY <1>3, <1>4, <2>1, <2>2
<1>14. CASE UNCHANGED vars
  <2>1. /\ booting' = booting /\ node' = node /\ root' = root /\ todo' = todo /\ pc' = pc
        /\ op' = op /\ before' = before /\ expected' = expected
    BY <1>14 DEF vars
  <2>2. CallsInv' /\ AgreeInv' BY <1>4, <2>1
  <2>3. SameCall BY <2>1 DEF SameCall
  <2>4. /\ VPage' = VPage /\ HugeSlots' = HugeSlots
        /\ \A p, n : Within(p, n)' <=> Within(p, n)
        /\ \A p : Asked(p)' = Asked(p)
        /\ \A v, n : SmallRange(v, n)' <=> SmallRange(v, n)
    BY <2>3, CallFrame
  <2>5. (Small' <=> Small) /\ (Huge' <=> Huge) BY <2>1 DEF Small, Huge
  <2>6. OpInv' BY <1>1, <2>1, <2>4, <2>5, Zenon DEF PageInv, OpInv
  <2>7. \A q : Translate(root, q)' = Translate(root, q) BY <2>1, SameNodes
  <2>8. MapInv' BY <1>1, <2>1, <2>4, <2>5, <2>7, Zenon DEF PageInv, MapInv, Mapped
  <2>9. TreeInv'
    <3>1. PICK lv, pf : Tree(lv, pf) /\ Here(lv, pf) /\ FirmwareKept(lv, pf)
      BY <1>1 DEF PageInv, TreeInv
    <3>2. Tree(lv, pf)' /\ FirmwareKept(lv, pf)'
      BY <2>1, <3>1, SameTree
    <3>3. NeedsWalk' <=> NeedsWalk BY <2>1 DEF NeedsWalk, FillIndex
    <3>4. Here(lv, pf)' BY <2>1, <2>4, <3>1, <3>3, Zenon DEF Here, OnPath
    <3> QED BY <3>2, <3>4 DEF TreeInv
  <2> QED BY <1>3, <2>2, <2>6, <2>8, <2>9
<1> QED BY <1>5, <1>6, <1>7, <1>8, <1>9, <1>10, <1>11, <1>12, <1>13, <1>14 DEF Next, Map

(* The inductive invariant.                                                *)
THEOREM TableInvariant == Spec => []TableInv
<1>1. Init => TableInv BY PagingInit, TableInit
<1>2. PagingInv /\ PagingInv' /\ TableInv /\ [Next]_vars => TableInv'
  BY TableStep DEF PagingInv
<1> QED BY <1>1, <1>2, PagingInvariant, PTL DEF Spec

(* For every image that satisfies ImageAssumption, map never takes a huge page *)
(* for a table, never indexes past a PDPT and never trips over its asserts. *)
THEOREM NeverWalksWild == Spec => []NoWildWalk
<1>1. TableInv => NoWildWalk BY DEF TableInv, PageInv, OpInv, NoWildWalk
<1> QED BY <1>1, TableInvariant, PTL

(* Between calls of map every page translates exactly as the calls made so far *)
(* ask, for every image, node size and page size.                          *)
THEOREM AlwaysMappedAsAsked == Spec => []MappedAsAsked
<1>1. TableInv => MappedAsAsked
  BY DEF TableInv, PageInv, MapInv, Small, Huge, MappedAsAsked
<1> QED BY <1>1, TableInvariant, PTL

(* At every moment of a call a page translates as before the call or as it is to *)
(* after it, and the table in use while the loader builds its own stays as it is. *)
THEOREM NothingElseEverTouched == Spec => []NothingElseTouched
<1>1. ASSUME TableInv, NEW p \in Pages
      PROVE  /\ Translate(root, p * PAGE) \in {before[p], expected[p]}
             /\ booting = "loader" =>
                  Translate(FirmwarePml4, p * PAGE) = FirmwareMap[p]
  <2>1. OpInv /\ MapInv /\ TreeInv /\ op \in Op
    BY <1>1, Zenon DEF TableInv, PageInv, OpInv
  <2>2. booting = "loader" => Translate(FirmwarePml4, p * PAGE) = FirmwareMap[p]
    BY <2>1, FirmwareTranslates, Zenon DEF TreeInv, FirmwareKept
  <2>3. PICK v, i, n : v = VPage /\ i = op.i /\ n = op.pages OBVIOUS
  <2>4. p \in Nat /\ i \in Nat /\ n \in Nat BY <2>1, <2>3, PrefixTop DEF Op
  <2>5. CASE Small
    <3>1. Translate(root, p * PAGE) = IF Within(p, i) THEN Asked(p) ELSE before[p]
      BY <2>1, <2>3, <2>5 DEF MapInv, Mapped
    <3>2. expected[p] = IF Within(p, n) THEN Asked(p) ELSE before[p]
      BY <2>1, <2>3, <2>5 DEF OpInv
    <3>3. v \in Nat /\ i <= n BY <2>1, <2>3, <2>5, VaddrIsPage DEF OpInv
    <3>4. Within(p, i) => Within(p, n) BY <2>3, <2>4, <3>3 DEF Within
    <3> QED BY <3>1, <3>2, <3>4, <2>2, Zenon
  <2>6. CASE Huge
    <3>1. Translate(root, p * PAGE) = IF Within(p, i * F * F) THEN Asked(p) ELSE before[p]
      BY <2>1, <2>3, <2>6 DEF MapInv, Mapped
    <3>2. expected[p] = IF Within(p, n) THEN Asked(p) ELSE before[p]
      BY <2>1, <2>3, <2>6 DEF OpInv
    <3>3. v \in Nat /\ i <= F /\ n = F * F * F
      BY <2>1, <2>3, <2>6, VaddrIsPage DEF OpInv
    <3>4. PICK m, k : m = F * F /\ k = i * F * F OBVIOUS
    <3>5. m \in Nat /\ F \in Nat /\ k = i * m /\ n = F * m
      BY <2>4, <3>3, <3>4, Spans
    <3>6. k \in Nat /\ k <= n BY <2>4, <3>3, <3>5
    <3>7. Within(p, k) => Within(p, n) BY <2>3, <2>4, <3>3, <3>6 DEF Within
    <3> QED BY <3>1, <3>2, <3>4, <3>7, <2>2
  <2>7. CASE ~Small /\ ~Huge BY <2>1, <2>2, <2>7, Zenon DEF MapInv
  <2> QED BY <2>5, <2>6, <2>7
<1>2. TableInv => NothingElseTouched BY <1>1 DEF NothingElseTouched
<1> QED BY <1>2, TableInvariant, PTL

(* The entries of the nodes of one level.                                  *)
EntriesAt(lv, l) == {x \in (DOMAIN node) \X (0 .. F - 1) : lv[x[1]] = l}

(* Entry x, of level l, points to the table for the pages of x.            *)
LeadsDown(lv, pf, x, l) ==
  LET a == node[x[1]][x[2]].addr
  IN  a \in DOMAIN node /\ lv[a] = l - 1 /\ pf[a] = F * pf[x[1]] + x[2]

(* A link of a level leads to the table of the next level it is the only link to. *)
LEMMA LinkLeads ==
  ASSUME NEW lv, NEW pf, Tree(lv, pf)
  PROVE  \A l \in 2 .. 4 : \A x \in EntriesAt(lv, l) :
           IsLink(x) => LeadsDown(lv, pf, x, l)
<1> SUFFICES ASSUME NEW l \in 2 .. 4, NEW x \in EntriesAt(lv, l), IsLink(x)
             PROVE  LeadsDown(lv, pf, x, l)
  OBVIOUS
<1>1. PICK a, i : a = x[1] /\ i = x[2] OBVIOUS
<1>2. a \in DOMAIN node /\ i \in 0 .. F - 1 /\ lv[a] = l BY <1>1 DEF EntriesAt
<1>3. LinksDown(lv, pf, a, i) BY <1>2 DEF Tree
<1>4. IsPresent(node[a][i]) /\ ~IsHuge(node[a][i]) BY <1>1 DEF IsLink
<1> QED BY <1>1, <1>2, <1>3, <1>4, Zenon DEF LinksDown, LeadsDown

(* The entries that point to tables are in nodes of the tree.              *)
LEMMA TableEntriesAt ==
  ASSUME NEW lv, NEW pf, Tree(lv, pf), NEW d \in TableEntries(root)
  PROVE  \E l \in 2 .. 4 : d \in EntriesAt(lv, l) /\ IsLink(d) /\ LeadsDown(lv, pf, d, l)
<1> DEFINE Fourth == {<<root, i>> : i \in 0 .. F - 1}
<1>1. Fourth \subseteq EntriesAt(lv, 4) BY DEF Tree, EntriesAt
<1> HIDE DEF Fourth
<1>2. ASSUME NEW l \in 2 .. 4, NEW es \in SUBSET EntriesAt(lv, l), NEW z \in EntriesBelow(es)
      PROVE  z \in EntriesAt(lv, l - 1)
  <2>1. PICK x \in es, i \in 0 .. F - 1 :
          z = <<node[x[1]][x[2]].addr, i>> /\ IsLink(x)
    BY <1>2 DEF EntriesBelow
  <2>2. LeadsDown(lv, pf, x, l) BY <1>2, <2>1, LinkLeads
  <2> QED BY <2>1, <2>2, Zenon DEF LeadsDown, EntriesAt
<1>3. 4 \in 2 .. 4 /\ 3 \in 2 .. 4 /\ 2 \in 2 .. 4 /\ 4 - 1 = 3 /\ 3 - 1 = 2 OBVIOUS
<1>4. EntriesBelow(Fourth) \subseteq EntriesAt(lv, 3)
  <2>1. \A z \in EntriesBelow(Fourth) : z \in EntriesAt(lv, 4 - 1) BY <1>1, <1>2, <1>3
  <2> QED BY <1>3, <2>1
<1>5. EntriesBelow(EntriesBelow(Fourth)) \subseteq EntriesAt(lv, 2)
  <2>1. \A z \in EntriesBelow(EntriesBelow(Fourth)) : z \in EntriesAt(lv, 3 - 1)
    BY <1>2, <1>3, <1>4
  <2> QED BY <1>3, <2>1
<1>6. \E l \in 2 .. 4 : d \in EntriesAt(lv, l) /\ IsLink(d)
  <2>1. d \in Fourth \cup EntriesBelow(Fourth) \cup EntriesBelow(EntriesBelow(Fourth))
        /\ IsLink(d)
    BY DEF TableEntries, Fourth
  <2> QED BY <1>1, <1>3, <1>4, <1>5, <2>1
<1> QED BY <1>6, LinkLeads

(* The tables below the PML4 form a tree: get_or_alloc_next_level_table links no *)
(* node in twice, so no two regions share a page table.                    *)
THEOREM TablesAlwaysFormTree == Spec => []TablesFormTree
<1>1. ASSUME TableInv, NEW d \in TableEntries(root), NEW e \in TableEntries(root),
             node[d[1]][d[2]].addr = node[e[1]][e[2]].addr
      PROVE  d = e
  <2>1. PICK lv, pf : Tree(lv, pf) BY <1>1 DEF TableInv, PageInv, TreeInv
  <2>2. PICK l \in 2 .. 4 : d \in EntriesAt(lv, l) /\ LeadsDown(lv, pf, d, l)
    BY <2>1, TableEntriesAt
  <2>3. PICK m \in 2 .. 4 : e \in EntriesAt(lv, m) /\ LeadsDown(lv, pf, e, m)
    BY <2>1, TableEntriesAt
  <2>4. PICK x : x = node[d[1]][d[2]].addr /\ x = node[e[1]][e[2]].addr BY <1>1
  <2>5. lv[x] = l - 1 /\ pf[x] = F * pf[d[1]] + d[2] BY <2>2, <2>4, Zenon DEF LeadsDown
  <2>6. lv[x] = m - 1 /\ pf[x] = F * pf[e[1]] + e[2] BY <2>3, <2>4, Zenon DEF LeadsDown
  <2>7. l = m BY <2>5, <2>6
  <2>8. /\ d[1] \in DOMAIN node /\ d[2] \in 0 .. F - 1 /\ lv[d[1]] = l
        /\ e[1] \in DOMAIN node /\ e[2] \in 0 .. F - 1 /\ lv[e[1]] = m
        /\ d = <<d[1], d[2]>> /\ e = <<e[1], e[2]>>
    BY <2>2, <2>3 DEF EntriesAt
  <2>9. /\ pf[d[1]] \in Nat /\ pf[e[1]] \in Nat
        /\ \A a, b \in DOMAIN node : lv[a] = lv[b] /\ pf[a] = pf[b] /\ lv[a] # 0 => a = b
    BY <2>1, <2>8 DEF Tree
  <2>10. pf[d[1]] = pf[e[1]] /\ d[2] = e[2]
    <3>1. F \in Nat \ {0} BY PagingAssumption
    <3> QED BY <2>5, <2>6, <2>8, <2>9, <3>1, DigitsUnique
  <2>11. d[1] = e[1] BY <2>7, <2>8, <2>9, <2>10
  <2> QED BY <2>8, <2>10, <2>11
<1>2. TableInv => TablesFormTree BY <1>1 DEF TablesFormTree
<1> QED BY <1>2, TableInvariant, PTL

(* The heap the nodes come from lies in the memory that is mapped directly.*)
HeapDirectMapped == \A n \in DOMAIN node : n < LINER_MAPPING_SIZE

(* As long as the nodes lie in the memory the direct mapping covers, virt_to_phys *)
(* and phys_to_virt say what the CPU translates.                           *)
THEOREM SoftwareAlwaysAgrees == Spec => [](HeapDirectMapped => SoftwareAgrees)
<1>1. ASSUME TableInv, HeapDirectMapped, booting = "kernel", pc = "active"
      PROVE  SoftwareAgrees
  <2>1. /\ MapInv /\ AgreeInv /\ NodesInv /\ ~Small /\ ~Huge /\ todo = <<>> /\ Slot < F
    BY <1>1, Zenon DEF TableInv, PageInv, OpInv, AgreeInv, Small, Huge
  <2>2. \A p \in Pages : Translate(root, p * PAGE) = expected[p] BY <2>1 DEF MapInv
  <2>3. \A p \in Pages : p * PAGE >= LINER_MAPPING_BASE_VADDR /\ IsPresent(expected[p]) =>
          expected[p].addr = VirtToPhys(p * PAGE)
    BY <1>1, <2>1 DEF AgreeInv
  <2>4. \A p \in Pages : Prefix(p, 3) = Slot =>
          expected[p].addr = p * PAGE - LINER_MAPPING_BASE_VADDR
    <3>1. \A j \in 1 .. Len(todo) : todo[j] # DirectMapping BY <2>1
    <3> QED BY <1>1, <2>1, <3>1 DEF AgreeInv
  <2>5. ASSUME NEW n \in DOMAIN node
        PROVE  Translate(root, LINER_MAPPING_BASE_VADDR + n).addr = n
    <3>1. PICK s, b : s = F * F * F * Slot /\ b = LINER_MAPPING_BASE_VADDR OBVIOUS
    <3>2. s \in Nat /\ b = s * PAGE /\ Slot \in Nat /\ PAGE \in Nat \ {0} /\ b \in Nat
      BY <3>1, SlotFacts, PagingAssumption
    <3>3. PICK h : h \in Nat /\ n = h * PAGE
      <4>1. PICK c : c = Cardinality(DOMAIN node) OBVIOUS
      <4>2. n \in FirstNodes(c) /\ c \in Nat
        BY <2>1, <4>1, FS_CardinalityType DEF NodesInv
      <4>3. PICK k \in 0 .. c - 1 : n = HEAP + PAGE * k BY <4>2 DEF FirstNodes
      <4>4. HEAP \in Nat /\ HEAP % PAGE = 0 BY PagingAssumption
      <4>5. PICK g : g = HEAP \div PAGE OBVIOUS
      <4>6. g \in Nat /\ HEAP = g * PAGE BY <3>2, <4>4, <4>5, Aligned
      <4>7. g + k \in Nat /\ n = (g + k) * PAGE BY <3>2, <4>2, <4>3, <4>6
      <4> QED BY <4>7
    <3>4. h < F * F * F
      <4>1. PICK m : m = F * F * F OBVIOUS
      <4>2. m \in Nat /\ LINER_MAPPING_SIZE = m * PAGE
        <5>1. m \in Nat /\ LINER_MAPPING_SIZE = PAGE * m BY <4>1, Spans, Sizes
        <5> QED BY <3>2, <5>1
      <4>3. h * PAGE < m * PAGE BY <1>1, <2>5, <3>3, <4>2 DEF HeapDirectMapped
      <4> QED BY <3>3, <4>1, <4>2, <4>3, Scaled
    <3>5. PICK p : p = s + h OBVIOUS
    <3>6. F * F * F \in Nat /\ F * F * F * F \in Nat BY Spans
    <3>7. p \in Nat /\ Prefix(p, 3) = Slot
      <4>1. p \in Nat /\ s <= p /\ p < s + F * F * F BY <3>2, <3>3, <3>4, <3>5, <3>6
      <4> QED BY <3>1, <3>2, <4>1, SlotRange
    <3>8. p \in Pages
      <4>1. PICK m : m = F * F * F OBVIOUS
      <4>2. F \in Nat /\ m \in Nat /\ s = m * Slot /\ F * F * F * F = m * F
        BY <3>1, <3>2, <3>6, <4>1, Spans
      <4>3. m * (Slot + 1) <= m * F BY <2>1, <3>2, <4>2
      <4>4. m * (Slot + 1) = m * Slot + m BY <3>2, <4>2
      <4> QED BY <3>2, <3>3, <3>4, <3>5, <3>6, <3>7, <4>1, <4>2, <4>3, <4>4 DEF Pages
    <3>9. p * PAGE = b + n BY <3>2, <3>3, <3>5
    <3>10. Translate(root, p * PAGE).addr = p * PAGE - b
      BY <2>2, <2>4, <3>1, <3>7, <3>8
    <3>11. n \in Nat BY <3>2, <3>3
    <3> QED BY <3>1, <3>2, <3>9, <3>10, <3>11
  <2> QED BY <2>2, <2>3, <2>5 DEF SoftwareAgrees
<1>2. TableInv => (HeapDirectMapped => SoftwareAgrees) BY <1>1 DEF SoftwareAgrees
<1> QED BY <1>2, TableInvariant, PTL
===============================================================================
