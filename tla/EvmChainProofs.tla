--------------------------- MODULE EvmChainProofs ---------------------------
(***************************************************************************)
(* Lemmas about EvmChain for the theorems of the modules over it.          *)
(***************************************************************************)
EXTENDS EvmChain, Induction, SequenceTheorems, TLAPS

LEMMA ChainInitType == ChainInit => ChainTypeOK
  BY ChainAssumption DEF ChainInit, ChainTypeOK, Blocks, Effects, Hash, EmptyHash

LEMMA ChildType ==
  ASSUME ChainTypeOK, Len(block) < MaxBlocks, NEW n \in 1..Height, NEW log \in Effects
  PROVE  Child(n, log) \in Blocks
<1>1. chain[n] \in 1..Len(block) /\ Len(chain) <= Len(block) /\ Len(block) \in Nat /\ n \in Nat
  BY DEF ChainTypeOK, Height
<1>2. block[chain[n]] \in Blocks
  BY <1>1 DEF ChainTypeOK
<1>3. StateAt(n) \in Hash
  BY <1>2 DEF StateAt, Blocks
<1> QED
  BY <1>1, <1>3, ChainAssumption DEF Child, Blocks, Hash, EmptyHash, Height

LEMMA ChainSame ==
  ASSUME ChainTypeOK, UNCHANGED chainVars
  PROVE  ChainTypeOK' /\ Height' = Height
  BY DEF ChainTypeOK, chainVars, Height

LEMMA GrowType ==
  ASSUME ChainTypeOK, NEW n \in 1..Height, NEW log \in Effects, Grow(n, log)
  PROVE  /\ ChainTypeOK'
         /\ Height' = n + 1
<1>1. Child(n, log) \in Blocks
  BY ChildType DEF Grow
<1>2. block' \in Seq(Blocks) /\ Len(block') = Len(block) + 1
  BY <1>1 DEF Grow, ChainTypeOK
<1>3. SubSeq(chain, 1, n) \in Seq(1..Len(block')) /\ Len(SubSeq(chain, 1, n)) = n
  <2>1. \A i \in 1..n : chain[i] \in 1..Len(block')
    BY <1>2 DEF ChainTypeOK, Height
  <2>2. chain \in Seq(1..Len(block'))
    BY <1>2, SeqMonotonic, 1..Len(block) \subseteq 1..Len(block') DEF ChainTypeOK
  <2> QED
    BY <2>2 DEF Height
<1>4. chain' \in Seq(1..Len(block')) /\ Len(chain') = n + 1
  BY <1>2, <1>3 DEF Grow, ChainTypeOK
<1>5. Len(chain') \in 1..Len(block') /\ Len(block') \in 1..MaxBlocks
  BY <1>2, <1>4, ChainAssumption DEF Grow, ChainTypeOK, Height
<1> QED
  BY <1>2, <1>4, <1>5 DEF Grow, ChainTypeOK, Height

LEMMA ReturnType ==
  ASSUME ChainTypeOK, NEW h \in Hash, Return(h)
  PROVE  /\ ChainTypeOK'
         /\ Height' = Height
  BY DEF Return, ChainTypeOK, Height

LEMMA DroppedType ==
  ASSUME ChainTypeOK, NEW n \in 0..Height
  PROVE  Dropped(n) \in Seq(Logs)
<1>1. \A i \in 1..(Height - n) : chain[Height + 1 - i] \in 1..Len(block)
  BY DEF ChainTypeOK, Height
<1>2. ASSUME NEW h \in 1..Len(block) PROVE Log(h, TRUE) \in Logs
  <2>1. block[h] \in Blocks /\ h \in Hash
    BY ChainAssumption DEF ChainTypeOK, Hash
  <2> QED
    BY <2>1 DEF Log, Logs, Blocks
<1>3. Height - n \in Nat
  BY DEF ChainTypeOK, Height
<1>4. Dropped(n) \in [1..(Height - n) -> Logs]
  BY <1>1, <1>2 DEF Dropped
<1> QED
  BY <1>3, <1>4, SeqDef

LEMMA NoticesType ==
  ASSUME ChainTypeOK, NEW n \in 0..Height, NEW h \in Hash, NEW b \in Blocks
  PROVE  Notices(n, h, b) \in Seq(Logs)
<1>1. [num |-> b.num, hash |-> h, pool |-> TRUE, removed |-> FALSE] \in Logs
  BY DEF Blocks, Logs
<1> QED
  BY <1>1, DroppedType DEF Notices

LEMMA StateAtType ==
  ASSUME ChainTypeOK, NEW n \in 1..Height
  PROVE  StateAt(n) \in Hash /\ chain[n] \in 1..Len(block) /\ chain[n] \in Hash
<1>1. chain[n] \in 1..Len(block) /\ chain[n] \in Hash
  BY ChainAssumption DEF ChainTypeOK, Height, Hash
<1>2. block[chain[n]] \in Blocks
  BY <1>1 DEF ChainTypeOK
<1> QED
  BY <1>1, <1>2 DEF StateAt, Blocks

\* A new block leaves old blocks as they are, and makes no old hash canonical.
LEMMA ChainKeeps ==
  ASSUME ChainTypeOK, NEW n \in 1..Height, NEW log \in Effects, Grow(n, log),
         NEW h \in 1..Len(block), NEW m \in Nat \ {0}
  PROVE  /\ h \in 1..Len(block') /\ block'[h] = block[h]
         /\ (m <= Len(chain') /\ chain'[m] = h) => m <= Len(chain) /\ chain[m] = h
<1>1. block' = Append(block, Child(n, log)) /\ block \in Seq(Blocks) /\ Child(n, log) \in Blocks
  BY ChildType DEF Grow, ChainTypeOK
<1>2. h \in 1..Len(block') /\ block'[h] = block[h]
  BY <1>1
<1>3. /\ chain \in Seq(1..Len(block)) /\ n \in 1..Len(chain)
      /\ chain' = Append(SubSeq(chain, 1, n), Len(block) + 1)
  BY DEF Grow, ChainTypeOK, Height
<1>4. /\ Len(chain') = n + 1 /\ chain'[n + 1] = Len(block) + 1
      /\ \A i \in 1..n : chain'[i] = chain[i]
  BY <1>3 DEF ChainTypeOK
<1>5. ASSUME m <= Len(chain'), chain'[m] = h PROVE m <= Len(chain) /\ chain[m] = h
  <2>1. m \in 1..(n + 1) /\ chain'[m] = h
    BY <1>4, <1>5
  <2>2. m # n + 1
    BY <1>4, <2>1 DEF ChainTypeOK
  <2> QED
    BY <1>3, <1>4, <2>1, <2>2
<1> QED
  BY <1>2, <1>5

-----------------------------------------------------------------------------
(* Branches: a block with its ancestors. *)

\* Parents are older, and one number below.
Tree(b) ==
    \A x \in 1..Len(b) :
       /\ b[x].parent \in 0..(x - 1)
       /\ b[x].num = IF b[x].parent = EmptyHash THEN 1 ELSE b[b[x].parent].num + 1

\* The blocks from the first one to h.
Line(b, h) ==
    LET line[x \in 0..h] == IF x = EmptyHash THEN {} ELSE {x} \cup line[b[x].parent]
    IN  line[h]

\* Block h is canonical in chain c.
On(c, b, h) == b[h].num <= Len(c) /\ c[b[h].num] = h

\* The canonical blocks, from the first one on, are each the parent of the next.
Chained(c, b) ==
    \A n \in 1..Len(c) :
       /\ c[n] \in 1..Len(b) /\ b[c[n]].num = n
       /\ b[c[n]].parent = IF n = 1 THEN EmptyHash ELSE c[n - 1]

\* One recursion for the branches of all blocks.
LEMMA LineExists ==
  ASSUME NEW b, Len(b) \in Nat, Tree(b)
  PROVE  \E f \in [0..Len(b) -> SUBSET Nat] :
            \A x \in 0..Len(b) : f[x] = IF x = EmptyHash THEN {} ELSE {x} \cup f[b[x].parent]
<1> DEFINE Made(f, k) == \A x \in 0..k : f[x] = IF x = EmptyHash THEN {} ELSE {x} \cup f[b[x].parent]
           S == {k \in Nat : k <= Len(b) => \E f \in [0..k -> SUBSET Nat] : Made(f, k)}
<1>1. 0 \in S
  <2> DEFINE g == [x \in 0..0 |-> {}]
  <2>1. g \in [0..0 -> SUBSET Nat]
    OBVIOUS
  <2>2. Made(g, 0)
    BY DEF EmptyHash
  <2> QED
    BY <2>1, <2>2
<1>2. ASSUME NEW k \in Nat, k \in S PROVE k + 1 \in S
  <2>m. k + 1 \in Nat
    OBVIOUS
  <2> SUFFICES ASSUME k + 1 <= Len(b) PROVE \E f \in [0..(k + 1) -> SUBSET Nat] : Made(f, k + 1)
    <3> HIDE DEF Made
    <3> QED
      BY <2>m
  <2>0. k <= Len(b)
    OBVIOUS
  <2>1. PICK f \in [0..k -> SUBSET Nat] : Made(f, k)
    <3> HIDE DEF Made
    <3> QED
      BY <1>2, <2>0
  <2> DEFINE top == {k + 1} \cup f[b[k + 1].parent]
             g == [x \in 0..(k + 1) |-> IF x = k + 1 THEN top ELSE f[x]]
  <2>2. b[k + 1].parent \in 0..k
    <3>1. k + 1 \in 1..Len(b) /\ k + 1 - 1 = k
      OBVIOUS
    <3> QED
      BY <3>1 DEF Tree
  <2>3. top \in SUBSET Nat
    BY <2>2
  <2>4. g \in [0..(k + 1) -> SUBSET Nat] /\ g[k + 1] = top /\ \A x \in 0..k : g[x] = f[x]
    BY <2>3
  <2> HIDE DEF g, top
  <2>5. ASSUME NEW x \in 0..(k + 1)
        PROVE  g[x] = IF x = EmptyHash THEN {} ELSE {x} \cup g[b[x].parent]
    <3>1. CASE x = k + 1
      <4>1. g[b[x].parent] = f[b[k + 1].parent] /\ g[x] = top /\ x # EmptyHash
        BY <2>2, <2>4, <3>1 DEF EmptyHash
      <4> QED
        BY <4>1, <3>1 DEF top
    <3>2. CASE x # k + 1
      <4>1. x \in 0..k /\ g[x] = f[x]
        BY <2>4, <3>2
      <4>2. f[x] = IF x = EmptyHash THEN {} ELSE {x} \cup f[b[x].parent]
        BY <2>1, <4>1
      <4>3. x # EmptyHash => b[x].parent \in 0..k
        <5>1. x # EmptyHash => x \in 1..Len(b)
          BY <4>1 DEF EmptyHash
        <5> QED
          BY <4>1, <5>1 DEF Tree
      <4> QED
        BY <2>4, <4>1, <4>2, <4>3
    <3> QED
      BY <3>1, <3>2
  <2> QED
    BY <2>4, <2>5
<1>3. Len(b) \in S
  <2> HIDE DEF S
  <2> QED
    BY <1>1, <1>2, SetInduction
<1> QED
  BY <1>3

\* The branch of a block is the block with its parent's branch.
LEMMA LineStep ==
  ASSUME NEW b, Len(b) \in Nat, Tree(b)
  PROVE  /\ Line(b, EmptyHash) = {}
         /\ \A x \in 1..Len(b) : Line(b, x) = {x} \cup Line(b, b[x].parent)
<1>1. PICK f \in [0..Len(b) -> SUBSET Nat] :
         \A x \in 0..Len(b) : f[x] = IF x = EmptyHash THEN {} ELSE {x} \cup f[b[x].parent]
  BY LineExists
<1>2. ASSUME NEW h \in 0..Len(b) PROVE Line(b, h) = f[h]
  <2> DEFINE G(l) == l = [x \in 0..h |-> IF x = EmptyHash THEN {} ELSE {x} \cup l[b[x].parent]]
             H(l) == [x \in 0..h |-> IF x = EmptyHash THEN {} ELSE {x} \cup l[b[x].parent]]
             g == [x \in 0..h |-> f[x]]
  <2>0. \A x \in 1..h : b[x].parent \in 0..h /\ b[x].parent < x /\ x \in 0..Len(b)
    <3> TAKE x \in 1..h
    <3>1. x \in 1..Len(b)
      OBVIOUS
    <3> QED
      BY <3>1 DEF Tree
  <2>1. G(g)
    <3>1. \A x \in 0..h : g[x] = H(g)[x]
      <4> TAKE x \in 0..h
      <4>1. x # EmptyHash => x \in 1..h
        BY DEF EmptyHash
      <4> QED
        BY <1>1, <2>0, <4>1
    <3> QED
      BY <3>1
  <2>2. ASSUME NEW l, G(l) PROVE l = g
    <3>0. \A x \in 0..h : l[x] = IF x = EmptyHash THEN {} ELSE {x} \cup l[b[x].parent]
      BY <2>2
    <3> DEFINE T == {x \in 0..h : l[x] # g[x]}
    <3>1. T = {}
      <4> SUFFICES ASSUME T # {} PROVE FALSE
        OBVIOUS
      <4>1. T \subseteq Nat
        OBVIOUS
      <4>2. PICK m \in T : \A y \in T : m <= y
        <5> HIDE DEF T
        <5> QED
          BY <4>1, Least
      <4>3. m # EmptyHash
        <5>1. 0 \in 0..h /\ 0 \in 0..Len(b) /\ EmptyHash = 0
          BY DEF EmptyHash
        <5>2. l[0] = {}
          BY <3>0, <5>1
        <5>3. f[0] = {}
          BY <1>1, <5>1
        <5>4. g[0] = f[0]
          BY <5>1
        <5>5. l[m] # g[m]
          OBVIOUS
        <5> QED
          BY <5>1, <5>2, <5>3, <5>4, <5>5
      <4>4. m \in 1..h /\ b[m].parent \in 0..h /\ b[m].parent < m
        BY <2>0, <4>3 DEF EmptyHash
      <4>5. b[m].parent \notin T
        BY <4>2, <4>4
      <4>6. l[b[m].parent] = g[b[m].parent]
        BY <4>4, <4>5
      <4>7. g[b[m].parent] = f[b[m].parent] /\ g[m] = f[m] /\ m \in 0..Len(b)
        BY <4>4
      <4>8. l[m] = {m} \cup l[b[m].parent] /\ f[m] = {m} \cup f[b[m].parent]
        BY <1>1, <3>0, <4>3, <4>7
      <4> QED
        BY <4>6, <4>7, <4>8
    <3>2. \A x \in 0..h : l[x] = g[x]
      BY <3>1
    <3>3. l = [x \in 0..h |-> l[x]] /\ g = [x \in 0..h |-> g[x]]
      BY <2>2
    <3> QED
      BY <3>2, <3>3
  <2>3. Line(b, h) = (CHOOSE l : G(l))[h]
    BY DEF Line
  <2>4. g[h] = f[h]
    OBVIOUS
  <2> HIDE DEF G, g
  <2> QED
    BY <2>1, <2>2, <2>3, <2>4
<1>3. Line(b, EmptyHash) = {}
  BY <1>1, <1>2 DEF EmptyHash
<1>4. ASSUME NEW x \in 1..Len(b) PROVE Line(b, x) = {x} \cup Line(b, b[x].parent)
  <2>1. b[x].parent \in 0..Len(b) /\ x \in 0..Len(b) /\ x # EmptyHash
    BY DEF Tree, EmptyHash
  <2> QED
    BY <1>1, <1>2, <2>1
<1> QED
  BY <1>3, <1>4

LEMMA NumType ==
  ASSUME NEW b \in Seq(Blocks), NEW x \in 1..Len(b)
  PROVE  b[x].num \in Nat \ {0}
<1>1. b[x] \in Blocks
  OBVIOUS
<1> QED
  BY <1>1, ChainAssumption DEF Blocks, Hash

\* Ancestors are older and lower, and their ancestors are ancestors.
LEMMA LineLower ==
  ASSUME NEW b \in Seq(Blocks), Tree(b), NEW x \in 1..Len(b)
  PROVE  /\ x \in Line(b, x)
         /\ \A y \in Line(b, x) :
               /\ y \in 1..x /\ Line(b, y) \subseteq Line(b, x)
               /\ y = x \/ b[y].num < b[x].num
<1> DEFINE P(z) == \A y \in Line(b, z) :
                      /\ y \in 1..z /\ Line(b, y) \subseteq Line(b, z)
                      /\ y = z \/ b[y].num < b[z].num
           T == {z \in 1..Len(b) : ~P(z)}
<1>n. Len(b) \in Nat
  OBVIOUS
<1>1. T = {}
  <2> SUFFICES ASSUME T # {} PROVE FALSE
    OBVIOUS
  <2>1. T \subseteq Nat
    OBVIOUS
  <2>2. PICK m \in T : \A z \in T : m <= z
    <3> HIDE DEF T
    <3> QED
      BY <2>1, Least
  <2>3. m \in 1..Len(b) /\ ~P(m)
    OBVIOUS
  <2> DEFINE p == b[m].parent
  <2>4. p \in 0..(m - 1) /\ b[m].num = IF p = EmptyHash THEN 1 ELSE b[p].num + 1
    BY <2>3 DEF Tree
  <2>5. Line(b, m) = {m} \cup Line(b, p)
    BY <1>n, <2>3, LineStep
  <2>6. CASE p = EmptyHash
    <3>1. Line(b, m) = {m}
      BY <1>n, <2>5, <2>6, LineStep
    <3>2. P(m)
      BY <2>3, <3>1
    <3> QED
      BY <2>3, <3>2
  <2>7. CASE p # EmptyHash
    <3>1. p \in 1..Len(b) /\ p < m
      BY <2>3, <2>4, <2>7 DEF EmptyHash
    <3>2. P(p)
      <4>1. p \notin T
        BY <2>2, <3>1
      <4> QED
        BY <3>1, <4>1
    <3>3. b[p].num \in Nat /\ b[m].num = b[p].num + 1
      <4>1. b[p].num \in Nat
        BY <3>1, NumType
      <4> QED
        BY <2>4, <2>7, <4>1
    <3>4. ASSUME NEW y \in Line(b, p)
          PROVE  y \in 1..m /\ Line(b, y) \subseteq Line(b, m) /\ b[y].num < b[m].num
      <4>1. y \in 1..p /\ Line(b, y) \subseteq Line(b, p) /\ (y = p \/ b[y].num < b[p].num)
        BY <3>2
      <4>2. y \in 1..Len(b) /\ y \in 1..m
        BY <2>3, <3>1, <4>1
      <4>3. b[y].num \in Nat
        BY <4>2, NumType
      <4> HIDE DEF p
      <4> QED
        BY <2>5, <3>3, <4>1, <4>2, <4>3
    <3>5. P(m)
      BY <2>3, <2>5, <3>4
    <3> QED
      BY <2>3, <3>5
  <2> QED
    BY <2>6, <2>7
<1>2. P(x)
  BY <1>1
<1>3. x \in Line(b, x)
  BY <1>n, LineStep
<1> QED
  BY <1>2, <1>3

\* Of two blocks on a branch, the lower one is an ancestor of the other.
LEMMA LineTotal ==
  ASSUME NEW b \in Seq(Blocks), Tree(b), NEW x \in 1..Len(b),
         NEW y \in Line(b, x), NEW z \in Line(b, x), b[y].num <= b[z].num
  PROVE  y \in Line(b, z)
<1> DEFINE P(w) == \A u, v \in Line(b, w) : b[u].num <= b[v].num => u \in Line(b, v)
           T == {w \in 1..Len(b) : ~P(w)}
<1>n. Len(b) \in Nat
  OBVIOUS
<1>1. T = {}
  <2> SUFFICES ASSUME T # {} PROVE FALSE
    OBVIOUS
  <2>1. T \subseteq Nat
    OBVIOUS
  <2>2. PICK m \in T : \A w \in T : m <= w
    <3> HIDE DEF T
    <3> QED
      BY <2>1, Least
  <2>3. m \in 1..Len(b) /\ ~P(m)
    OBVIOUS
  <2> DEFINE p == b[m].parent
  <2>4. p \in 0..(m - 1)
    BY <2>3 DEF Tree
  <2>5. Line(b, m) = {m} \cup Line(b, p)
    BY <1>n, <2>3, LineStep
  <2>6. p # EmptyHash => P(p)
    <3> SUFFICES ASSUME p # EmptyHash PROVE P(p)
      OBVIOUS
    <3>1. p \in 1..Len(b) /\ p < m
      BY <2>3, <2>4 DEF EmptyHash
    <3>2. p \notin T
      BY <2>2, <3>1
    <3> QED
      BY <3>1, <3>2
  <2>7. p = EmptyHash => Line(b, p) = {}
    BY <1>n, LineStep
  <2>8. \A u \in Line(b, m) : u \in 1..Len(b) /\ (u = m \/ b[u].num < b[m].num)
    BY <2>3, LineLower
  <2> HIDE DEF p
  <2>9. ASSUME NEW u \in Line(b, m), NEW v \in Line(b, m), b[u].num <= b[v].num
        PROVE  u \in Line(b, v)
    <3>1. CASE v = m
      BY <3>1
    <3>2. CASE v # m
      <4>1. b[u].num \in Nat /\ b[v].num \in Nat /\ b[m].num \in Nat
        BY <2>3, <2>8, NumType
      <4>2. u # m
        BY <2>8, <2>9, <3>2, <4>1
      <4>3. u \in Line(b, p) /\ v \in Line(b, p)
        BY <2>5, <3>2, <4>2
      <4> QED
        BY <2>6, <2>7, <2>9, <4>3
    <3> QED
      BY <3>1, <3>2
  <2> QED
    BY <2>3, <2>9
<1> QED
  BY <1>1

\* New blocks leave the branches of the others as they are.
LEMMA LineKept ==
  ASSUME NEW b \in Seq(Blocks), Tree(b), NEW c \in Seq(Blocks), Tree(c),
         Len(b) <= Len(c), \A x \in 1..Len(b) : c[x] = b[x], NEW x \in 0..Len(b)
  PROVE  Line(c, x) = Line(b, x)
<1> DEFINE T == {z \in 0..Len(b) : Line(c, z) # Line(b, z)}
<1>n. Len(b) \in Nat /\ Len(c) \in Nat
  OBVIOUS
<1>1. T = {}
  <2> SUFFICES ASSUME T # {} PROVE FALSE
    OBVIOUS
  <2>1. T \subseteq Nat
    OBVIOUS
  <2>2. PICK m \in T : \A z \in T : m <= z
    <3> HIDE DEF T
    <3> QED
      BY <2>1, Least
  <2>3. m # EmptyHash
    BY <1>n, <2>2, LineStep
  <2>4. m \in 1..Len(b) /\ m \in 1..Len(c)
    BY <2>3 DEF EmptyHash
  <2>5. c[m] = b[m] /\ b[m].parent \in 0..(m - 1)
    BY <2>4 DEF Tree
  <2>6. b[m].parent \notin T /\ b[m].parent \in 0..Len(b)
    BY <2>2, <2>4, <2>5
  <2>7. Line(c, m) = {m} \cup Line(c, c[m].parent) /\ Line(b, m) = {m} \cup Line(b, b[m].parent)
    BY <1>n, <2>4, LineStep
  <2> QED
    BY <2>5, <2>6, <2>7
<1> QED
  BY <1>1

\* The branch of a canonical block is canonical.
LEMMA LineChain ==
  ASSUME NEW b \in Seq(Blocks), Tree(b), NEW c, Len(c) \in Nat, Chained(c, b), NEW n \in 1..Len(c)
  PROVE  Line(b, c[n]) = {c[k] : k \in 1..n}
<1> DEFINE T == {m \in 1..Len(c) : Line(b, c[m]) # {c[k] : k \in 1..m}}
<1>n. Len(b) \in Nat
  OBVIOUS
<1>1. T = {}
  <2> SUFFICES ASSUME T # {} PROVE FALSE
    OBVIOUS
  <2>1. T \subseteq Nat
    OBVIOUS
  <2>2. PICK m \in T : \A w \in T : m <= w
    <3> HIDE DEF T
    <3> QED
      BY <2>1, Least
  <2>3. m \in 1..Len(c) /\ Line(b, c[m]) # {c[k] : k \in 1..m}
    OBVIOUS
  <2>4. /\ c[m] \in 1..Len(b) /\ b[c[m]].parent = IF m = 1 THEN EmptyHash ELSE c[m - 1]
    BY <2>3 DEF Chained
  <2>5. Line(b, c[m]) = {c[m]} \cup Line(b, b[c[m]].parent)
    BY <1>n, <2>4, LineStep
  <2>6. CASE m = 1
    <3>1. Line(b, c[m]) = {c[m]}
      BY <1>n, <2>4, <2>5, <2>6, LineStep
    <3>2. 1..m = {1}
      BY <2>6
    <3> QED
      BY <2>3, <2>6, <3>1, <3>2
  <2>7. CASE m # 1
    <3>1. m - 1 \in 1..Len(c) /\ m - 1 < m
      BY <2>3, <2>7
    <3>2. m - 1 \notin T
      <4> HIDE DEF T
      <4> QED
        BY <2>1, <2>2, <3>1
    <3>3. Line(b, c[m - 1]) = {c[k] : k \in 1..(m - 1)}
      BY <3>1, <3>2
    <3>4. 1..m = {m} \cup 1..(m - 1)
      BY <2>3
    <3>5. {c[k] : k \in 1..m} = {c[m]} \cup {c[k] : k \in 1..(m - 1)}
      BY <3>4
    <3> QED
      BY <2>3, <2>4, <2>5, <2>7, <3>3, <3>5
  <2> QED
    BY <2>6, <2>7
<1> QED
  BY <1>1

\* Canonical blocks are on one branch, with all their ancestors.
LEMMA OnLine ==
  ASSUME NEW b \in Seq(Blocks), Tree(b), NEW c, Len(c) \in Nat, Chained(c, b),
         NEW x \in 1..Len(b), On(c, b, x)
  PROVE  /\ \A y \in Line(b, x) : On(c, b, y)
         /\ \A y \in 1..Len(b) : On(c, b, y) /\ b[y].num <= b[x].num => y \in Line(b, x)
<1>1. \A y \in 1..Len(b) : b[y].num \in Nat \ {0}
  BY NumType
<1>2. b[x].num \in 1..Len(c) /\ c[b[x].num] = x
  BY <1>1 DEF On
<1>3. Line(b, x) = {c[k] : k \in 1..b[x].num}
  BY <1>2, LineChain
<1>4. ASSUME NEW y \in Line(b, x) PROVE On(c, b, y)
  <2>1. PICK k \in 1..b[x].num : y = c[k]
    BY <1>3
  <2>2. k \in 1..Len(c)
    BY <1>2, <2>1
  <2>3. b[y].num = k
    BY <2>1, <2>2 DEF Chained
  <2> QED
    BY <2>1, <2>2, <2>3 DEF On
<1>5. ASSUME NEW y \in 1..Len(b), On(c, b, y), b[y].num <= b[x].num PROVE y \in Line(b, x)
  <2>1. b[y].num \in 1..b[x].num /\ y = c[b[y].num]
    BY <1>1, <1>5 DEF On
  <2> QED
    BY <1>3, <2>1
<1> QED
  BY <1>4, <1>5
=============================================================================
