------------------------------ MODULE AvlProofs ------------------------------
(***************************************************************************)
(* avltree.c keeps its promises, for any keys and data and any height.     *)
(***************************************************************************)
EXTENDS AvlTree, WellFoundedInduction, TLAPS

\* Induction over the naturals, with a set for the property.
LEMMA NatInduct ==
    ASSUME NEW S, 0 \in S, \A n \in Nat : n \in S => n + 1 \in S
    PROVE  \A n \in Nat : n \in S
  <1> DEFINE less == {ss \in Nat \X Nat : ss[1] < ss[2]}
             T == Nat \ S
  <1>1. less = OpToRel(<, Nat)
    BY Zenon DEF OpToRel
  <1>2. IsWellFoundedOn(less, Nat)
    BY <1>1, NatLessThanWellFounded, Zenon
  <1>3. SUFFICES ASSUME T # {} PROVE FALSE
    OBVIOUS
  <1>4. PICK x \in T : \A y \in T : ~(<<y, x>> \in less)
    <2>1. T \subseteq Nat /\ \E n : n \in T
      BY <1>3
    <2> QED
      BY <1>2, <2>1, WFMin, Zenon
  <1>5. x # 0 /\ x - 1 \in Nat
    OBVIOUS
  <1>6. x - 1 \notin S
    BY <1>5
  <1>7. <<x - 1, x>> \in Nat \X Nat /\ <<x - 1, x>>[1] < <<x - 1, x>>[2]
    BY <1>5
  <1>8. <<x - 1, x>> \in less
    BY <1>7, Zenon
  <1> QED
    BY <1>4, <1>5, <1>6, <1>8

------------------------------------------------------------------------------
\* The trees of one level more.
NextTrees(s) ==
    {NULL} \cup {x \in [key : Key, data : Data, left : s, right : s, height : Nat] :
                    x.height = Max2(height(x.left), height(x.right)) + 1}

\* The first n steps of the definition of Trees.
TreesTo(n, g) == g = [i \in 0..n |-> IF i = 0 THEN {NULL} ELSE NextTrees(g[i - 1])]

\* The steps satisfy the equation of Trees, one after the other.
LEMMA TreesToReads ==
    ASSUME NEW n \in Nat, NEW g, TreesTo(n, g), NEW i \in 0..n
    PROVE  g[i] = IF i = 0 THEN {NULL} ELSE NextTrees(g[i - 1])
  BY Zenon DEF TreesTo

\* There are n steps for every n ...
LEMMA TreesToExists == \A n \in Nat : \E g : TreesTo(n, g)
  <1> DEFINE S == {n \in Nat : \E g : TreesTo(n, g)}
  <1>1. 0 \in S
    <2>1. PICK g : g = [i \in 0..0 |-> {NULL}]
      OBVIOUS
    <2>2. TreesTo(0, g)
      BY <2>1 DEF TreesTo
    <2> QED
      BY <2>2
  <1>2. ASSUME NEW n \in Nat, n \in S PROVE n + 1 \in S
    <2>1. PICK g : TreesTo(n, g)
      BY <1>2
    <2>2. PICK g2 : g2 = [i \in 0..(n + 1) |-> IF i = 0 THEN {NULL} ELSE NextTrees(g[i - 1])]
      OBVIOUS
    <2>3. \A i \in 0..(n + 1) : g2[i] = IF i = 0 THEN {NULL} ELSE NextTrees(g[i - 1])
      BY <2>2
    <2>4. ASSUME NEW i \in 0..n PROVE g2[i] = g[i]
      <3>1. i \in 0..(n + 1)
        OBVIOUS
      <3>2. g[i] = IF i = 0 THEN {NULL} ELSE NextTrees(g[i - 1])
        BY <2>1, TreesToReads
      <3> QED
        BY <2>3, <3>1, <3>2
    <2>5. \A i \in 0..(n + 1) : i # 0 => i - 1 \in 0..n
      OBVIOUS
    <2>6. \A i \in 0..(n + 1) : (IF i = 0 THEN {NULL} ELSE NextTrees(g[i - 1]))
                              = (IF i = 0 THEN {NULL} ELSE NextTrees(g2[i - 1]))
      BY <2>4, <2>5
    <2>7. TreesTo(n + 1, g2)
      BY <2>2, <2>6, Zenon DEF TreesTo
    <2> QED
      BY <2>7
  <1>3. \A n \in Nat : n \in S
    <2> HIDE DEF S
    <2> QED
      BY <1>1, <1>2, NatInduct
  <1> QED
    BY <1>3, Zenon

\* ... and shorter ones are a beginning of longer ones.
LEMMA TreesToUnique ==
    ASSUME NEW n \in Nat, NEW g, TreesTo(n, g), NEW m \in Nat, NEW h, TreesTo(m, h)
    PROVE  \A i \in Nat : i <= n /\ i <= m => g[i] = h[i]
  <1> DEFINE S == {i \in Nat : i <= n /\ i <= m => g[i] = h[i]}
  <1>1. 0 \in S
    BY TreesToReads
  <1>2. ASSUME NEW i \in S PROVE i + 1 \in S
    <2> SUFFICES ASSUME i + 1 <= n, i + 1 <= m PROVE g[i + 1] = h[i + 1]
      OBVIOUS
    <2>1. g[i] = h[i]
      OBVIOUS
    <2>2. i + 1 \in 0..n /\ i + 1 \in 0..m /\ i + 1 # 0 /\ (i + 1) - 1 = i
      OBVIOUS
    <2>3. g[i + 1] = NextTrees(g[i]) /\ h[i + 1] = NextTrees(h[i])
      BY <2>2, TreesToReads
    <2> QED
      BY <2>1, <2>3
  <1>3. \A i \in Nat : i \in S
    BY <1>1, <1>2, NatInduct
  <1> QED
    BY <1>3

\* The definition of Trees is one.
LEMMA TreesDefined ==
    /\ Trees[0] = {NULL}
    /\ \A n \in Nat : Trees[n + 1] = NextTrees(Trees[n])
  <1>1. PICK f : f = [n \in Nat |-> (CHOOSE g : TreesTo(n, g))[n]]
    OBVIOUS
  <1>2. ASSUME NEW n \in Nat, NEW g, TreesTo(n, g) PROVE f[n] = g[n]
    <2>1. PICK c : c = CHOOSE h : TreesTo(n, h)
      OBVIOUS
    <2>2. TreesTo(n, c)
      BY <1>2, <2>1, Zenon
    <2>3. f[n] = c[n]
      BY <1>1, <2>1
    <2> QED
      BY <1>2, <2>2, <2>3, TreesToUnique
  <1>3. ASSUME NEW n \in Nat
        PROVE  f[n] = IF n = 0 THEN {NULL} ELSE NextTrees(f[n - 1])
    <2>1. PICK g : TreesTo(n, g)
      BY TreesToExists
    <2>2. f[n] = g[n] /\ n \in 0..n
      BY <1>2, <2>1
    <2>3. g[n] = IF n = 0 THEN {NULL} ELSE NextTrees(g[n - 1])
      BY <2>1, <2>2, TreesToReads
    <2>4. ASSUME n # 0 PROVE g[n - 1] = f[n - 1]
      <3>1. PICK h : TreesTo(n - 1, h)
        BY <2>4, TreesToExists
      <3>2. n - 1 \in Nat /\ n - 1 <= n
        BY <2>4
      <3>3. f[n - 1] = h[n - 1]
        BY <1>2, <3>1, <3>2
      <3>4. g[n - 1] = h[n - 1]
        BY <2>1, <3>1, <3>2, TreesToUnique
      <3> QED
        BY <3>3, <3>4
    <2> QED
      BY <2>2, <2>3, <2>4
  <1>4. f = [n \in Nat |-> IF n = 0 THEN {NULL} ELSE NextTrees(f[n - 1])]
    BY <1>1, <1>3
  <1>5. Trees = [n \in Nat |-> IF n = 0 THEN {NULL} ELSE NextTrees(Trees[n - 1])]
    BY <1>4, Zenon DEF Trees, NextTrees
  <1>6. \A n \in Nat : Trees[n] = IF n = 0 THEN {NULL} ELSE NextTrees(Trees[n - 1])
    BY <1>5, Zenon
  <1>7. \A n \in Nat : n + 1 # 0 /\ (n + 1) - 1 = n /\ n + 1 \in Nat
    OBVIOUS
  <1> QED
    BY <1>6, <1>7

------------------------------------------------------------------------------
\* Trees of any height.
AllTrees == UNION {Trees[n] : n \in Nat}

\* The stored height is a natural number within the levels, 0 for NULL only.
LEMMA TreesReads ==
    ASSUME NEW n \in Nat
    PROVE  \A x \in Trees[n] :
                /\ height(x) \in Nat /\ height(x) <= n
                /\ x = NULL <=> height(x) = 0
  <1> DEFINE S == {i \in Nat : \A x \in Trees[i] :
                        /\ height(x) \in Nat /\ height(x) <= i
                        /\ x = NULL <=> height(x) = 0}
  <1>1. 0 \in S
    BY TreesDefined DEF NULL, height
  <1>2. ASSUME NEW i \in Nat, i \in S PROVE i + 1 \in S
    <2>1. \A x \in Trees[i] : height(x) \in Nat /\ height(x) <= i
      BY <1>2
    <2> SUFFICES ASSUME NEW x \in Trees[i + 1]
                 PROVE  /\ height(x) \in Nat /\ height(x) <= i + 1
                        /\ x = NULL <=> height(x) = 0
      OBVIOUS
    <2>2. x \in NextTrees(Trees[i])
      BY TreesDefined
    <2>3. CASE x = NULL
      BY <2>3 DEF NULL, height
    <2>4. CASE x # NULL
      <3>1. /\ x.left \in Trees[i] /\ x.right \in Trees[i] /\ x.height \in Nat
            /\ x.height = Max2(height(x.left), height(x.right)) + 1
        BY <2>2, <2>4 DEF NextTrees
      <3>2. height(x.left) \in Nat /\ height(x.left) <= i
        BY <2>1, <3>1
      <3>3. height(x.right) \in Nat /\ height(x.right) <= i
        BY <2>1, <3>1
      <3>4. height(x) = x.height
        BY DEF height
      <3> QED
        BY <2>4, <3>1, <3>2, <3>3, <3>4 DEF Max2
    <2> QED
      BY <2>3, <2>4
  <1>3. \A i \in Nat : i \in S
    <2> HIDE DEF S
    <2> QED
      BY <1>1, <1>2, NatInduct
  <1> QED
    BY <1>3

\* A tree that is not empty is a node, and its children are lower trees.
LEMMA TreesNode ==
    ASSUME NEW n \in Nat, NEW x \in Trees[n], x # NULL
    PROVE  /\ n # 0 /\ n - 1 \in Nat
           /\ x.key \in Key /\ x.data \in Data
           /\ x.left \in Trees[n - 1] /\ x.right \in Trees[n - 1]
           /\ x.height = Max2(height(x.left), height(x.right)) + 1
           /\ x = Node(x.key, x.data, x.left, x.right)
  <1>1. n # 0 /\ n - 1 \in Nat
    BY TreesDefined
  <1>2. n = (n - 1) + 1
    OBVIOUS
  <1>3. x \in NextTrees(Trees[n - 1])
    BY <1>1, <1>2, TreesDefined
  <1>4. /\ x \in [key : Key, data : Data, left : Trees[n - 1], right : Trees[n - 1], height : Nat]
        /\ x.height = Max2(height(x.left), height(x.right)) + 1
    BY <1>3 DEF NextTrees
  <1>5. x = [key |-> x.key, data |-> x.data, left |-> x.left, right |-> x.right, height |-> x.height]
    BY <1>4
  <1> QED
    BY <1>1, <1>4, <1>5 DEF Node

\* A node over trees of n levels is a tree of n + 1 levels.
LEMMA TreesMake ==
    ASSUME NEW n \in Nat, NEW k \in Key, NEW d \in Data,
           NEW l \in Trees[n], NEW r \in Trees[n]
    PROVE  Node(k, d, l, r) \in Trees[n + 1]
  <1>1. height(l) \in Nat /\ height(r) \in Nat
    BY TreesReads
  <1>2. Max2(height(l), height(r)) + 1 \in Nat
    BY <1>1 DEF Max2
  <1>3. PICK h \in Nat : h = Max2(height(l), height(r)) + 1
    BY <1>2
  <1>4. PICK x : x = [key |-> k, data |-> d, left |-> l, right |-> r, height |-> h]
    OBVIOUS
  <1>5. x.left = l /\ x.right = r /\ x.height = h
    BY <1>4
  <1>6. x \in [key : Key, data : Data, left : Trees[n], right : Trees[n], height : Nat]
    BY <1>4
  <1>7. x \in NextTrees(Trees[n])
    BY <1>3, <1>5, <1>6 DEF NextTrees
  <1>8. x = Node(k, d, l, r)
    BY <1>3, <1>4, Zenon DEF Node
  <1> QED
    BY <1>7, <1>8, TreesDefined

\* A tree belongs to every bound its height keeps.
LEMMA TreesByHeight ==
    \A n \in Nat : \A x \in AllTrees : height(x) <= n => x \in Trees[n]
  <1> DEFINE S == {n \in Nat : \A x \in AllTrees : height(x) <= n => x \in Trees[n]}
  <1>1. 0 \in S
    <2> SUFFICES ASSUME NEW m \in Nat, NEW x \in Trees[m], height(x) <= 0
                 PROVE  x \in Trees[0]
      BY DEF AllTrees
    <2>1. x = NULL
      <3>1. height(x) \in Nat /\ (x = NULL <=> height(x) = 0)
        BY TreesReads
      <3> QED
        BY <3>1
    <2> QED
      BY <2>1, TreesDefined
  <1>2. ASSUME NEW n \in Nat, n \in S PROVE n + 1 \in S
    <2> SUFFICES ASSUME NEW m \in Nat, NEW x \in Trees[m], height(x) <= n + 1
                 PROVE  x \in Trees[n + 1]
      BY DEF AllTrees
    <2>1. CASE x = NULL
      BY <2>1, TreesDefined DEF NextTrees
    <2>2. CASE x # NULL
      <3>1. /\ m - 1 \in Nat /\ x.key \in Key /\ x.data \in Data
            /\ x.left \in Trees[m - 1] /\ x.right \in Trees[m - 1]
            /\ x.height = Max2(height(x.left), height(x.right)) + 1
            /\ x = Node(x.key, x.data, x.left, x.right)
        BY <2>2, TreesNode
      <3>2. x.left \in AllTrees /\ x.right \in AllTrees
        BY <3>1 DEF AllTrees
      <3>3. height(x) = x.height
        BY DEF height
      <3>4. height(x.left) \in Nat /\ height(x.right) \in Nat
        BY <3>1, TreesReads
      <3>5. height(x.left) <= n /\ height(x.right) <= n
        BY <3>1, <3>3, <3>4 DEF Max2
      <3>6. x.left \in Trees[n] /\ x.right \in Trees[n]
        BY <1>2, <3>2, <3>5
      <3> QED
        BY <3>1, <3>6, TreesMake
    <2> QED
      BY <2>1, <2>2
  <1>3. \A n \in Nat : n \in S
    <2> HIDE DEF S
    <2> QED
      BY <1>1, <1>2, NatInduct
  <1> QED
    BY <1>3

\* NULL is the only tree of height 0.
LEMMA AllReads == \A x \in AllTrees : height(x) \in Nat /\ (x = NULL <=> height(x) = 0)
  BY TreesReads DEF AllTrees

\* NULL is a tree.
LEMMA AllNull == NULL \in AllTrees /\ height(NULL) = 0
  BY TreesDefined DEF AllTrees, NULL, height

\* Every other tree is a node made of two trees.
LEMMA AllNode ==
    ASSUME NEW x \in AllTrees, x # NULL
    PROVE  /\ x.key \in Key /\ x.data \in Data
           /\ x.left \in AllTrees /\ x.right \in AllTrees
           /\ height(x) = Max2(height(x.left), height(x.right)) + 1
           /\ x = Node(x.key, x.data, x.left, x.right)
  <1>1. PICK n \in Nat : x \in Trees[n]
    BY DEF AllTrees
  <1>2. /\ n - 1 \in Nat /\ x.key \in Key /\ x.data \in Data
        /\ x.left \in Trees[n - 1] /\ x.right \in Trees[n - 1]
        /\ x.height = Max2(height(x.left), height(x.right)) + 1
        /\ x = Node(x.key, x.data, x.left, x.right)
    BY <1>1, TreesNode
  <1>3. height(x) = x.height
    BY DEF height
  <1> QED
    BY <1>2, <1>3 DEF AllTrees

\* construct_avl_node makes a tree of two trees, and its fields can be read back.
LEMMA NodeReads ==
    ASSUME NEW k \in Key, NEW d \in Data, NEW l \in AllTrees, NEW r \in AllTrees
    PROVE  /\ Node(k, d, l, r) \in AllTrees
           /\ Node(k, d, l, r) # NULL
           /\ Node(k, d, l, r).key = k /\ Node(k, d, l, r).data = d
           /\ Node(k, d, l, r).left = l /\ Node(k, d, l, r).right = r
           /\ height(Node(k, d, l, r)) = Max2(height(l), height(r)) + 1
  <1>1. height(l) \in Nat /\ height(r) \in Nat
    BY AllReads
  <1>2. PICK n \in Nat : height(l) <= n /\ height(r) <= n
    <2>1. height(l) <= height(r) \/ height(r) <= height(l)
      BY <1>1
    <2> QED
      BY <1>1, <2>1
  <1>3. l \in Trees[n] /\ r \in Trees[n]
    BY <1>2, TreesByHeight
  <1>4. Node(k, d, l, r) \in Trees[n + 1]
    BY <1>3, TreesMake
  <1>5. Node(k, d, l, r) \in AllTrees
    BY <1>4 DEF AllTrees
  <1>6. PICK h : h = Max2(height(l), height(r)) + 1
    OBVIOUS
  <1>7. Node(k, d, l, r) = [key |-> k, data |-> d, left |-> l, right |-> r, height |-> h]
    BY <1>6, Zenon DEF Node
  <1>8. /\ Node(k, d, l, r).key = k /\ Node(k, d, l, r).data = d
        /\ Node(k, d, l, r).left = l /\ Node(k, d, l, r).right = r
        /\ Node(k, d, l, r).height = h
    BY <1>7
  <1>9. height(Node(k, d, l, r)) = Max2(height(l), height(r)) + 1
    BY <1>6, <1>8 DEF height
  <1>10. height(Node(k, d, l, r)) # 0
    BY <1>1, <1>9 DEF Max2
  <1>11. Node(k, d, l, r) # NULL
    BY <1>5, <1>10, AllReads
  <1> QED
    BY <1>5, <1>8, <1>9, <1>11

\* The trees of the program are those within the bound.
LEMMA TreeIs == \A x : x \in Tree <=> x \in AllTrees /\ height(x) <= MaxHeight
  BY TreeAssumption, TreesReads, TreesByHeight DEF Tree, AllTrees

\* The children of a node are lower, and one of them by one level only.
LEMMA TreeNode ==
    ASSUME NEW x \in Tree, x # NULL
    PROVE  /\ x \in AllTrees /\ x.left \in Tree /\ x.right \in Tree
           /\ height(x.left) < height(x) /\ height(x.right) < height(x)
           /\ height(x) = height(x.left) + 1 \/ height(x) = height(x.right) + 1
  <1>1. x \in AllTrees /\ height(x) <= MaxHeight
    BY TreeIs
  <1>2. /\ x.left \in AllTrees /\ x.right \in AllTrees
        /\ height(x) = Max2(height(x.left), height(x.right)) + 1
    BY <1>1, AllNode
  <1>3. height(x) \in Nat /\ height(x.left) \in Nat /\ height(x.right) \in Nat
    BY <1>1, <1>2, AllReads
  <1>4. /\ height(x.left) < height(x) /\ height(x.right) < height(x)
        /\ height(x) = height(x.left) + 1 \/ height(x) = height(x.right) + 1
    BY <1>2, <1>3 DEF Max2
  <1>5. height(x.left) <= MaxHeight /\ height(x.right) <= MaxHeight
    BY <1>1, <1>3, <1>4, TreeAssumption
  <1> QED
    BY <1>1, <1>2, <1>4, <1>5, TreeIs

\* Induction over trees, with a set for the property.
LEMMA TreeInduct ==
    ASSUME NEW S, NULL \in S,
           \A x \in Tree : x # NULL /\ x.left \in S /\ x.right \in S => x \in S
    PROVE  \A x \in Tree : x \in S
  <1> DEFINE T == {n \in Nat : \A x \in Tree : height(x) <= n => x \in S}
  <1>1. 0 \in T
    <2> SUFFICES ASSUME NEW x \in Tree, height(x) <= 0 PROVE x \in S
      OBVIOUS
    <2>1. height(x) \in Nat /\ (x = NULL <=> height(x) = 0)
      BY TreeIs, AllReads
    <2>2. height(x) = 0
      BY <2>1
    <2> QED
      BY <2>1, <2>2
  <1>2. ASSUME NEW n \in Nat, n \in T PROVE n + 1 \in T
    <2> SUFFICES ASSUME NEW x \in Tree, height(x) <= n + 1, x # NULL PROVE x \in S
      OBVIOUS
    <2>1. /\ x \in AllTrees /\ x.left \in Tree /\ x.right \in Tree
          /\ height(x.left) < height(x) /\ height(x.right) < height(x)
      BY TreeNode
    <2>2. height(x) \in Nat /\ height(x.left) \in Nat /\ height(x.right) \in Nat
      BY <2>1, TreeIs, AllReads
    <2>3. height(x.left) <= n /\ height(x.right) <= n
      BY <2>1, <2>2
    <2>4. x.left \in S /\ x.right \in S
      BY <1>2, <2>1, <2>3
    <2> QED
      BY <2>4
  <1>3. \A n \in Nat : n \in T
    <2> HIDE DEF T
    <2> QED
      BY <1>1, <1>2, NatInduct
  <1> QED
    BY <1>3, TreeIs, AllReads

------------------------------------------------------------------------------
\* A function of a node and its values for the children defines a function on
\* the trees.  It is the equation of every recursive function of AvlTree.
Recursive(V, b, step, f) ==
    /\ \A x \in Tree : f[x] \in V
    /\ f = [x \in Tree |-> IF x = NULL THEN b ELSE step[x][f[x.left]][f[x.right]]]

\* The equation has a solution: by levels, each from the level below.
LEMMA RecursiveExists ==
    ASSUME NEW V, NEW b \in V, NEW step \in [Tree -> [V -> [V -> V]]]
    PROVE  \E f : Recursive(V, b, step, f)
  <1> DEFINE L(n) == {x \in Tree : height(x) <= n}
             At(x, g) == IF x = NULL THEN b ELSE step[x][g[x.left]][g[x.right]]
             S == {n \in Nat : \E g : \A x \in L(n) : g[x] \in V /\ g[x] = At(x, g)}
  <1>1. \A n \in Nat : \A x \in L(n + 1) : x # NULL => x.left \in L(n) /\ x.right \in L(n)
    <2> SUFFICES ASSUME NEW n \in Nat, NEW x \in L(n + 1), x # NULL
                 PROVE  x.left \in L(n) /\ x.right \in L(n)
      OBVIOUS
    <2>1. /\ x \in AllTrees /\ x.left \in Tree /\ x.right \in Tree
          /\ height(x.left) < height(x) /\ height(x.right) < height(x)
      BY TreeNode
    <2>2. height(x) \in Nat /\ height(x.left) \in Nat /\ height(x.right) \in Nat
      BY <2>1, TreeIs, AllReads
    <2>3. height(x.left) <= n /\ height(x.right) <= n
      BY <2>1, <2>2
    <2> QED
      BY <2>1, <2>3
  <1>2. 0 \in S
    <2>1. PICK g : g = [x \in L(0) |-> b]
      OBVIOUS
    <2>2. ASSUME NEW x \in L(0) PROVE x = NULL
      <3>1. height(x) \in Nat /\ (x = NULL <=> height(x) = 0)
        BY TreeIs, AllReads
      <3> QED
        BY <3>1
    <2>3. \A x \in L(0) : g[x] \in V /\ g[x] = At(x, g)
      BY <2>1, <2>2
    <2> QED
      BY <2>3
  <1>3. ASSUME NEW n \in Nat, n \in S PROVE n + 1 \in S
    <2>1. PICK g : \A x \in L(n) : g[x] \in V /\ g[x] = At(x, g)
      BY <1>3
    <2>2. PICK g2 : g2 = [x \in L(n + 1) |-> At(x, g)]
      OBVIOUS
    <2>3. \A x \in L(n + 1) : g2[x] = At(x, g)
      BY <2>2, Zenon
    <2>4. ASSUME NEW x \in L(n) PROVE g2[x] = g[x]
      <3>1. x \in L(n + 1)
        <4>1. height(x) \in Nat /\ height(x) <= n /\ x \in Tree
          BY TreeIs, AllReads
        <4>2. height(x) <= n + 1
          BY <4>1
        <4> QED
          BY <4>1, <4>2
      <3> QED
        BY <2>1, <2>3, <3>1, Zenon
    <2>5. ASSUME NEW x \in L(n + 1) PROVE g2[x] \in V /\ g2[x] = At(x, g2)
      <3>1. CASE x = NULL
        BY <2>3, <3>1, Zenon
      <3>2. CASE x # NULL
        <4>1. x.left \in L(n) /\ x.right \in L(n) /\ x \in Tree
          BY <1>1, <3>2
        <4>2. /\ g2[x.left] = g[x.left] /\ g2[x.right] = g[x.right]
              /\ g[x.left] \in V /\ g[x.right] \in V
          BY <2>1, <2>4, <4>1, Zenon
        <4>3. g2[x] = step[x][g[x.left]][g[x.right]]
          BY <2>3, <3>2, Zenon
        <4>4. step[x] \in [V -> [V -> V]] /\ step[x][g[x.left]] \in [V -> V]
          BY <4>1, <4>2, Zenon
        <4>5. g2[x] \in V
          BY <4>2, <4>3, <4>4, Zenon
        <4>6. g2[x] = At(x, g2)
          BY <3>2, <4>2, <4>3, Zenon
        <4> QED
          BY <4>5, <4>6
      <3> QED
        BY <3>1, <3>2
    <2>6. \E h : \A x \in L(n + 1) : h[x] \in V /\ h[x] = At(x, h)
      BY <2>5
    <2>7. n + 1 \in Nat
      OBVIOUS
    <2> QED
      BY <2>6, <2>7, Zenon
  <1>4. \A n \in Nat : n \in S
    <2> HIDE DEF S
    <2> QED
      BY <1>2, <1>3, NatInduct
  <1>5. PICK g : \A x \in L(MaxHeight) : g[x] \in V /\ g[x] = At(x, g)
    BY <1>4, TreeAssumption
  <1>6. L(MaxHeight) = Tree
    BY TreeIs
  <1>7. \A x \in Tree : g[x] \in V /\ g[x] = At(x, g)
    BY <1>5, <1>6, Zenon
  <1>8. PICK f : f = [x \in Tree |-> g[x]]
    OBVIOUS
  <1>9. \A x \in Tree : f[x] = g[x]
    BY <1>8
  <1>10. \A x \in Tree : f[x] \in V /\ At(x, g) = At(x, f)
    <2> SUFFICES ASSUME NEW x \in Tree PROVE f[x] \in V /\ At(x, g) = At(x, f)
      OBVIOUS
    <2>1. CASE x = NULL
      BY <1>7, <1>9, <2>1, Zenon
    <2>2. CASE x # NULL
      <3>1. x.left \in Tree /\ x.right \in Tree
        BY <2>2, TreeNode
      <3> QED
        BY <1>7, <1>9, <3>1, Zenon
    <2> QED
      BY <2>1, <2>2
  <1>11. f = [x \in Tree |-> At(x, f)]
    BY <1>7, <1>8, <1>10, Zenon
  <1> QED
    BY <1>10, <1>11, Zenon DEF Recursive

Entry == [key : Key, data : Data]

\* The entries of a node are its own and those of its children.
LEMMA EntriesDefined ==
    /\ Entries[NULL] = {}
    /\ \A x \in Tree : Entries[x] \subseteq Entry
    /\ \A x \in Tree : x # NULL =>
            Entries[x] = {[key |-> x.key, data |-> x.data]} \cup Entries[x.left] \cup Entries[x.right]
  <1> DEFINE V == SUBSET Entry
             E(x, l, r) == IF x = NULL THEN {} ELSE {[key |-> x.key, data |-> x.data]} \cup l \cup r
  <1>1. PICK step : step = [x \in Tree |-> [l \in V |-> [r \in V |-> E(x, l, r)]]]
    OBVIOUS
  <1>2. \A x \in Tree, l \in V, r \in V : E(x, l, r) \in V
    BY TreeNode, AllNode DEF Entry
  <1>3. /\ step \in [Tree -> [V -> [V -> V]]]
        /\ \A x \in Tree, l \in V, r \in V : step[x][l][r] = E(x, l, r)
    <2> HIDE DEF V, E
    <2> QED
      BY <1>1, <1>2
  <1>4. PICK f : Recursive(V, {}, step, f)
    <2>1. {} \in V /\ step \in [Tree -> [V -> [V -> V]]]
      BY <1>3, Zenon
    <2> HIDE DEF V, E
    <2> QED
      BY <2>1, RecursiveExists
  <1>5. f = [x \in Tree |-> IF x = NULL THEN {}
                            ELSE {[key |-> x.key, data |-> x.data]} \cup f[x.left] \cup f[x.right]]
    <2>1. ASSUME NEW x \in Tree, x # NULL
          PROVE  step[x][f[x.left]][f[x.right]]
                    = {[key |-> x.key, data |-> x.data]} \cup f[x.left] \cup f[x.right]
      <3>1. x.left \in Tree /\ x.right \in Tree
        BY <2>1, TreeNode
      <3>2. f[x.left] \in V /\ f[x.right] \in V
        BY <1>4, <3>1, Zenon DEF Recursive
      <3>3. step[x][f[x.left]][f[x.right]] = E(x, f[x.left], f[x.right])
        <4> HIDE DEF V, E
        <4> QED
          BY <1>3, <3>2
      <3> QED
        BY <2>1, <3>3, Zenon
    <2> QED
      BY <1>4, <2>1, Zenon DEF Recursive
  <1>6. Entries = [x \in Tree |-> IF x = NULL THEN {}
                    ELSE {[key |-> x.key, data |-> x.data]} \cup Entries[x.left] \cup Entries[x.right]]
    BY <1>5, Zenon DEF Entries
  <1>7. NULL \in Tree
    BY TreeIs, AllNull, TreeAssumption
  <1>8. \A x \in Tree : x # NULL =>
            Entries[x] = {[key |-> x.key, data |-> x.data]} \cup Entries[x.left] \cup Entries[x.right]
    BY <1>6, Zenon
  <1>9. Entries[NULL] = {}
    BY <1>6, <1>7, Zenon
  <1>10. \A x \in Tree : Entries[x] \subseteq Entry
    <2> DEFINE S == {x \in Tree : Entries[x] \subseteq Entry}
    <2>1. NULL \in S
      BY <1>7, <1>9
    <2>2. ASSUME NEW x \in Tree, x # NULL, x.left \in S, x.right \in S PROVE x \in S
      <3>1. x.key \in Key /\ x.data \in Data
        BY <2>2, TreeNode, AllNode
      <3> QED
        BY <1>8, <2>2, <3>1 DEF Entry
    <2>3. \A x \in Tree : x \in S
      <3> HIDE DEF S
      <3> QED
        BY <2>1, <2>2, TreeInduct
    <2> QED
      BY <2>3
  <1> QED
    BY <1>8, <1>9, <1>10

\* NULL is within every bound.
LEMMA NullInTree == NULL \in Tree
  BY TreeIs, AllNull, TreeAssumption

\* The subtrees of a node are itself and those of its children.
LEMMA SubtreesDefined ==
    /\ Subtrees[NULL] = {}
    /\ \A x \in Tree : Subtrees[x] \subseteq Tree
    /\ \A x \in Tree : x # NULL =>
            Subtrees[x] = {x} \cup Subtrees[x.left] \cup Subtrees[x.right]
  <1> DEFINE V == SUBSET Tree
             E(x, l, r) == IF x = NULL THEN {} ELSE {x} \cup l \cup r
  <1>1. PICK step : step = [x \in Tree |-> [l \in V |-> [r \in V |-> E(x, l, r)]]]
    OBVIOUS
  <1>2. \A x \in Tree, l \in V, r \in V : E(x, l, r) \in V
    OBVIOUS
  <1>3. /\ step \in [Tree -> [V -> [V -> V]]]
        /\ \A x \in Tree, l \in V, r \in V : step[x][l][r] = E(x, l, r)
    <2> HIDE DEF V, E
    <2> QED
      BY <1>1, <1>2
  <1>4. PICK f : Recursive(V, {}, step, f)
    <2>1. {} \in V /\ step \in [Tree -> [V -> [V -> V]]]
      BY <1>3, Zenon
    <2> HIDE DEF V, E
    <2> QED
      BY <2>1, RecursiveExists
  <1>5. f = [x \in Tree |-> IF x = NULL THEN {} ELSE {x} \cup f[x.left] \cup f[x.right]]
    <2>1. ASSUME NEW x \in Tree, x # NULL
          PROVE  step[x][f[x.left]][f[x.right]] = {x} \cup f[x.left] \cup f[x.right]
      <3>1. x.left \in Tree /\ x.right \in Tree
        BY <2>1, TreeNode
      <3>2. f[x.left] \in V /\ f[x.right] \in V
        BY <1>4, <3>1, Zenon DEF Recursive
      <3>3. step[x][f[x.left]][f[x.right]] = E(x, f[x.left], f[x.right])
        <4> HIDE DEF V, E
        <4> QED
          BY <1>3, <3>2
      <3> QED
        BY <2>1, <3>3, Zenon
    <2> QED
      BY <1>4, <2>1, Zenon DEF Recursive
  <1>6. Subtrees = [x \in Tree |-> IF x = NULL THEN {}
                        ELSE {x} \cup Subtrees[x.left] \cup Subtrees[x.right]]
    BY <1>5, Zenon DEF Subtrees
  <1>7. \A x \in Tree : x # NULL => Subtrees[x] = {x} \cup Subtrees[x.left] \cup Subtrees[x.right]
    BY <1>6, Zenon
  <1>8. Subtrees[NULL] = {}
    BY <1>6, NullInTree, Zenon
  <1>9. \A x \in Tree : Subtrees[x] \subseteq Tree
    <2> DEFINE S == {x \in Tree : Subtrees[x] \subseteq Tree}
    <2>1. NULL \in S
      BY <1>8, NullInTree
    <2>2. ASSUME NEW x \in Tree, x # NULL, x.left \in S, x.right \in S PROVE x \in S
      BY <1>7, <2>2
    <2>3. \A x \in Tree : x \in S
      <3> HIDE DEF S
      <3> QED
        BY <2>1, <2>2, TreeInduct
    <2> QED
      BY <2>3
  <1> QED
    BY <1>7, <1>8, <1>9

------------------------------------------------------------------------------
\* Rotations and the balancing of trees give trees.
LEMMA RotatesTree ==
    ASSUME NEW x \in AllTrees, x # NULL
    PROVE  /\ x.right # NULL => left_rotate(x) \in AllTrees \ {NULL}
           /\ x.left # NULL => right_rotate(x) \in AllTrees \ {NULL}
  <1>1. x.key \in Key /\ x.data \in Data /\ x.left \in AllTrees /\ x.right \in AllTrees
    BY AllNode
  <1>2. ASSUME x.right # NULL PROVE left_rotate(x) \in AllTrees \ {NULL}
    <2>1. PICK y \in AllTrees : y = x.right
      BY <1>1
    <2>2. y.key \in Key /\ y.data \in Data /\ y.left \in AllTrees /\ y.right \in AllTrees
      BY <1>2, <2>1, AllNode
    <2>3. PICK z \in AllTrees : z = Node(x.key, x.data, x.left, y.left)
      BY <1>1, <2>2, NodeReads
    <2>4. left_rotate(x) = Node(y.key, y.data, z, y.right)
      BY <2>1, <2>3 DEF left_rotate, WithLeft, WithRight
    <2> QED
      BY <2>2, <2>4, NodeReads
  <1>3. ASSUME x.left # NULL PROVE right_rotate(x) \in AllTrees \ {NULL}
    <2>1. PICK y \in AllTrees : y = x.left
      BY <1>1
    <2>2. y.key \in Key /\ y.data \in Data /\ y.left \in AllTrees /\ y.right \in AllTrees
      BY <1>3, <2>1, AllNode
    <2>3. PICK z \in AllTrees : z = Node(x.key, x.data, y.right, x.right)
      BY <1>1, <2>2, NodeReads
    <2>4. right_rotate(x) = Node(y.key, y.data, y.left, z)
      BY <2>1, <2>3 DEF right_rotate, WithLeft, WithRight
    <2> QED
      BY <2>2, <2>4, NodeReads
  <1> QED
    BY <1>2, <1>3

\* balance makes a node of a node.
LEMMA BalanceTree ==
    ASSUME NEW x \in AllTrees, x # NULL
    PROVE  balance(x) \in AllTrees \ {NULL}
  <1>1. x.key \in Key /\ x.data \in Data /\ x.left \in AllTrees /\ x.right \in AllTrees
    BY AllNode
  <1>2. /\ height(x.left) \in Nat /\ height(x.right) \in Nat
        /\ x.left = NULL <=> height(x.left) = 0
        /\ x.right = NULL <=> height(x.right) = 0
    BY <1>1, AllReads
  <1>3. CASE diff(x) >= 2
    <2>1. PICK y \in AllTrees : y = x.right
      BY <1>1
    <2>2. y # NULL
      BY <1>2, <1>3, <2>1 DEF diff
    <2>3. CASE diff(y) < 0
      <3>1. y.left \in AllTrees /\ y.right \in AllTrees
        BY <2>2, AllNode
      <3>2. /\ height(y.left) \in Nat /\ height(y.right) \in Nat
            /\ y.left = NULL <=> height(y.left) = 0
        BY <3>1, AllReads
      <3>3. y.left # NULL
        BY <2>3, <3>2 DEF diff
      <3>4. PICK z \in AllTrees : z = right_rotate(y) /\ z # NULL
        BY <2>2, <3>3, RotatesTree
      <3>5. PICK w \in AllTrees : w = Node(x.key, x.data, x.left, z) /\ w # NULL /\ w.right = z
        BY <1>1, NodeReads
      <3>6. balance(x) = left_rotate(w)
        BY <1>3, <2>1, <2>3, <3>4, <3>5, Zenon DEF balance, WithRight
      <3> QED
        BY <3>4, <3>5, <3>6, RotatesTree
    <2>4. CASE ~(diff(y) < 0)
      <3>1. balance(x) = left_rotate(x)
        BY <1>3, <2>1, <2>4, Zenon DEF balance
      <3> QED
        BY <2>1, <2>2, <3>1, RotatesTree
    <2> QED
      BY <2>3, <2>4
  <1>4. CASE ~(diff(x) >= 2) /\ diff(x) <= -2
    <2>1. PICK y \in AllTrees : y = x.left
      BY <1>1
    <2>2. y # NULL
      BY <1>2, <1>4, <2>1 DEF diff
    <2>3. CASE diff(y) > 0
      <3>1. y.left \in AllTrees /\ y.right \in AllTrees
        BY <2>2, AllNode
      <3>2. /\ height(y.left) \in Nat /\ height(y.right) \in Nat
            /\ y.right = NULL <=> height(y.right) = 0
        BY <3>1, AllReads
      <3>3. y.right # NULL
        BY <2>3, <3>2 DEF diff
      <3>4. PICK z \in AllTrees : z = left_rotate(y) /\ z # NULL
        BY <2>2, <3>3, RotatesTree
      <3>5. PICK w \in AllTrees : w = Node(x.key, x.data, z, x.right) /\ w # NULL /\ w.left = z
        BY <1>1, NodeReads
      <3>6. balance(x) = right_rotate(w)
        BY <1>4, <2>1, <2>3, <3>4, <3>5, Zenon DEF balance, WithLeft
      <3> QED
        BY <3>4, <3>5, <3>6, RotatesTree
    <2>4. CASE ~(diff(y) > 0)
      <3>1. balance(x) = right_rotate(x)
        BY <1>4, <2>1, <2>4, Zenon DEF balance
      <3> QED
        BY <2>1, <2>2, <3>1, RotatesTree
    <2> QED
      BY <2>3, <2>4
  <1>5. CASE ~(diff(x) >= 2) /\ ~(diff(x) <= -2)
    BY <1>5, Zenon DEF balance
  <1> QED
    BY <1>3, <1>4, <1>5

------------------------------------------------------------------------------
\* What the recursive functions of avltree.c do at a node.
LEMMA InsertReads ==
    ASSUME NEW k \in Key, NEW d \in Data
    PROVE  /\ insert(NULL, k, d) = Node(k, d, NULL, NULL)
           /\ \A x \in Tree : x # NULL =>
                insert(x, k, d) = IF k < x.key THEN balance(WithLeft(x, insert(x.left, k, d)))
                                  ELSE balance(WithRight(x, insert(x.right, k, d)))
  <1> DEFINE At(x, l, r) == IF k < x.key THEN balance(WithLeft(x, l)) ELSE balance(WithRight(x, r))
             E(x, l, r) == IF x = NULL THEN Node(k, d, NULL, NULL) ELSE At(x, l, r)
  <1>1. PICK step : step = [x \in Tree |-> [l \in AllTrees |-> [r \in AllTrees |-> E(x, l, r)]]]
    OBVIOUS
  <1>2. Node(k, d, NULL, NULL) \in AllTrees
    BY AllNull, NodeReads
  <1>3. ASSUME NEW x \in Tree, NEW l \in AllTrees, NEW r \in AllTrees, x # NULL
        PROVE  At(x, l, r) \in AllTrees
    <2>1. x.key \in Key /\ x.data \in Data /\ x.left \in AllTrees /\ x.right \in AllTrees
      BY <1>3, TreeIs, AllNode
    <2>2. PICK u \in AllTrees : u = WithLeft(x, l) /\ u # NULL
      BY <2>1, NodeReads DEF WithLeft
    <2>3. PICK v \in AllTrees : v = WithRight(x, r) /\ v # NULL
      BY <2>1, NodeReads DEF WithRight
    <2>4. balance(u) \in AllTrees /\ balance(v) \in AllTrees
      BY <2>2, <2>3, BalanceTree
    <2> QED
      BY <2>2, <2>3, <2>4, Zenon
  <1>4. \A x \in Tree, l \in AllTrees, r \in AllTrees : E(x, l, r) \in AllTrees
    <2> HIDE DEF At
    <2> QED
      BY <1>2, <1>3
  <1>5. /\ step \in [Tree -> [AllTrees -> [AllTrees -> AllTrees]]]
        /\ \A x \in Tree, l \in AllTrees, r \in AllTrees : step[x][l][r] = E(x, l, r)
    <2> HIDE DEF E
    <2> QED
      BY <1>1, <1>4
  <1>6. PICK f : Recursive(AllTrees, Node(k, d, NULL, NULL), step, f)
    <2>1. step \in [Tree -> [AllTrees -> [AllTrees -> AllTrees]]]
      BY <1>5, Zenon
    <2> HIDE DEF E
    <2> QED
      BY <1>2, <2>1, RecursiveExists
  <1>7. f = [x \in Tree |-> IF x = NULL THEN Node(k, d, NULL, NULL)
                ELSE IF k < x.key THEN balance(WithLeft(x, f[x.left]))
                ELSE balance(WithRight(x, f[x.right]))]
    <2>1. ASSUME NEW x \in Tree, x # NULL
          PROVE  step[x][f[x.left]][f[x.right]] = At(x, f[x.left], f[x.right])
      <3>1. x.left \in Tree /\ x.right \in Tree
        BY <2>1, TreeNode
      <3>2. f[x.left] \in AllTrees /\ f[x.right] \in AllTrees
        BY <1>6, <3>1, Zenon DEF Recursive
      <3>3. step[x][f[x.left]][f[x.right]] = E(x, f[x.left], f[x.right])
        <4> HIDE DEF E
        <4> QED
          BY <1>5, <3>2
      <3> HIDE DEF At
      <3> QED
        BY <2>1, <3>3, Zenon
    <2> QED
      BY <1>6, <2>1, Zenon DEF Recursive
  <1>8. PICK ins :
          /\ ins = [x \in Tree |-> IF x = NULL THEN Node(k, d, NULL, NULL)
                ELSE IF k < x.key THEN balance(WithLeft(x, ins[x.left]))
                ELSE balance(WithRight(x, ins[x.right]))]
          /\ \A x : insert(x, k, d) = ins[x]
    <2>1. PICK g : g = CHOOSE i : i = [x \in Tree |->
                IF x = NULL THEN Node(k, d, NULL, NULL)
                ELSE IF k < x.key THEN balance(WithLeft(x, i[x.left]))
                ELSE balance(WithRight(x, i[x.right]))]
      OBVIOUS
    <2>2. \A x : insert(x, k, d) = g[x]
      BY <2>1, Zenon DEF insert
    <2>3. g = [x \in Tree |-> IF x = NULL THEN Node(k, d, NULL, NULL)
                ELSE IF k < x.key THEN balance(WithLeft(x, g[x.left]))
                ELSE balance(WithRight(x, g[x.right]))]
      BY <1>7, <2>1, Zenon
    <2> QED
      BY <2>2, <2>3, Zenon
  <1>9. ins[NULL] = Node(k, d, NULL, NULL)
    BY <1>8, NullInTree, Zenon
  <1>10. \A x \in Tree : x # NULL =>
            ins[x] = IF k < x.key THEN balance(WithLeft(x, ins[x.left]))
                     ELSE balance(WithRight(x, ins[x.right]))
    BY <1>8, Zenon
  <1> QED
    BY <1>8, <1>9, <1>10, Zenon

\* find goes left for a smaller key, right for a greater one.
LEMMA FindReads ==
    ASSUME NEW k
    PROVE  /\ find(NULL, k) = NULL
           /\ \A x \in Tree : x # NULL =>
                find(x, k) = IF k < x.key THEN find(x.left, k)
                             ELSE IF k = x.key THEN x ELSE find(x.right, k)
  <1> DEFINE At(x, l, r) == IF k < x.key THEN l ELSE IF k = x.key THEN x ELSE r
             E(x, l, r) == IF x = NULL THEN NULL ELSE At(x, l, r)
  <1>1. PICK step : step = [x \in Tree |-> [l \in Tree |-> [r \in Tree |-> E(x, l, r)]]]
    OBVIOUS
  <1>2. \A x \in Tree, l \in Tree, r \in Tree : E(x, l, r) \in Tree
    BY NullInTree
  <1>3. /\ step \in [Tree -> [Tree -> [Tree -> Tree]]]
        /\ \A x \in Tree, l \in Tree, r \in Tree : step[x][l][r] = E(x, l, r)
    <2> HIDE DEF E
    <2> QED
      BY <1>1, <1>2
  <1>4. PICK f : Recursive(Tree, NULL, step, f)
    <2>1. step \in [Tree -> [Tree -> [Tree -> Tree]]]
      BY <1>3, Zenon
    <2> HIDE DEF E
    <2> QED
      BY <2>1, NullInTree, RecursiveExists
  <1>5. f = [x \in Tree |-> IF x = NULL THEN NULL ELSE IF k < x.key THEN f[x.left]
                            ELSE IF k = x.key THEN x ELSE f[x.right]]
    <2>1. ASSUME NEW x \in Tree, x # NULL
          PROVE  step[x][f[x.left]][f[x.right]] = At(x, f[x.left], f[x.right])
      <3>1. x.left \in Tree /\ x.right \in Tree
        BY <2>1, TreeNode
      <3>2. f[x.left] \in Tree /\ f[x.right] \in Tree
        BY <1>4, <3>1, Zenon DEF Recursive
      <3>3. step[x][f[x.left]][f[x.right]] = E(x, f[x.left], f[x.right])
        <4> HIDE DEF E
        <4> QED
          BY <1>3, <3>2
      <3> HIDE DEF At
      <3> QED
        BY <2>1, <3>3, Zenon
    <2> QED
      BY <1>4, <2>1, Zenon DEF Recursive
  <1>6. PICK search :
          /\ search = [x \in Tree |-> IF x = NULL THEN NULL ELSE IF k < x.key THEN search[x.left]
                            ELSE IF k = x.key THEN x ELSE search[x.right]]
          /\ \A x : find(x, k) = search[x]
    <2>1. PICK g : g = CHOOSE s : s = [x \in Tree |->
                            IF x = NULL THEN NULL ELSE IF k < x.key THEN s[x.left]
                            ELSE IF k = x.key THEN x ELSE s[x.right]]
      OBVIOUS
    <2>2. \A x : find(x, k) = g[x]
      BY <2>1, Zenon DEF find
    <2>3. g = [x \in Tree |-> IF x = NULL THEN NULL ELSE IF k < x.key THEN g[x.left]
                            ELSE IF k = x.key THEN x ELSE g[x.right]]
      BY <1>5, <2>1, Zenon
    <2> QED
      BY <2>2, <2>3, Zenon
  <1>7. search[NULL] = NULL
    BY <1>6, NullInTree, Zenon
  <1>8. \A x \in Tree : x # NULL =>
            search[x] = IF k < x.key THEN search[x.left]
                        ELSE IF k = x.key THEN x ELSE search[x.right]
    BY <1>6, Zenon
  <1> QED
    BY <1>6, <1>7, <1>8, Zenon

\* min_node descends to the left, and ends at a node.
LEMMA MinNodeReads ==
    \A x \in Tree \ {NULL} :
        /\ min_node[x] = IF x.left = NULL THEN x ELSE min_node[x.left]
        /\ min_node[x] \in Tree \ {NULL}
  <1> DEFINE E(x, l, r) == IF x = NULL THEN NULL ELSE IF x.left = NULL THEN x ELSE l
  <1>1. PICK step : step = [x \in Tree |-> [l \in Tree |-> [r \in Tree |-> E(x, l, r)]]]
    OBVIOUS
  <1>2. \A x \in Tree, l \in Tree, r \in Tree : E(x, l, r) \in Tree
    BY NullInTree
  <1>3. /\ step \in [Tree -> [Tree -> [Tree -> Tree]]]
        /\ \A x \in Tree, l \in Tree, r \in Tree : step[x][l][r] = E(x, l, r)
    <2> HIDE DEF E
    <2> QED
      BY <1>1, <1>2
  <1>4. PICK f : Recursive(Tree, NULL, step, f)
    <2>1. step \in [Tree -> [Tree -> [Tree -> Tree]]]
      BY <1>3, Zenon
    <2> HIDE DEF E
    <2> QED
      BY <2>1, NullInTree, RecursiveExists
  <1>5. ASSUME NEW x \in Tree, x # NULL
        PROVE  f[x] = IF x.left = NULL THEN x ELSE f[x.left]
    <2>1. x.left \in Tree /\ x.right \in Tree
      BY <1>5, TreeNode
    <2>2. f[x.left] \in Tree /\ f[x.right] \in Tree
      BY <1>4, <2>1, Zenon DEF Recursive
    <2>3. step[x][f[x.left]][f[x.right]] = E(x, f[x.left], f[x.right])
      <3> HIDE DEF E
      <3> QED
        BY <1>3, <2>2
    <2>4. f[x] = step[x][f[x.left]][f[x.right]]
      BY <1>4, <1>5, Zenon DEF Recursive
    <2> QED
      BY <1>5, <2>3, <2>4, Zenon
  <1>6. PICK g : g = [x \in Tree \ {NULL} |-> f[x]]
    OBVIOUS
  <1>7. g = [x \in Tree \ {NULL} |-> IF x.left = NULL THEN x ELSE g[x.left]]
    <2>1. ASSUME NEW x \in Tree \ {NULL}
          PROVE  f[x] = IF x.left = NULL THEN x ELSE g[x.left]
      <3>1. x.left \in Tree
        BY TreeNode
      <3>2. x.left # NULL => g[x.left] = f[x.left]
        BY <1>6, <3>1
      <3> QED
        BY <1>5, <3>2
    <2> QED
      BY <1>6, <2>1, Zenon
  <1>8. min_node = [x \in Tree \ {NULL} |-> IF x.left = NULL THEN x ELSE min_node[x.left]]
    BY <1>7, Zenon DEF min_node
  <1>9. \A x \in Tree \ {NULL} : min_node[x] = IF x.left = NULL THEN x ELSE min_node[x.left]
    BY <1>8, Zenon
  <1>10. \A x \in Tree : x # NULL => min_node[x] \in Tree \ {NULL}
    <2> DEFINE S == {x \in Tree : x # NULL => min_node[x] \in Tree \ {NULL}}
    <2>1. NULL \in S
      BY NullInTree
    <2>2. ASSUME NEW x \in Tree, x # NULL, x.left \in S, x.right \in S PROVE x \in S
      BY <1>9, <2>2
    <2>3. \A x \in Tree : x \in S
      <3> HIDE DEF S
      <3> QED
        BY <2>1, <2>2, TreeInduct
    <2> QED
      BY <2>3
  <1> QED
    BY <1>9, <1>10

\* delete_min descends to the left and rebalances on the way back.
LEMMA DeleteMinReads ==
    \A x \in Tree \ {NULL} :
        /\ delete_min[x] = IF x.left = NULL THEN x.right
                           ELSE balance(WithLeft(x, delete_min[x.left]))
        /\ delete_min[x] \in AllTrees
  <1> DEFINE E(x, l, r) == IF x = NULL THEN NULL ELSE IF x.left = NULL THEN x.right
                           ELSE balance(WithLeft(x, l))
  <1>1. PICK step : step = [x \in Tree |-> [l \in AllTrees |-> [r \in AllTrees |-> E(x, l, r)]]]
    OBVIOUS
  <1>2. ASSUME NEW x \in Tree, NEW l \in AllTrees, x # NULL
        PROVE  balance(WithLeft(x, l)) \in AllTrees /\ x.right \in AllTrees
    <2>1. x.key \in Key /\ x.data \in Data /\ x.left \in AllTrees /\ x.right \in AllTrees
      BY <1>2, TreeIs, AllNode
    <2>2. PICK u \in AllTrees : u = WithLeft(x, l) /\ u # NULL
      BY <2>1, NodeReads DEF WithLeft
    <2>3. balance(u) \in AllTrees
      BY <2>2, BalanceTree
    <2> QED
      BY <2>1, <2>2, <2>3, Zenon
  <1>3. \A x \in Tree, l \in AllTrees, r \in AllTrees : E(x, l, r) \in AllTrees
    BY <1>2, AllNull
  <1>4. /\ step \in [Tree -> [AllTrees -> [AllTrees -> AllTrees]]]
        /\ \A x \in Tree, l \in AllTrees, r \in AllTrees : step[x][l][r] = E(x, l, r)
    <2> HIDE DEF E
    <2> QED
      BY <1>1, <1>3
  <1>5. PICK f : Recursive(AllTrees, NULL, step, f)
    <2>1. step \in [Tree -> [AllTrees -> [AllTrees -> AllTrees]]]
      BY <1>4, Zenon
    <2> HIDE DEF E
    <2> QED
      BY <2>1, AllNull, RecursiveExists
  <1>6. ASSUME NEW x \in Tree, x # NULL
        PROVE  f[x] = IF x.left = NULL THEN x.right ELSE balance(WithLeft(x, f[x.left]))
    <2>1. x.left \in Tree /\ x.right \in Tree
      BY <1>6, TreeNode
    <2>2. f[x.left] \in AllTrees /\ f[x.right] \in AllTrees
      BY <1>5, <2>1, Zenon DEF Recursive
    <2>3. step[x][f[x.left]][f[x.right]] = E(x, f[x.left], f[x.right])
      <3> HIDE DEF E
      <3> QED
        BY <1>4, <2>2
    <2>4. f[x] = step[x][f[x.left]][f[x.right]]
      BY <1>5, <1>6, Zenon DEF Recursive
    <2> QED
      BY <1>6, <2>3, <2>4, Zenon
  <1>7. PICK g : g = [x \in Tree \ {NULL} |-> f[x]]
    OBVIOUS
  <1>8. g = [x \in Tree \ {NULL} |-> IF x.left = NULL THEN x.right
                                     ELSE balance(WithLeft(x, g[x.left]))]
    <2>1. ASSUME NEW x \in Tree \ {NULL}
          PROVE  f[x] = IF x.left = NULL THEN x.right ELSE balance(WithLeft(x, g[x.left]))
      <3>1. x.left \in Tree
        BY TreeNode
      <3>2. x.left # NULL => g[x.left] = f[x.left]
        BY <1>7, <3>1
      <3>3. x \in Tree /\ x # NULL
        OBVIOUS
      <3>4. f[x] = IF x.left = NULL THEN x.right ELSE balance(WithLeft(x, f[x.left]))
        BY <1>6, <3>3, Zenon
      <3> QED
        BY <3>2, <3>4, Zenon
    <2> QED
      BY <1>7, <2>1, Zenon
  <1>9. delete_min = [x \in Tree \ {NULL} |-> IF x.left = NULL THEN x.right
                                              ELSE balance(WithLeft(x, delete_min[x.left]))]
    BY <1>8, Zenon DEF delete_min
  <1>10. \A x \in Tree \ {NULL} :
            delete_min[x] = IF x.left = NULL THEN x.right
                            ELSE balance(WithLeft(x, delete_min[x.left]))
    BY <1>9, Zenon
  <1>11. \A x \in Tree : x # NULL => delete_min[x] \in AllTrees
    <2> DEFINE S == {x \in Tree : x # NULL => delete_min[x] \in AllTrees}
    <2>1. NULL \in S
      BY NullInTree
    <2>2. ASSUME NEW x \in Tree, x # NULL, x.left \in S, x.right \in S PROVE x \in S
      <3>1. CASE x.left = NULL
        <4>1. x.right \in AllTrees
          BY <2>2, TreeIs, AllNode
        <4>2. delete_min[x] = x.right
          BY <1>10, <2>2, <3>1
        <4> QED
          BY <4>1, <4>2
      <3>2. CASE x.left # NULL
        <4>1. delete_min[x.left] \in AllTrees
          BY <2>2, <3>2
        <4>2. x \in Tree \ {NULL}
          BY <2>2
        <4>3. delete_min[x] = balance(WithLeft(x, delete_min[x.left]))
          BY <1>10, <3>2, <4>2, Zenon
        <4>4. delete_min[x] \in AllTrees
          BY <1>2, <2>2, <4>1, <4>3
        <4> QED
          BY <4>4
      <3> QED
        BY <3>1, <3>2
    <2>3. \A x \in Tree : x \in S
      <3> HIDE DEF S
      <3> QED
        BY <2>1, <2>2, TreeInduct
    <2> QED
      BY <2>3
  <1> QED
    BY <1>10, <1>11

\* What takes the place of a deleted node is a tree.
LEMMA ReplaceTree ==
    ASSUME NEW x \in Tree, x # NULL, x.right # NULL
    PROVE  Replace(x) \in AllTrees
  <1>1. x.left \in AllTrees /\ x.right \in Tree \ {NULL}
    BY TreeNode, TreeIs
  <1>2. PICK m \in Tree \ {NULL} : m = min_node[x.right]
    BY <1>1, MinNodeReads
  <1>3. m.key \in Key /\ m.data \in Data
    BY TreeIs, AllNode
  <1>4. PICK c \in AllTrees : c = delete_min[x.right]
    BY <1>1, DeleteMinReads
  <1>5. PICK n \in AllTrees : n = Node(m.key, m.data, x.left, c) /\ n # NULL
    BY <1>1, <1>3, NodeReads
  <1>6. Replace(x) = balance(n)
    BY <1>2, <1>4, <1>5, Zenon DEF Replace
  <1> QED
    BY <1>5, <1>6, BalanceTree

\* delete_key looks for the key as find does and rebalances on the way back.
LEMMA DeleteReads ==
    ASSUME NEW k
    PROVE  /\ delete_key(NULL, k) = NULL
           /\ \A x \in Tree : x # NULL =>
                delete_key(x, k) =
                    IF k < x.key THEN balance(WithLeft(x, delete_key(x.left, k)))
                    ELSE IF k > x.key THEN balance(WithRight(x, delete_key(x.right, k)))
                    ELSE IF x.right = NULL THEN x.left ELSE Replace(x)
  <1> DEFINE At(x, l, r) == IF k < x.key THEN balance(WithLeft(x, l))
                            ELSE IF k > x.key THEN balance(WithRight(x, r))
                            ELSE IF x.right = NULL THEN x.left ELSE Replace(x)
             E(x, l, r) == IF x = NULL THEN NULL ELSE At(x, l, r)
  <1>1. PICK step : step = [x \in Tree |-> [l \in AllTrees |-> [r \in AllTrees |-> E(x, l, r)]]]
    OBVIOUS
  <1>2. ASSUME NEW x \in Tree, NEW l \in AllTrees, NEW r \in AllTrees, x # NULL
        PROVE  At(x, l, r) \in AllTrees
    <2>1. x.key \in Key /\ x.data \in Data /\ x.left \in AllTrees /\ x.right \in AllTrees
      BY <1>2, TreeIs, AllNode
    <2>2. PICK u \in AllTrees : u = WithLeft(x, l) /\ u # NULL
      BY <2>1, NodeReads DEF WithLeft
    <2>3. PICK v \in AllTrees : v = WithRight(x, r) /\ v # NULL
      BY <2>1, NodeReads DEF WithRight
    <2>4. balance(u) \in AllTrees /\ balance(v) \in AllTrees
      BY <2>2, <2>3, BalanceTree
    <2>5. x.right # NULL => Replace(x) \in AllTrees
      BY <1>2, ReplaceTree
    <2> QED
      BY <2>1, <2>2, <2>3, <2>4, <2>5, Zenon
  <1>3. \A x \in Tree, l \in AllTrees, r \in AllTrees : E(x, l, r) \in AllTrees
    <2> HIDE DEF At
    <2> QED
      BY <1>2, AllNull
  <1>4. /\ step \in [Tree -> [AllTrees -> [AllTrees -> AllTrees]]]
        /\ \A x \in Tree, l \in AllTrees, r \in AllTrees : step[x][l][r] = E(x, l, r)
    <2> HIDE DEF E
    <2> QED
      BY <1>1, <1>3
  <1>5. PICK f : Recursive(AllTrees, NULL, step, f)
    <2>1. step \in [Tree -> [AllTrees -> [AllTrees -> AllTrees]]]
      BY <1>4, Zenon
    <2> HIDE DEF E
    <2> QED
      BY <2>1, AllNull, RecursiveExists
  <1>6. f = [x \in Tree |-> IF x = NULL THEN NULL
                ELSE IF k < x.key THEN balance(WithLeft(x, f[x.left]))
                ELSE IF k > x.key THEN balance(WithRight(x, f[x.right]))
                ELSE IF x.right = NULL THEN x.left ELSE Replace(x)]
    <2>1. ASSUME NEW x \in Tree, x # NULL
          PROVE  step[x][f[x.left]][f[x.right]] = At(x, f[x.left], f[x.right])
      <3>1. x.left \in Tree /\ x.right \in Tree
        BY <2>1, TreeNode
      <3>2. f[x.left] \in AllTrees /\ f[x.right] \in AllTrees
        BY <1>5, <3>1, Zenon DEF Recursive
      <3>3. step[x][f[x.left]][f[x.right]] = E(x, f[x.left], f[x.right])
        <4> HIDE DEF E
        <4> QED
          BY <1>4, <3>2
      <3> HIDE DEF At
      <3> QED
        BY <2>1, <3>3, Zenon
    <2> QED
      BY <1>5, <2>1, Zenon DEF Recursive
  <1>7. PICK del :
          /\ del = [x \in Tree |-> IF x = NULL THEN NULL
                ELSE IF k < x.key THEN balance(WithLeft(x, del[x.left]))
                ELSE IF k > x.key THEN balance(WithRight(x, del[x.right]))
                ELSE IF x.right = NULL THEN x.left ELSE Replace(x)]
          /\ \A x : delete_key(x, k) = del[x]
    <2>1. PICK g : g = CHOOSE h : h = [x \in Tree |-> IF x = NULL THEN NULL
                ELSE IF k < x.key THEN balance(WithLeft(x, h[x.left]))
                ELSE IF k > x.key THEN balance(WithRight(x, h[x.right]))
                ELSE IF x.right = NULL THEN x.left ELSE Replace(x)]
      OBVIOUS
    <2>2. \A x : delete_key(x, k) = g[x]
      BY <2>1, Zenon DEF delete_key
    <2>3. g = [x \in Tree |-> IF x = NULL THEN NULL
                ELSE IF k < x.key THEN balance(WithLeft(x, g[x.left]))
                ELSE IF k > x.key THEN balance(WithRight(x, g[x.right]))
                ELSE IF x.right = NULL THEN x.left ELSE Replace(x)]
      BY <1>6, <2>1, Zenon
    <2> QED
      BY <2>2, <2>3, Zenon
  <1>8. del[NULL] = NULL
    BY <1>7, NullInTree, Zenon
  <1>9. \A x \in Tree : x # NULL =>
            del[x] = IF k < x.key THEN balance(WithLeft(x, del[x.left]))
                     ELSE IF k > x.key THEN balance(WithRight(x, del[x.right]))
                     ELSE IF x.right = NULL THEN x.left ELSE Replace(x)
    BY <1>7, Zenon
  <1> QED
    BY <1>7, <1>8, <1>9, Zenon

------------------------------------------------------------------------------
\* What a node makes of its children.
EntryOf(x) == [key |-> x.key, data |-> x.data]

\* The entry e fits between those on its left and those on its right.
Fits(e, left, right) ==
    /\ \A a \in left : a.key <= e.key
    /\ \A b \in right : b.key >= e.key
    /\ e \notin left /\ e \notin right /\ left \cap right = {}

\* Ordered and balanced throughout, no entry twice.
Good(x) ==
    \A y \in Subtrees[x] :
        diff(y) \in -1..1 /\ Fits(EntryOf(y), Entries[y.left], Entries[y.right])

\* The empty tree is good.
LEMMA GoodNull == Good(NULL)
  BY SubtreesDefined DEF Good

\* A node is good if its children are, they are in balance, and its entry fits
\* between theirs.
LEMMA GoodNode ==
    ASSUME NEW x \in Tree, x # NULL
    PROVE  Good(x) <=> /\ Good(x.left) /\ Good(x.right) /\ diff(x) \in -1..1
                       /\ Fits(EntryOf(x), Entries[x.left], Entries[x.right])
  <1>1. Subtrees[x] = {x} \cup Subtrees[x.left] \cup Subtrees[x.right]
    BY SubtreesDefined
  <1> QED
    BY <1>1, Zenon DEF Good

\* A node of trees below the bound is within it.
LEMMA NodeMade ==
    ASSUME NEW k \in Key, NEW d \in Data, NEW l \in Tree, NEW r \in Tree,
           height(l) < MaxHeight, height(r) < MaxHeight
    PROVE  /\ Node(k, d, l, r) \in Tree /\ Node(k, d, l, r) # NULL
           /\ Node(k, d, l, r).key = k /\ Node(k, d, l, r).data = d
           /\ Node(k, d, l, r).left = l /\ Node(k, d, l, r).right = r
           /\ height(Node(k, d, l, r)) = Max2(height(l), height(r)) + 1
           /\ EntryOf(Node(k, d, l, r)) = [key |-> k, data |-> d]
           /\ Entries[Node(k, d, l, r)] = {[key |-> k, data |-> d]} \cup Entries[l] \cup Entries[r]
  <1>1. l \in AllTrees /\ r \in AllTrees
    BY TreeIs
  <1>2. height(l) \in Nat /\ height(r) \in Nat
    BY <1>1, AllReads
  <1>3. PICK n : n = Node(k, d, l, r)
    OBVIOUS
  <1>4. /\ n \in AllTrees /\ n # NULL
        /\ n.key = k /\ n.data = d /\ n.left = l /\ n.right = r
        /\ height(n) = Max2(height(l), height(r)) + 1
    BY <1>1, <1>3, NodeReads
  <1>5. height(n) <= MaxHeight
    BY <1>2, <1>4, TreeAssumption DEF Max2
  <1>6. n \in Tree
    BY <1>4, <1>5, TreeIs
  <1>7. Entries[n] = {[key |-> k, data |-> d]} \cup Entries[l] \cup Entries[r]
    BY <1>4, <1>6, EntriesDefined
  <1> QED
    BY <1>3, <1>4, <1>6, <1>7 DEF EntryOf

\* A node is made good from good children.
LEMMA GoodMade ==
    ASSUME NEW k \in Key, NEW d \in Data, NEW l \in Tree, NEW r \in Tree,
           height(l) < MaxHeight, height(r) < MaxHeight, Good(l), Good(r),
           height(r) - height(l) \in -1..1,
           Fits([key |-> k, data |-> d], Entries[l], Entries[r])
    PROVE  Good(Node(k, d, l, r))
  <1>1. PICK n \in Tree : n = Node(k, d, l, r)
    BY NodeMade
  <1>2. /\ n # NULL /\ n.left = l /\ n.right = r
        /\ EntryOf(n) = [key |-> k, data |-> d]
    BY <1>1, NodeMade
  <1>3. diff(n) \in -1..1
    BY <1>2 DEF diff
  <1> QED
    BY <1>1, <1>2, <1>3, GoodNode

\* Three runs of entries and the two between them, seen from either of these.
LEMMA FitsTurned ==
    ASSUME NEW e \in Entry, NEW f \in Entry,
           NEW A \in SUBSET Entry, NEW B \in SUBSET Entry, NEW C \in SUBSET Entry
    PROVE  Fits(e, A, {f} \cup B \cup C) /\ Fits(f, B, C)
                <=> Fits(e, A, B) /\ Fits(f, {e} \cup A \cup B, C)
  <1>1. \A x \in Entry : x.key \in Int
    BY TreeAssumption DEF Entry
  <1>2. /\ \A x \in A : x.key \in Int /\ x \in Entry
        /\ \A x \in B : x.key \in Int /\ x \in Entry
        /\ \A x \in C : x.key \in Int /\ x \in Entry
        /\ e.key \in Int /\ f.key \in Int
    BY <1>1
  <1>3. ASSUME Fits(e, A, {f} \cup B \cup C), Fits(f, B, C)
        PROVE  Fits(e, A, B) /\ Fits(f, {e} \cup A \cup B, C)
    BY <1>2, <1>3 DEF Fits
  <1>4. ASSUME Fits(e, A, B), Fits(f, {e} \cup A \cup B, C)
        PROVE  Fits(e, A, {f} \cup B \cup C) /\ Fits(f, B, C)
    BY <1>2, <1>4 DEF Fits
  <1> QED
    BY <1>3, <1>4

\* What the rotations do to three trees and the two entries between them.
LEMMA RotateReads ==
    ASSUME NEW k \in Key, NEW d \in Data, NEW k2 \in Key, NEW d2 \in Data,
           NEW a \in AllTrees, NEW b \in AllTrees, NEW c \in AllTrees
    PROVE  /\ left_rotate(Node(k, d, a, Node(k2, d2, b, c))) = Node(k2, d2, Node(k, d, a, b), c)
           /\ right_rotate(Node(k2, d2, Node(k, d, a, b), c)) = Node(k, d, a, Node(k2, d2, b, c))
  <1>1. PICK p \in AllTrees : p = Node(k, d, a, b)
    BY NodeReads
  <1>2. p.key = k /\ p.data = d /\ p.left = a /\ p.right = b
    BY <1>1, NodeReads
  <1>3. PICK q \in AllTrees : q = Node(k2, d2, b, c)
    BY NodeReads
  <1>4. q.key = k2 /\ q.data = d2 /\ q.left = b /\ q.right = c
    BY <1>3, NodeReads
  <1>5. PICK x \in AllTrees : x = Node(k, d, a, q)
    BY NodeReads
  <1>6. x.key = k /\ x.data = d /\ x.left = a /\ x.right = q
    BY <1>5, NodeReads
  <1>7. PICK y \in AllTrees : y = Node(k2, d2, p, c)
    BY NodeReads
  <1>8. y.key = k2 /\ y.data = d2 /\ y.left = p /\ y.right = c
    BY <1>7, NodeReads
  <1>9. left_rotate(x) = y
    BY <1>1, <1>4, <1>6, <1>7, Zenon DEF left_rotate, WithLeft, WithRight
  <1>10. right_rotate(y) = x
    BY <1>2, <1>3, <1>5, <1>8, Zenon DEF right_rotate, WithLeft, WithRight
  <1> QED
    BY <1>1, <1>3, <1>5, <1>7, <1>9, <1>10, Zenon

------------------------------------------------------------------------------
\* A tree made of two good ones that differ by up to two levels.
Balanceable(k, d, l, r) ==
    /\ k \in Key /\ d \in Data /\ l \in Tree /\ r \in Tree
    /\ height(l) < MaxHeight /\ height(r) < MaxHeight
    /\ Good(l) /\ Good(r)
    /\ Fits([key |-> k, data |-> d], Entries[l], Entries[r])

\* The tree b has the entries E and is good.
Holds(b, E) == b \in Tree /\ Good(b) /\ Entries[b] = E

\* Four good trees in a row, the three entries between them in order, and no
\* height out of reach: the middle entry on top makes a good tree.
LEMMA HoldsMade ==
    ASSUME NEW k \in Key, NEW d \in Data, NEW l \in Tree, NEW r \in Tree,
           height(l) < MaxHeight, height(r) < MaxHeight, Good(l), Good(r),
           height(r) - height(l) \in -1..1,
           Fits([key |-> k, data |-> d], Entries[l], Entries[r])
    PROVE  /\ Holds(Node(k, d, l, r), {[key |-> k, data |-> d]} \cup Entries[l] \cup Entries[r])
           /\ height(Node(k, d, l, r)) = Max2(height(l), height(r)) + 1
  BY NodeMade, GoodMade DEF Holds

\* The single rotations.
LEMMA TurnedLeft ==
    ASSUME NEW k, NEW d, NEW l, NEW r, Balanceable(k, d, l, r),
           height(r) = height(l) + 2, diff(r) >= 0
    PROVE  /\ Holds(left_rotate(Node(k, d, l, r)),
                    {[key |-> k, data |-> d]} \cup Entries[l] \cup Entries[r])
           /\ height(left_rotate(Node(k, d, l, r))) \in {height(r), height(r) + 1}
  <1>1. /\ k \in Key /\ d \in Data /\ l \in Tree /\ r \in Tree
        /\ height(l) < MaxHeight /\ height(r) < MaxHeight /\ Good(l) /\ Good(r)
        /\ Fits([key |-> k, data |-> d], Entries[l], Entries[r])
    BY DEF Balanceable
  <1>2. height(l) \in Nat /\ height(r) \in Nat /\ (r = NULL <=> height(r) = 0)
    BY <1>1, TreeIs, AllReads
  <1>3. r # NULL
    BY <1>2
  <1>4. PICK b \in Tree, c \in Tree, k2 \in Key, d2 \in Data :
            r.left = b /\ r.right = c /\ r.key = k2 /\ r.data = d2
    BY <1>1, <1>3, TreeNode, AllNode
  <1>5. /\ r = Node(k2, d2, b, c) /\ height(r) = Max2(height(b), height(c)) + 1
        /\ l \in AllTrees /\ b \in AllTrees /\ c \in AllTrees
    BY <1>1, <1>3, <1>4, TreeIs, AllNode
  <1>6. height(b) \in Nat /\ height(c) \in Nat
    BY <1>5, AllReads
  <1>7. PICK e \in Entry, f \in Entry : e = [key |-> k, data |-> d] /\ f = [key |-> k2, data |-> d2]
    BY <1>1, <1>4 DEF Entry
  <1>8. /\ Good(b) /\ Good(c) /\ diff(r) = height(c) - height(b)
        /\ diff(r) \in -1..1 /\ Fits(f, Entries[b], Entries[c])
    BY <1>1, <1>3, <1>4, <1>7, GoodNode DEF diff, EntryOf
  <1>9. Entries[r] = {f} \cup Entries[b] \cup Entries[c]
    BY <1>1, <1>3, <1>4, <1>7, EntriesDefined
  <1>10. /\ height(c) = height(l) + 1
         /\ height(b) \in {height(l), height(l) + 1}
    BY <1>2, <1>5, <1>6, <1>8 DEF Max2
  <1>11. Fits(e, Entries[l], Entries[b]) /\ Fits(f, {e} \cup Entries[l] \cup Entries[b], Entries[c])
    <2>1. Entries[l] \in SUBSET Entry /\ Entries[b] \in SUBSET Entry /\ Entries[c] \in SUBSET Entry
      BY <1>1, EntriesDefined
    <2>2. Fits(e, Entries[l], {f} \cup Entries[b] \cup Entries[c])
      BY <1>1, <1>7, <1>9
    <2> QED
      BY <1>8, <2>1, <2>2, FitsTurned
  <1>12. PICK n : n = Node(k, d, l, b)
    OBVIOUS
  <1>13. Holds(n, {e} \cup Entries[l] \cup Entries[b]) /\ height(n) = height(b) + 1
    <2>1. height(b) < MaxHeight /\ height(b) - height(l) \in -1..1
          /\ Max2(height(l), height(b)) = height(b)
      BY <1>1, <1>2, <1>6, <1>10, TreeAssumption DEF Max2
    <2> QED
      BY <1>1, <1>7, <1>8, <1>11, <1>12, <2>1, HoldsMade
  <1>14. PICK m : m = Node(k2, d2, n, c)
    OBVIOUS
  <1>15. /\ Holds(m, {f} \cup Entries[n] \cup Entries[c])
         /\ height(m) \in {height(r), height(r) + 1}
    <2>1. n \in Tree /\ Good(n) /\ Entries[n] = {e} \cup Entries[l] \cup Entries[b]
      BY <1>13 DEF Holds
    <2>2. /\ height(n) < MaxHeight /\ height(c) < MaxHeight /\ height(c) - height(n) \in -1..1
          /\ Max2(height(n), height(c)) + 1 \in {height(r), height(r) + 1}
      BY <1>1, <1>2, <1>6, <1>10, <1>13, TreeAssumption DEF Max2
    <2> QED
      BY <1>7, <1>8, <1>11, <1>14, <2>1, <2>2, HoldsMade
  <1>16. Entries[n] = {e} \cup Entries[l] \cup Entries[b]
    BY <1>13 DEF Holds
  <1>17. {f} \cup Entries[n] \cup Entries[c] = {e} \cup Entries[l] \cup Entries[r]
    BY <1>9, <1>16
  <1>18. left_rotate(Node(k, d, l, r)) = m
    BY <1>1, <1>5, <1>12, <1>14, RotateReads
  <1> QED
    BY <1>7, <1>15, <1>17, <1>18

\* The double rotations.
LEMMA DoubleLeft ==
    ASSUME NEW k, NEW d, NEW l, NEW r, Balanceable(k, d, l, r),
           height(r) = height(l) + 2, diff(r) < 0
    PROVE  /\ Holds(left_rotate(Node(k, d, l, right_rotate(r))),
                    {[key |-> k, data |-> d]} \cup Entries[l] \cup Entries[r])
           /\ height(left_rotate(Node(k, d, l, right_rotate(r)))) \in {height(r), height(r) + 1}
  <1>1. /\ k \in Key /\ d \in Data /\ l \in Tree /\ r \in Tree
        /\ height(l) < MaxHeight /\ height(r) < MaxHeight /\ Good(l) /\ Good(r)
        /\ Fits([key |-> k, data |-> d], Entries[l], Entries[r])
    BY DEF Balanceable
  <1>2. height(l) \in Nat /\ height(r) \in Nat /\ (r = NULL <=> height(r) = 0)
    BY <1>1, TreeIs, AllReads
  <1>3. r # NULL
    BY <1>2
  <1>4. PICK z \in Tree, c \in Tree, k2 \in Key, d2 \in Data :
            r.left = z /\ r.right = c /\ r.key = k2 /\ r.data = d2
    BY <1>1, <1>3, TreeNode, AllNode
  <1>5. /\ r = Node(k2, d2, z, c) /\ height(r) = Max2(height(z), height(c)) + 1
        /\ l \in AllTrees /\ z \in AllTrees /\ c \in AllTrees
    BY <1>1, <1>3, <1>4, TreeIs, AllNode
  <1>6. height(z) \in Nat /\ height(c) \in Nat /\ (z = NULL <=> height(z) = 0)
    BY <1>5, AllReads
  <1>7. PICK e \in Entry, f \in Entry : e = [key |-> k, data |-> d] /\ f = [key |-> k2, data |-> d2]
    BY <1>1, <1>4 DEF Entry
  <1>8. /\ Good(z) /\ Good(c) /\ diff(r) = height(c) - height(z)
        /\ diff(r) \in -1..1 /\ Fits(f, Entries[z], Entries[c])
    BY <1>1, <1>3, <1>4, <1>7, GoodNode DEF diff, EntryOf
  <1>9. Entries[r] = {f} \cup Entries[z] \cup Entries[c]
    BY <1>1, <1>3, <1>4, <1>7, EntriesDefined
  <1>10. height(z) = height(l) + 1 /\ height(c) = height(l)
    BY <1>2, <1>5, <1>6, <1>8 DEF Max2
  <1>11. z # NULL
    BY <1>2, <1>6, <1>10
  <1>12. PICK p \in Tree, q \in Tree, k3 \in Key, d3 \in Data :
            z.left = p /\ z.right = q /\ z.key = k3 /\ z.data = d3
    BY <1>4, <1>11, TreeNode, AllNode
  <1>13. /\ z = Node(k3, d3, p, q) /\ height(z) = Max2(height(p), height(q)) + 1
         /\ p \in AllTrees /\ q \in AllTrees
    BY <1>4, <1>11, <1>12, TreeIs, AllNode
  <1>14. height(p) \in Nat /\ height(q) \in Nat
    BY <1>13, AllReads
  <1>15. PICK g \in Entry : g = [key |-> k3, data |-> d3]
    BY <1>12 DEF Entry
  <1>16. /\ Good(p) /\ Good(q) /\ diff(z) = height(q) - height(p)
         /\ diff(z) \in -1..1 /\ Fits(g, Entries[p], Entries[q])
    BY <1>4, <1>8, <1>11, <1>12, <1>15, GoodNode DEF diff, EntryOf
  <1>17. Entries[z] = {g} \cup Entries[p] \cup Entries[q]
    BY <1>4, <1>11, <1>12, <1>15, EntriesDefined
  <1>18. /\ height(p) \in {height(l), height(l) - 1} /\ height(q) \in {height(l), height(l) - 1}
         /\ Max2(height(l), height(p)) = height(l) /\ Max2(height(q), height(c)) = height(l)
    BY <1>2, <1>10, <1>13, <1>14, <1>16 DEF Max2
  <1>19. /\ Fits(e, Entries[l], Entries[p])
         /\ Fits(g, {e} \cup Entries[l] \cup Entries[p], {f} \cup Entries[q] \cup Entries[c])
         /\ Fits(f, Entries[q], Entries[c])
    <2>1. /\ Entries[l] \in SUBSET Entry /\ Entries[c] \in SUBSET Entry
          /\ Entries[p] \in SUBSET Entry /\ Entries[q] \in SUBSET Entry
      BY <1>1, <1>4, <1>12, EntriesDefined
    <2>2. /\ Fits(g, Entries[p], {f} \cup Entries[q] \cup Entries[c])
          /\ Fits(f, Entries[q], Entries[c])
      <3>1. Fits(f, {g} \cup Entries[p] \cup Entries[q], Entries[c])
        BY <1>8, <1>17
      <3> QED
        BY <1>16, <2>1, <3>1, FitsTurned
    <2>3. PICK D \in SUBSET Entry : D = {f} \cup Entries[q] \cup Entries[c]
      BY <1>7, <2>1
    <2>4. Entries[r] = {g} \cup Entries[p] \cup D
      BY <1>9, <1>17, <2>3
    <2>5. Fits(e, Entries[l], {g} \cup Entries[p] \cup D)
      BY <1>1, <1>7, <2>4
    <2>6. Fits(e, Entries[l], Entries[p]) /\ Fits(g, {e} \cup Entries[l] \cup Entries[p], D)
      BY <2>1, <2>2, <2>3, <2>5, FitsTurned
    <2> QED
      BY <2>2, <2>3, <2>6
  <1>20. PICK n : n = Node(k, d, l, p)
    OBVIOUS
  <1>21. Holds(n, {e} \cup Entries[l] \cup Entries[p]) /\ height(n) = height(l) + 1
    <2>1. height(p) < MaxHeight /\ height(p) - height(l) \in -1..1
      BY <1>1, <1>2, <1>14, <1>18, TreeAssumption
    <2> QED
      BY <1>1, <1>7, <1>16, <1>18, <1>19, <1>20, <2>1, HoldsMade
  <1>22. PICK m : m = Node(k2, d2, q, c)
    OBVIOUS
  <1>23. Holds(m, {f} \cup Entries[q] \cup Entries[c]) /\ height(m) = height(l) + 1
    <2>1. /\ height(q) < MaxHeight /\ height(c) < MaxHeight
          /\ height(c) - height(q) \in -1..1
      BY <1>1, <1>2, <1>10, <1>14, <1>18, TreeAssumption
    <2> QED
      BY <1>7, <1>8, <1>16, <1>18, <1>19, <1>22, <2>1, HoldsMade
  <1>24. /\ n \in Tree /\ Good(n) /\ Entries[n] = {e} \cup Entries[l] \cup Entries[p]
         /\ m \in Tree /\ Good(m) /\ Entries[m] = {f} \cup Entries[q] \cup Entries[c]
    BY <1>21, <1>23 DEF Holds
  <1>25. PICK w : w = Node(k3, d3, n, m)
    OBVIOUS
  <1>26. Holds(w, {g} \cup Entries[n] \cup Entries[m]) /\ height(w) = height(r)
    <2>1. /\ height(n) < MaxHeight /\ height(m) < MaxHeight /\ height(m) - height(n) \in -1..1
          /\ Max2(height(n), height(m)) + 1 = height(r)
      BY <1>1, <1>2, <1>21, <1>23, TreeAssumption DEF Max2
    <2>2. Fits(g, Entries[n], Entries[m])
      BY <1>19, <1>24
    <2>3. /\ Holds(w, {g} \cup Entries[n] \cup Entries[m])
          /\ height(w) = Max2(height(n), height(m)) + 1
      <3>1. n \in Tree /\ Good(n) /\ m \in Tree /\ Good(m)
        BY <1>24
      <3>2. Fits([key |-> k3, data |-> d3], Entries[n], Entries[m])
        BY <1>15, <2>2
      <3> QED
        BY <1>12, <1>15, <1>25, <2>1, <3>1, <3>2, HoldsMade
    <2> QED
      BY <2>1, <2>3
  <1>27. {g} \cup Entries[n] \cup Entries[m] = {e} \cup Entries[l] \cup Entries[r]
    BY <1>9, <1>17, <1>24
  <1>28. left_rotate(Node(k, d, l, right_rotate(r))) = w
    <2>1. right_rotate(r) = Node(k3, d3, p, m)
      BY <1>5, <1>12, <1>13, <1>22, RotateReads
    <2>2. m \in AllTrees
      BY <1>24, TreeIs
    <2> QED
      BY <1>1, <1>5, <1>12, <1>13, <1>20, <1>25, <2>1, <2>2, RotateReads
  <1> QED
    BY <1>7, <1>26, <1>27, <1>28

\* The mirror image of TurnedLeft.
LEMMA TurnedRight ==
    ASSUME NEW k, NEW d, NEW l, NEW r, Balanceable(k, d, l, r),
           height(l) = height(r) + 2, diff(l) <= 0
    PROVE  /\ Holds(right_rotate(Node(k, d, l, r)),
                    {[key |-> k, data |-> d]} \cup Entries[l] \cup Entries[r])
           /\ height(right_rotate(Node(k, d, l, r))) \in {height(l), height(l) + 1}
  <1>1. /\ k \in Key /\ d \in Data /\ l \in Tree /\ r \in Tree
        /\ height(l) < MaxHeight /\ height(r) < MaxHeight /\ Good(l) /\ Good(r)
        /\ Fits([key |-> k, data |-> d], Entries[l], Entries[r])
    BY DEF Balanceable
  <1>2. height(l) \in Nat /\ height(r) \in Nat /\ (l = NULL <=> height(l) = 0)
    BY <1>1, TreeIs, AllReads
  <1>3. l # NULL
    BY <1>2
  <1>4. PICK a \in Tree, b \in Tree, k2 \in Key, d2 \in Data :
            l.left = a /\ l.right = b /\ l.key = k2 /\ l.data = d2
    BY <1>1, <1>3, TreeNode, AllNode
  <1>5. /\ l = Node(k2, d2, a, b) /\ height(l) = Max2(height(a), height(b)) + 1
        /\ r \in AllTrees /\ a \in AllTrees /\ b \in AllTrees
    BY <1>1, <1>3, <1>4, TreeIs, AllNode
  <1>6. height(a) \in Nat /\ height(b) \in Nat
    BY <1>5, AllReads
  <1>7. PICK e \in Entry, f \in Entry : e = [key |-> k, data |-> d] /\ f = [key |-> k2, data |-> d2]
    BY <1>1, <1>4 DEF Entry
  <1>8. /\ Good(a) /\ Good(b) /\ diff(l) = height(b) - height(a)
        /\ diff(l) \in -1..1 /\ Fits(f, Entries[a], Entries[b])
    BY <1>1, <1>3, <1>4, <1>7, GoodNode DEF diff, EntryOf
  <1>9. Entries[l] = {f} \cup Entries[a] \cup Entries[b]
    BY <1>1, <1>3, <1>4, <1>7, EntriesDefined
  <1>10. /\ height(a) = height(r) + 1
         /\ height(b) \in {height(r), height(r) + 1}
    BY <1>2, <1>5, <1>6, <1>8 DEF Max2
  <1>11. Fits(f, Entries[a], {e} \cup Entries[b] \cup Entries[r]) /\ Fits(e, Entries[b], Entries[r])
    <2>1. Entries[r] \in SUBSET Entry /\ Entries[a] \in SUBSET Entry /\ Entries[b] \in SUBSET Entry
      BY <1>1, <1>4, EntriesDefined
    <2>2. Fits(e, {f} \cup Entries[a] \cup Entries[b], Entries[r])
      BY <1>1, <1>7, <1>9
    <2> QED
      BY <1>8, <2>1, <2>2, FitsTurned
  <1>12. PICK n : n = Node(k, d, b, r)
    OBVIOUS
  <1>13. Holds(n, {e} \cup Entries[b] \cup Entries[r]) /\ height(n) = height(b) + 1
    <2>1. height(b) < MaxHeight /\ height(r) - height(b) \in -1..1
          /\ Max2(height(b), height(r)) = height(b)
      BY <1>1, <1>2, <1>6, <1>10, TreeAssumption DEF Max2
    <2> QED
      BY <1>1, <1>7, <1>8, <1>11, <1>12, <2>1, HoldsMade
  <1>14. PICK m : m = Node(k2, d2, a, n)
    OBVIOUS
  <1>15. /\ Holds(m, {f} \cup Entries[a] \cup Entries[n])
         /\ height(m) \in {height(l), height(l) + 1}
    <2>1. n \in Tree /\ Good(n) /\ Entries[n] = {e} \cup Entries[b] \cup Entries[r]
      BY <1>13 DEF Holds
    <2>2. /\ height(n) < MaxHeight /\ height(a) < MaxHeight /\ height(n) - height(a) \in -1..1
          /\ Max2(height(a), height(n)) + 1 \in {height(l), height(l) + 1}
      BY <1>1, <1>2, <1>6, <1>10, <1>13, TreeAssumption DEF Max2
    <2> QED
      BY <1>7, <1>8, <1>11, <1>14, <2>1, <2>2, HoldsMade
  <1>16. Entries[n] = {e} \cup Entries[b] \cup Entries[r]
    BY <1>13 DEF Holds
  <1>17. {f} \cup Entries[a] \cup Entries[n] = {e} \cup Entries[l] \cup Entries[r]
    BY <1>9, <1>16
  <1>18. right_rotate(Node(k, d, l, r)) = m
    BY <1>1, <1>5, <1>12, <1>14, RotateReads
  <1> QED
    BY <1>7, <1>15, <1>17, <1>18

\* The mirror image of DoubleLeft.
LEMMA DoubleRight ==
    ASSUME NEW k, NEW d, NEW l, NEW r, Balanceable(k, d, l, r),
           height(l) = height(r) + 2, diff(l) > 0
    PROVE  /\ Holds(right_rotate(Node(k, d, left_rotate(l), r)),
                    {[key |-> k, data |-> d]} \cup Entries[l] \cup Entries[r])
           /\ height(right_rotate(Node(k, d, left_rotate(l), r))) \in {height(l), height(l) + 1}
  <1>1. /\ k \in Key /\ d \in Data /\ l \in Tree /\ r \in Tree
        /\ height(l) < MaxHeight /\ height(r) < MaxHeight /\ Good(l) /\ Good(r)
        /\ Fits([key |-> k, data |-> d], Entries[l], Entries[r])
    BY DEF Balanceable
  <1>2. height(l) \in Nat /\ height(r) \in Nat /\ (l = NULL <=> height(l) = 0)
    BY <1>1, TreeIs, AllReads
  <1>3. l # NULL
    BY <1>2
  <1>4. PICK a \in Tree, z \in Tree, k2 \in Key, d2 \in Data :
            l.left = a /\ l.right = z /\ l.key = k2 /\ l.data = d2
    BY <1>1, <1>3, TreeNode, AllNode
  <1>5. /\ l = Node(k2, d2, a, z) /\ height(l) = Max2(height(a), height(z)) + 1
        /\ r \in AllTrees /\ z \in AllTrees /\ a \in AllTrees
    BY <1>1, <1>3, <1>4, TreeIs, AllNode
  <1>6. height(z) \in Nat /\ height(a) \in Nat /\ (z = NULL <=> height(z) = 0)
    BY <1>5, AllReads
  <1>7. PICK e \in Entry, f \in Entry : e = [key |-> k, data |-> d] /\ f = [key |-> k2, data |-> d2]
    BY <1>1, <1>4 DEF Entry
  <1>8. /\ Good(z) /\ Good(a) /\ diff(l) = height(z) - height(a)
        /\ diff(l) \in -1..1 /\ Fits(f, Entries[a], Entries[z])
    BY <1>1, <1>3, <1>4, <1>7, GoodNode DEF diff, EntryOf
  <1>9. Entries[l] = {f} \cup Entries[a] \cup Entries[z]
    BY <1>1, <1>3, <1>4, <1>7, EntriesDefined
  <1>10. height(z) = height(r) + 1 /\ height(a) = height(r)
    BY <1>2, <1>5, <1>6, <1>8 DEF Max2
  <1>11. z # NULL
    BY <1>2, <1>6, <1>10
  <1>12. PICK p \in Tree, q \in Tree, k3 \in Key, d3 \in Data :
            z.left = p /\ z.right = q /\ z.key = k3 /\ z.data = d3
    BY <1>4, <1>11, TreeNode, AllNode
  <1>13. /\ z = Node(k3, d3, p, q) /\ height(z) = Max2(height(p), height(q)) + 1
         /\ p \in AllTrees /\ q \in AllTrees
    BY <1>4, <1>11, <1>12, TreeIs, AllNode
  <1>14. height(p) \in Nat /\ height(q) \in Nat
    BY <1>13, AllReads
  <1>15. PICK g \in Entry : g = [key |-> k3, data |-> d3]
    BY <1>12 DEF Entry
  <1>16. /\ Good(p) /\ Good(q) /\ diff(z) = height(q) - height(p)
         /\ diff(z) \in -1..1 /\ Fits(g, Entries[p], Entries[q])
    BY <1>4, <1>8, <1>11, <1>12, <1>15, GoodNode DEF diff, EntryOf
  <1>17. Entries[z] = {g} \cup Entries[p] \cup Entries[q]
    BY <1>4, <1>11, <1>12, <1>15, EntriesDefined
  <1>18. /\ height(p) \in {height(r), height(r) - 1} /\ height(q) \in {height(r), height(r) - 1}
         /\ Max2(height(a), height(p)) = height(r) /\ Max2(height(q), height(r)) = height(r)
    BY <1>2, <1>10, <1>13, <1>14, <1>16 DEF Max2
  <1>19. /\ Fits(f, Entries[a], Entries[p])
         /\ Fits(g, {f} \cup Entries[a] \cup Entries[p], {e} \cup Entries[q] \cup Entries[r])
         /\ Fits(e, Entries[q], Entries[r])
    <2>1. /\ Entries[r] \in SUBSET Entry /\ Entries[a] \in SUBSET Entry
          /\ Entries[p] \in SUBSET Entry /\ Entries[q] \in SUBSET Entry
      BY <1>1, <1>4, <1>12, EntriesDefined
    <2>2. /\ Fits(f, Entries[a], Entries[p])
          /\ Fits(g, {f} \cup Entries[a] \cup Entries[p], Entries[q])
      <3>1. Fits(f, Entries[a], {g} \cup Entries[p] \cup Entries[q])
        BY <1>8, <1>17
      <3> QED
        BY <1>16, <2>1, <3>1, FitsTurned
    <2>3. PICK D \in SUBSET Entry : D = {f} \cup Entries[a] \cup Entries[p]
      BY <1>7, <2>1
    <2>4. Entries[l] = {g} \cup D \cup Entries[q]
      BY <1>9, <1>17, <2>3
    <2>5. Fits(e, {g} \cup D \cup Entries[q], Entries[r])
      BY <1>1, <1>7, <2>4
    <2>6. Fits(e, Entries[q], Entries[r]) /\ Fits(g, D, {e} \cup Entries[q] \cup Entries[r])
      <3>1. Fits(g, D, Entries[q])
        BY <2>2, <2>3
      <3> QED
        BY <2>1, <2>5, <3>1, FitsTurned
    <2> QED
      BY <2>2, <2>3, <2>6
  <1>20. PICK n : n = Node(k2, d2, a, p)
    OBVIOUS
  <1>21. Holds(n, {f} \cup Entries[a] \cup Entries[p]) /\ height(n) = height(r) + 1
    <2>1. height(p) < MaxHeight /\ height(a) < MaxHeight /\ height(p) - height(a) \in -1..1
      BY <1>1, <1>2, <1>10, <1>14, <1>18, TreeAssumption
    <2> QED
      BY <1>7, <1>8, <1>16, <1>18, <1>19, <1>20, <2>1, HoldsMade
  <1>22. PICK m : m = Node(k, d, q, r)
    OBVIOUS
  <1>23. Holds(m, {e} \cup Entries[q] \cup Entries[r]) /\ height(m) = height(r) + 1
    <2>1. height(q) < MaxHeight /\ height(r) - height(q) \in -1..1
      BY <1>1, <1>2, <1>14, <1>18, TreeAssumption
    <2> QED
      BY <1>1, <1>7, <1>16, <1>18, <1>19, <1>22, <2>1, HoldsMade
  <1>24. /\ n \in Tree /\ Good(n) /\ Entries[n] = {f} \cup Entries[a] \cup Entries[p]
         /\ m \in Tree /\ Good(m) /\ Entries[m] = {e} \cup Entries[q] \cup Entries[r]
    BY <1>21, <1>23 DEF Holds
  <1>25. PICK w : w = Node(k3, d3, n, m)
    OBVIOUS
  <1>26. Holds(w, {g} \cup Entries[n] \cup Entries[m]) /\ height(w) = height(l)
    <2>1. /\ height(n) < MaxHeight /\ height(m) < MaxHeight /\ height(m) - height(n) \in -1..1
          /\ Max2(height(n), height(m)) + 1 = height(l)
      BY <1>1, <1>2, <1>21, <1>23, TreeAssumption DEF Max2
    <2>2. Fits(g, Entries[n], Entries[m])
      BY <1>19, <1>24
    <2>3. /\ Holds(w, {g} \cup Entries[n] \cup Entries[m])
          /\ height(w) = Max2(height(n), height(m)) + 1
      <3>1. n \in Tree /\ Good(n) /\ m \in Tree /\ Good(m)
        BY <1>24
      <3>2. Fits([key |-> k3, data |-> d3], Entries[n], Entries[m])
        BY <1>15, <2>2
      <3> QED
        BY <1>12, <1>15, <1>25, <2>1, <3>1, <3>2, HoldsMade
    <2> QED
      BY <2>1, <2>3
  <1>27. {g} \cup Entries[n] \cup Entries[m] = {e} \cup Entries[l] \cup Entries[r]
    BY <1>9, <1>17, <1>24
  <1>28. right_rotate(Node(k, d, left_rotate(l), r)) = w
    <2>1. left_rotate(l) = Node(k3, d3, n, q)
      BY <1>5, <1>12, <1>13, <1>20, RotateReads
    <2>2. n \in AllTrees
      BY <1>24, TreeIs
    <2> QED
      BY <1>1, <1>5, <1>12, <1>13, <1>22, <1>25, <2>1, <2>2, RotateReads
  <1> QED
    BY <1>7, <1>26, <1>27, <1>28

\* balance makes a good tree of two good ones that differ by two levels or
\* fewer, and loses no more than the level one of them was too high.
LEMMA BalanceGood ==
    ASSUME NEW k, NEW d, NEW l, NEW r, Balanceable(k, d, l, r),
           height(r) - height(l) \in -2..2
    PROVE  /\ Holds(balance(Node(k, d, l, r)),
                    {[key |-> k, data |-> d]} \cup Entries[l] \cup Entries[r])
           /\ height(balance(Node(k, d, l, r))) \in
                    IF height(r) - height(l) \in -1..1 THEN {Max2(height(l), height(r)) + 1}
                    ELSE {Max2(height(l), height(r)), Max2(height(l), height(r)) + 1}
  <1>1. /\ k \in Key /\ d \in Data /\ l \in Tree /\ r \in Tree
        /\ height(l) < MaxHeight /\ height(r) < MaxHeight /\ Good(l) /\ Good(r)
        /\ Fits([key |-> k, data |-> d], Entries[l], Entries[r])
    BY DEF Balanceable
  <1>2. height(l) \in Nat /\ height(r) \in Nat
    BY <1>1, TreeIs, AllReads
  <1>3. PICK n \in Tree : n = Node(k, d, l, r)
    BY <1>1, NodeMade
  <1>4. n.left = l /\ n.right = r /\ n.key = k /\ n.data = d /\ diff(n) = height(r) - height(l)
    BY <1>1, <1>3, NodeMade DEF diff
  <1>5. CASE height(r) - height(l) = 2
    <2>1. height(r) = height(l) + 2 /\ Max2(height(l), height(r)) = height(r)
          /\ ~(height(r) - height(l) \in -1..1)
      BY <1>2, <1>5 DEF Max2
    <2>2. balance(n) = left_rotate(IF diff(r) < 0 THEN Node(k, d, l, right_rotate(r))
                                   ELSE Node(k, d, l, r))
      <3>1. diff(n) >= 2
        BY <1>4, <1>5
      <3> QED
        BY <1>3, <1>4, <3>1, Zenon DEF balance, WithRight
    <2>3. diff(r) < 0 \/ diff(r) >= 0
      <3>1. diff(r) \in -1..1
        <4>1. r # NULL
          BY <1>2, <2>1, AllNull
        <4> QED
          BY <1>1, <4>1, GoodNode
      <3> QED
        BY <3>1
    <2> QED
      BY <1>3, <2>1, <2>2, <2>3, TurnedLeft, DoubleLeft
  <1>6. CASE height(r) - height(l) = -2
    <2>1. height(l) = height(r) + 2 /\ Max2(height(l), height(r)) = height(l)
          /\ ~(height(r) - height(l) \in -1..1)
      BY <1>2, <1>6 DEF Max2
    <2>2. balance(n) = right_rotate(IF diff(l) > 0 THEN Node(k, d, left_rotate(l), r)
                                    ELSE Node(k, d, l, r))
      <3>1. ~(diff(n) >= 2) /\ diff(n) <= -2
        BY <1>4, <1>6
      <3> QED
        BY <1>3, <1>4, <3>1, Zenon DEF balance, WithLeft
    <2>3. diff(l) > 0 \/ diff(l) <= 0
      <3>1. diff(l) \in -1..1
        <4>1. l # NULL
          BY <1>2, <2>1, AllNull
        <4> QED
          BY <1>1, <4>1, GoodNode
      <3> QED
        BY <3>1
    <2> QED
      BY <1>3, <2>1, <2>2, <2>3, TurnedRight, DoubleRight
  <1>7. CASE height(r) - height(l) \in -1..1
    <2>1. ~(diff(n) >= 2) /\ ~(diff(n) <= -2)
      BY <1>4, <1>7
    <2>2. balance(n) = n
      BY <2>1, Zenon DEF balance
    <2> QED
      BY <1>1, <1>3, <1>7, <2>2, HoldsMade
  <1> QED
    BY <1>2, <1>5, <1>6, <1>7

------------------------------------------------------------------------------
\* A good tree that is not empty, as its parts.
LEMMA GoodParts ==
    ASSUME NEW x \in Tree, x # NULL, Good(x)
    PROVE  \E k \in Key, d \in Data, l \in Tree, r \in Tree :
             /\ x.key = k /\ x.data = d /\ x.left = l /\ x.right = r
             /\ x = Node(k, d, l, r) /\ EntryOf(x) = [key |-> k, data |-> d]
             /\ EntryOf(x) \in Entry /\ k \in Int
             /\ Good(l) /\ Good(r) /\ height(r) - height(l) \in -1..1
             /\ height(x) \in Nat /\ height(l) \in Nat /\ height(r) \in Nat
             /\ height(x) = Max2(height(l), height(r)) + 1
             /\ height(x) <= MaxHeight /\ height(l) < MaxHeight /\ height(r) < MaxHeight
             /\ Entries[x] = {EntryOf(x)} \cup Entries[l] \cup Entries[r]
             /\ Entries[l] \subseteq Entry /\ Entries[r] \subseteq Entry
             /\ Fits(EntryOf(x), Entries[l], Entries[r])
  <1>1. PICK k \in Key, d \in Data, l \in Tree, r \in Tree :
            x.key = k /\ x.data = d /\ x.left = l /\ x.right = r
    BY TreeNode, AllNode
  <1>2. /\ x \in AllTrees /\ x = Node(k, d, l, r) /\ height(x) = Max2(height(l), height(r)) + 1
        /\ height(x) <= MaxHeight
    BY <1>1, TreeIs, AllNode
  <1>3. height(x) \in Nat /\ height(l) \in Nat /\ height(r) \in Nat
    BY <1>2, TreeIs, AllReads
  <1>4. height(l) < MaxHeight /\ height(r) < MaxHeight
    BY <1>2, <1>3, TreeAssumption DEF Max2
  <1>5. Good(l) /\ Good(r) /\ diff(x) \in -1..1 /\ Fits(EntryOf(x), Entries[l], Entries[r])
    BY <1>1, GoodNode
  <1>6. height(r) - height(l) \in -1..1
    BY <1>1, <1>5 DEF diff
  <1>7. EntryOf(x) = [key |-> k, data |-> d] /\ EntryOf(x) \in Entry /\ k \in Int
    BY <1>1, TreeAssumption DEF EntryOf, Entry
  <1>8. /\ Entries[x] = {EntryOf(x)} \cup Entries[l] \cup Entries[r]
        /\ Entries[l] \subseteq Entry /\ Entries[r] \subseteq Entry
    BY <1>1, EntriesDefined DEF EntryOf
  <1> QED
    BY <1>1, <1>2, <1>3, <1>4, <1>5, <1>6, <1>7, <1>8

\* The keys of entries can be compared.
LEMMA EntryKeys == \A e \in Entry : e.key \in Int
  BY TreeAssumption DEF Entry

\* insert adds the entry, and at most one level.
LEMMA InsertGood ==
    ASSUME NEW k \in Key, NEW d \in Data
    PROVE  \A x \in Tree :
             Good(x) /\ height(x) < MaxHeight /\ [key |-> k, data |-> d] \notin Entries[x]
                => /\ Holds(insert(x, k, d), {[key |-> k, data |-> d]} \cup Entries[x])
                   /\ height(insert(x, k, d)) \in {height(x), height(x) + 1}
  <1>1. PICK e \in Entry : e = [key |-> k, data |-> d]
    BY DEF Entry
  <1>2. e.key = k /\ k \in Int
    BY <1>1, TreeAssumption
  <1> DEFINE Goal(x) == /\ Holds(insert(x, k, d), {e} \cup Entries[x])
                        /\ height(insert(x, k, d)) \in {height(x), height(x) + 1}
             S == {x \in Tree : Good(x) /\ height(x) < MaxHeight /\ e \notin Entries[x] => Goal(x)}
  <1>3. NULL \in S
    <2> SUFFICES ASSUME height(NULL) < MaxHeight PROVE Goal(NULL)
      BY NullInTree
    <2>1. insert(NULL, k, d) = Node(k, d, NULL, NULL)
      BY InsertReads
    <2>2. Fits(e, {}, {}) /\ Entries[NULL] = {}
      BY EntriesDefined DEF Fits
    <2>3. height(NULL) = 0 /\ Max2(0, 0) + 1 = 1
      BY AllNull DEF Max2
    <2>4. /\ Holds(Node(k, d, NULL, NULL), {e} \cup Entries[NULL] \cup Entries[NULL])
          /\ height(Node(k, d, NULL, NULL)) = 1
      BY <1>1, <2>2, <2>3, NullInTree, GoodNull, HoldsMade
    <2>5. {e} \cup Entries[NULL] \cup Entries[NULL] = {e} \cup Entries[NULL]
      OBVIOUS
    <2>6. Holds(insert(NULL, k, d), {e} \cup Entries[NULL])
      BY <2>1, <2>4, <2>5
    <2>7. height(insert(NULL, k, d)) = height(NULL) + 1
      BY <2>1, <2>3, <2>4
    <2> QED
      BY <2>6, <2>7
  <1>4. ASSUME NEW x \in Tree, x # NULL, x.left \in S, x.right \in S PROVE x \in S
    <2> SUFFICES ASSUME Good(x), height(x) < MaxHeight, e \notin Entries[x] PROVE Goal(x)
      OBVIOUS
    <2>1. PICK xk \in Key, xd \in Data, l \in Tree, r \in Tree :
             /\ x.key = xk /\ x.data = xd /\ x.left = l /\ x.right = r
             /\ x = Node(xk, xd, l, r) /\ EntryOf(x) = [key |-> xk, data |-> xd]
             /\ EntryOf(x) \in Entry /\ xk \in Int
             /\ Good(l) /\ Good(r) /\ height(r) - height(l) \in -1..1
             /\ height(x) \in Nat /\ height(l) \in Nat /\ height(r) \in Nat
             /\ height(x) = Max2(height(l), height(r)) + 1
             /\ height(x) <= MaxHeight /\ height(l) < MaxHeight /\ height(r) < MaxHeight
             /\ Entries[x] = {EntryOf(x)} \cup Entries[l] \cup Entries[r]
             /\ Entries[l] \subseteq Entry /\ Entries[r] \subseteq Entry
             /\ Fits(EntryOf(x), Entries[l], Entries[r])
      BY <1>4, GoodParts
    <2>2. PICK f \in Entry : f = EntryOf(x) /\ f = [key |-> xk, data |-> xd] /\ f.key = xk
      BY <2>1
    <2>3. e # f /\ e \notin Entries[l] /\ e \notin Entries[r]
      BY <2>1, <2>2
    <2>4. CASE k < xk
      <3>1. PICK i : i = insert(l, k, d)
        OBVIOUS
      <3>2. Holds(i, {e} \cup Entries[l]) /\ height(i) \in {height(l), height(l) + 1}
        BY <1>4, <2>1, <2>3, <3>1
      <3>3. i \in Tree /\ Good(i) /\ Entries[i] = {e} \cup Entries[l]
        BY <3>2 DEF Holds
      <3>4. insert(x, k, d) = balance(Node(xk, xd, i, r))
        BY <1>4, <2>1, <2>4, <3>1, InsertReads DEF WithLeft
      <3>5. height(i) < MaxHeight /\ height(r) - height(i) \in -2..2
        BY <2>1, <3>2, TreeAssumption DEF Max2
      <3>6. Fits(f, Entries[i], Entries[r])
        BY <1>2, <2>1, <2>2, <2>3, <2>4, <3>3 DEF Fits
      <3>7. Balanceable(xk, xd, i, r)
        BY <2>1, <2>2, <3>3, <3>5, <3>6 DEF Balanceable
      <3>8. /\ Holds(insert(x, k, d), {f} \cup Entries[i] \cup Entries[r])
            /\ height(insert(x, k, d)) \in
                    IF height(r) - height(i) \in -1..1 THEN {Max2(height(i), height(r)) + 1}
                    ELSE {Max2(height(i), height(r)), Max2(height(i), height(r)) + 1}
        <4>1. PICK b : b = balance(Node(xk, xd, i, r))
          OBVIOUS
        <4>2. /\ Holds(b, {[key |-> xk, data |-> xd]} \cup Entries[i] \cup Entries[r])
              /\ height(b) \in
                    IF height(r) - height(i) \in -1..1 THEN {Max2(height(i), height(r)) + 1}
                    ELSE {Max2(height(i), height(r)), Max2(height(i), height(r)) + 1}
          BY <3>5, <3>7, <4>1, BalanceGood
        <4> QED
          BY <2>2, <3>4, <4>1, <4>2, Zenon
      <3>9. {f} \cup Entries[i] \cup Entries[r] = {e} \cup Entries[x]
        BY <2>1, <2>2, <3>3
      <3>10. height(insert(x, k, d)) \in {height(x), height(x) + 1}
        BY <2>1, <3>2, <3>8 DEF Max2
      <3> QED
        BY <3>8, <3>9, <3>10
    <2>5. CASE ~(k < xk)
      <3>1. PICK i : i = insert(r, k, d)
        OBVIOUS
      <3>2. Holds(i, {e} \cup Entries[r]) /\ height(i) \in {height(r), height(r) + 1}
        BY <1>4, <2>1, <2>3, <3>1
      <3>3. i \in Tree /\ Good(i) /\ Entries[i] = {e} \cup Entries[r]
        BY <3>2 DEF Holds
      <3>4. insert(x, k, d) = balance(Node(xk, xd, l, i))
        BY <1>4, <2>1, <2>5, <3>1, InsertReads DEF WithRight
      <3>5. height(i) < MaxHeight /\ height(i) - height(l) \in -2..2
        BY <2>1, <3>2, TreeAssumption DEF Max2
      <3>6. Fits(f, Entries[l], Entries[i])
        BY <1>2, <2>1, <2>2, <2>3, <2>5, <3>3 DEF Fits
      <3>7. Balanceable(xk, xd, l, i)
        BY <2>1, <2>2, <3>3, <3>5, <3>6 DEF Balanceable
      <3>8. /\ Holds(insert(x, k, d), {f} \cup Entries[l] \cup Entries[i])
            /\ height(insert(x, k, d)) \in
                    IF height(i) - height(l) \in -1..1 THEN {Max2(height(l), height(i)) + 1}
                    ELSE {Max2(height(l), height(i)), Max2(height(l), height(i)) + 1}
        <4>1. PICK b : b = balance(Node(xk, xd, l, i))
          OBVIOUS
        <4>2. /\ Holds(b, {[key |-> xk, data |-> xd]} \cup Entries[l] \cup Entries[i])
              /\ height(b) \in
                    IF height(i) - height(l) \in -1..1 THEN {Max2(height(l), height(i)) + 1}
                    ELSE {Max2(height(l), height(i)), Max2(height(l), height(i)) + 1}
          BY <3>5, <3>7, <4>1, BalanceGood
        <4> QED
          BY <2>2, <3>4, <4>1, <4>2, Zenon
      <3>9. {f} \cup Entries[l] \cup Entries[i] = {e} \cup Entries[x]
        BY <2>1, <2>2, <3>3
      <3>10. height(insert(x, k, d)) \in {height(x), height(x) + 1}
        BY <2>1, <3>2, <3>8 DEF Max2
      <3> QED
        BY <3>8, <3>9, <3>10
    <2> QED
      BY <2>4, <2>5
  <1>5. \A x \in Tree : x \in S
    <2> HIDE DEF S
    <2> QED
      BY <1>3, <1>4, TreeInduct
  <1> QED
    BY <1>1, <1>5

\* delete_min takes away the entry of min_node, the least one, and at most one
\* level.
LEMMA DeleteMinGood ==
    \A x \in Tree : x # NULL /\ Good(x) =>
        /\ EntryOf(min_node[x]) \in Entries[x]
        /\ \A a \in Entries[x] : a.key >= min_node[x].key
        /\ Holds(delete_min[x], Entries[x] \ {EntryOf(min_node[x])})
        /\ height(delete_min[x]) \in {height(x) - 1, height(x)}
  <1> DEFINE Goal(x) ==
                /\ EntryOf(min_node[x]) \in Entries[x]
                /\ \A a \in Entries[x] : a.key >= min_node[x].key
                /\ Holds(delete_min[x], Entries[x] \ {EntryOf(min_node[x])})
                /\ height(delete_min[x]) \in {height(x) - 1, height(x)}
             S == {x \in Tree : x # NULL /\ Good(x) => Goal(x)}
  <1>1. NULL \in S
    BY NullInTree
  <1>2. ASSUME NEW x \in Tree, x # NULL, x.left \in S, x.right \in S PROVE x \in S
    <2> SUFFICES ASSUME Good(x) PROVE Goal(x)
      OBVIOUS
    <2>1. PICK xk \in Key, xd \in Data, l \in Tree, r \in Tree :
             /\ x.key = xk /\ x.data = xd /\ x.left = l /\ x.right = r
             /\ x = Node(xk, xd, l, r) /\ EntryOf(x) = [key |-> xk, data |-> xd]
             /\ EntryOf(x) \in Entry /\ xk \in Int
             /\ Good(l) /\ Good(r) /\ height(r) - height(l) \in -1..1
             /\ height(x) \in Nat /\ height(l) \in Nat /\ height(r) \in Nat
             /\ height(x) = Max2(height(l), height(r)) + 1
             /\ height(x) <= MaxHeight /\ height(l) < MaxHeight /\ height(r) < MaxHeight
             /\ Entries[x] = {EntryOf(x)} \cup Entries[l] \cup Entries[r]
             /\ Entries[l] \subseteq Entry /\ Entries[r] \subseteq Entry
             /\ Fits(EntryOf(x), Entries[l], Entries[r])
      BY <1>2, GoodParts
    <2>2. PICK f \in Entry : f = EntryOf(x) /\ f = [key |-> xk, data |-> xd] /\ f.key = xk
      BY <2>1
    <2>3. x \in Tree \ {NULL}
      BY <1>2
    <2>4. CASE l = NULL
      <3>1. min_node[x] = x
        BY <2>1, <2>3, <2>4, MinNodeReads
      <3>2. delete_min[x] = r
        BY <2>1, <2>3, <2>4, DeleteMinReads
      <3>3. Entries[l] = {} /\ height(l) = 0
        BY <2>4, EntriesDefined, AllNull
      <3>4. Entries[x] = {f} \cup Entries[r] /\ f \notin Entries[r]
        BY <2>1, <2>2, <3>3 DEF Fits
      <3>5. Holds(r, Entries[x] \ {f})
        BY <2>1, <3>4 DEF Holds
      <3>6. height(r) = height(x) - 1
        BY <2>1, <3>3 DEF Max2
      <3>7. \A a \in Entries[x] : a.key >= xk
        BY <2>1, <2>2, <3>4 DEF Fits
      <3> QED
        BY <2>1, <2>2, <3>1, <3>2, <3>4, <3>5, <3>6, <3>7
    <2>5. CASE l # NULL
      <3>1. PICK m \in Tree \ {NULL} : m = min_node[l]
        BY <2>5, MinNodeReads
      <3>2. min_node[x] = m
        BY <2>1, <2>3, <2>5, <3>1, MinNodeReads
      <3>3. PICK i : i = delete_min[l]
        OBVIOUS
      <3>4. delete_min[x] = balance(Node(xk, xd, i, r))
        BY <2>1, <2>3, <2>5, <3>3, DeleteMinReads DEF WithLeft
      <3>5. /\ EntryOf(m) \in Entries[l]
            /\ \A a \in Entries[l] : a.key >= m.key
            /\ Holds(i, Entries[l] \ {EntryOf(m)})
            /\ height(i) \in {height(l) - 1, height(l)}
        BY <1>2, <2>1, <2>5, <3>1, <3>3
      <3>6. i \in Tree /\ Good(i) /\ Entries[i] = Entries[l] \ {EntryOf(m)}
        BY <3>5 DEF Holds
      <3>7. height(i) \in Nat
        BY <3>6, TreeIs, AllReads
      <3>8. height(i) < MaxHeight /\ height(r) - height(i) \in -2..2
        BY <2>1, <3>5, <3>7, TreeAssumption
      <3>9. Fits(f, Entries[i], Entries[r])
        BY <2>1, <2>2, <3>6 DEF Fits
      <3>10. Balanceable(xk, xd, i, r)
        BY <2>1, <2>2, <3>6, <3>8, <3>9 DEF Balanceable
      <3>11. /\ Holds(delete_min[x], {f} \cup Entries[i] \cup Entries[r])
            /\ height(delete_min[x]) \in
                    IF height(r) - height(i) \in -1..1 THEN {Max2(height(i), height(r)) + 1}
                    ELSE {Max2(height(i), height(r)), Max2(height(i), height(r)) + 1}
        <4>1. PICK b : b = balance(Node(xk, xd, i, r))
          OBVIOUS
        <4>2. /\ Holds(b, {[key |-> xk, data |-> xd]} \cup Entries[i] \cup Entries[r])
              /\ height(b) \in
                    IF height(r) - height(i) \in -1..1 THEN {Max2(height(i), height(r)) + 1}
                    ELSE {Max2(height(i), height(r)), Max2(height(i), height(r)) + 1}
          BY <3>8, <3>10, <4>1, BalanceGood
        <4> QED
          BY <2>2, <3>4, <4>1, <4>2, Zenon
      <3>12. {f} \cup Entries[i] \cup Entries[r] = Entries[x] \ {EntryOf(m)}
        BY <2>1, <2>2, <3>5, <3>6 DEF Fits
      <3>13. height(delete_min[x]) \in {height(x) - 1, height(x)}
        BY <2>1, <3>5, <3>7, <3>11 DEF Max2
      <3>14. m.key \in Int /\ m.key <= xk
        <4>1. EntryOf(m) \in Entry /\ EntryOf(m).key = m.key
          BY <2>1, <3>5 DEF EntryOf
        <4> QED
          BY <2>1, <2>2, <3>5, <4>1, EntryKeys DEF Fits
      <3>15. ASSUME NEW a \in Entries[x] PROVE a.key >= m.key
        <4>1. a \in Entry /\ a.key \in Int
          BY <2>1, <2>2, EntryKeys
        <4>2. CASE a \in Entries[l]
          BY <3>5, <4>2
        <4>3. CASE a \in {f} \cup Entries[r]
          <5>1. a.key >= xk
            BY <2>1, <2>2, <4>3 DEF Fits
          <5> QED
            BY <2>1, <3>14, <4>1, <5>1
        <4> QED
          BY <2>1, <2>2, <4>2, <4>3
      <3>16. EntryOf(m) \in Entries[x]
        BY <2>1, <3>5
      <3>17. Holds(delete_min[x], Entries[x] \ {EntryOf(m)})
        BY <3>11, <3>12
      <3> QED
        BY <3>2, <3>13, <3>15, <3>16, <3>17
    <2> QED
      BY <2>4, <2>5
  <1>3. \A x \in Tree : x \in S
    <2> HIDE DEF S
    <2> QED
      BY <1>1, <1>2, TreeInduct
  <1> QED
    BY <1>3

\* The least entry of the right takes the place of the one that goes.
LEMMA ReplaceGood ==
    ASSUME NEW x \in Tree, x # NULL, x.right # NULL, Good(x)
    PROVE  /\ Holds(Replace(x), Entries[x] \ {EntryOf(x)})
           /\ height(Replace(x)) \in {height(x) - 1, height(x)}
  <1>1. PICK xk \in Key, xd \in Data, l \in Tree, r \in Tree :
             /\ x.key = xk /\ x.data = xd /\ x.left = l /\ x.right = r
             /\ x = Node(xk, xd, l, r) /\ EntryOf(x) = [key |-> xk, data |-> xd]
             /\ EntryOf(x) \in Entry /\ xk \in Int
             /\ Good(l) /\ Good(r) /\ height(r) - height(l) \in -1..1
             /\ height(x) \in Nat /\ height(l) \in Nat /\ height(r) \in Nat
             /\ height(x) = Max2(height(l), height(r)) + 1
             /\ height(x) <= MaxHeight /\ height(l) < MaxHeight /\ height(r) < MaxHeight
             /\ Entries[x] = {EntryOf(x)} \cup Entries[l] \cup Entries[r]
             /\ Entries[l] \subseteq Entry /\ Entries[r] \subseteq Entry
             /\ Fits(EntryOf(x), Entries[l], Entries[r])
    BY GoodParts
  <1>2. PICK f \in Entry : f = EntryOf(x) /\ f = [key |-> xk, data |-> xd] /\ f.key = xk
    BY <1>1
  <1>3. PICK m \in Tree \ {NULL} : m = min_node[r]
    BY <1>1, MinNodeReads
  <1>4. m.key \in Key /\ m.data \in Data
    BY TreeNode, AllNode
  <1>5. PICK mk \in Key, md \in Data : mk = m.key /\ md = m.data
    BY <1>4
  <1>6. PICK g \in Entry : g = EntryOf(m) /\ g = [key |-> mk, data |-> md] /\ g.key = mk
    <2>1. EntryOf(m) = [key |-> mk, data |-> md]
      BY <1>5 DEF EntryOf
    <2>2. [key |-> mk, data |-> md] \in Entry
      BY DEF Entry
    <2> QED
      BY <2>1, <2>2
  <1>7. PICK i : i = delete_min[r]
    OBVIOUS
  <1>8. Replace(x) = balance(Node(mk, md, l, i))
    BY <1>1, <1>3, <1>5, <1>7, Zenon DEF Replace
  <1>9. /\ g \in Entries[r] /\ \A a \in Entries[r] : a.key >= mk
        /\ Holds(i, Entries[r] \ {g})
        /\ height(i) \in {height(r) - 1, height(r)}
    BY <1>1, <1>3, <1>5, <1>6, <1>7, DeleteMinGood
  <1>10. i \in Tree /\ Good(i) /\ Entries[i] = Entries[r] \ {g}
    BY <1>9 DEF Holds
  <1>11. height(i) \in Nat
    BY <1>10, TreeIs, AllReads
  <1>12. height(i) < MaxHeight /\ height(i) - height(l) \in -2..2
    BY <1>1, <1>9, <1>11, TreeAssumption
  <1>13. Fits(g, Entries[l], Entries[i])
    <2>1. mk \in Int /\ mk >= xk
      BY <1>1, <1>2, <1>6, <1>9, EntryKeys DEF Fits
    <2>2. \A a \in Entries[l] : a.key \in Int /\ a.key <= xk
      BY <1>1, <1>2, EntryKeys DEF Fits
    <2>3. \A a \in Entries[l] : a.key <= mk
      BY <1>1, <2>1, <2>2
    <2>4. g \notin Entries[l] /\ Entries[l] \cap Entries[r] = {}
      BY <1>1, <1>9 DEF Fits
    <2> QED
      BY <1>6, <1>9, <1>10, <2>3, <2>4 DEF Fits
  <1>14. Balanceable(mk, md, l, i)
    BY <1>1, <1>6, <1>10, <1>12, <1>13 DEF Balanceable
  <1>15. /\ Holds(Replace(x), {g} \cup Entries[l] \cup Entries[i])
        /\ height(Replace(x)) \in
                IF height(i) - height(l) \in -1..1 THEN {Max2(height(l), height(i)) + 1}
                ELSE {Max2(height(l), height(i)), Max2(height(l), height(i)) + 1}
    <2>1. PICK b : b = balance(Node(mk, md, l, i))
      OBVIOUS
    <2>2. /\ Holds(b, {[key |-> mk, data |-> md]} \cup Entries[l] \cup Entries[i])
          /\ height(b) \in
                IF height(i) - height(l) \in -1..1 THEN {Max2(height(l), height(i)) + 1}
                ELSE {Max2(height(l), height(i)), Max2(height(l), height(i)) + 1}
      BY <1>12, <1>14, <2>1, BalanceGood
    <2> QED
      BY <1>6, <1>8, <2>1, <2>2, Zenon
  <1>16. {g} \cup Entries[l] \cup Entries[i] = Entries[x] \ {f}
    BY <1>1, <1>2, <1>9, <1>10 DEF Fits
  <1>17. height(Replace(x)) \in {height(x) - 1, height(x)}
    <2>1. PICK hx \in Nat, hl \in Nat, hr \in Nat, hi \in Nat, hb \in Int :
                /\ hx = height(x) /\ hl = height(l) /\ hr = height(r) /\ hi = height(i)
                /\ hb = height(Replace(x))
      <3>1. height(Replace(x)) \in Int
        BY <1>15, TreeIs, AllReads DEF Holds
      <3> QED
        BY <1>1, <1>11, <3>1
    <2>2. /\ hx = Max2(hl, hr) + 1 /\ hr - hl \in -1..1 /\ hi \in {hr - 1, hr}
          /\ hb \in IF hi - hl \in -1..1 THEN {Max2(hl, hi) + 1}
                    ELSE {Max2(hl, hi), Max2(hl, hi) + 1}
      BY <1>1, <1>9, <1>15, <2>1
    <2>3. hb \in {hx - 1, hx}
      BY <2>2 DEF Max2
    <2> QED
      BY <2>1, <2>3
  <1> QED
    BY <1>2, <1>15, <1>16, <1>17

\* delete_key takes away one entry with the key, if there is one, and at most
\* one level.
Removed(x, k, b) ==
    /\ height(b) \in {height(x) - 1, height(x)}
    /\ \/ \E e \in Entries[x] : e.key = k /\ Holds(b, Entries[x] \ {e})
       \/ (\A e \in Entries[x] : e.key # k) /\ Holds(b, Entries[x])

\* delete_key keeps a tree good.
LEMMA DeleteGood ==
    ASSUME NEW k \in Int
    PROVE  \A x \in Tree : Good(x) => Removed(x, k, delete_key(x, k))
  <1> DEFINE S == {x \in Tree : Good(x) => Removed(x, k, delete_key(x, k))}
  <1>1. NULL \in S
    <2>1. delete_key(NULL, k) = NULL
      BY DeleteReads
    <2>2. Holds(NULL, Entries[NULL]) /\ Entries[NULL] = {}
      BY NullInTree, GoodNull, EntriesDefined DEF Holds
    <2> QED
      BY <2>1, <2>2, NullInTree DEF Removed
  <1>2. ASSUME NEW x \in Tree, x # NULL, x.left \in S, x.right \in S PROVE x \in S
    <2> SUFFICES ASSUME Good(x) PROVE Removed(x, k, delete_key(x, k))
      OBVIOUS
    <2>1. PICK xk \in Key, xd \in Data, l \in Tree, r \in Tree :
             /\ x.key = xk /\ x.data = xd /\ x.left = l /\ x.right = r
             /\ x = Node(xk, xd, l, r) /\ EntryOf(x) = [key |-> xk, data |-> xd]
             /\ EntryOf(x) \in Entry /\ xk \in Int
             /\ Good(l) /\ Good(r) /\ height(r) - height(l) \in -1..1
             /\ height(x) \in Nat /\ height(l) \in Nat /\ height(r) \in Nat
             /\ height(x) = Max2(height(l), height(r)) + 1
             /\ height(x) <= MaxHeight /\ height(l) < MaxHeight /\ height(r) < MaxHeight
             /\ Entries[x] = {EntryOf(x)} \cup Entries[l] \cup Entries[r]
             /\ Entries[l] \subseteq Entry /\ Entries[r] \subseteq Entry
             /\ Fits(EntryOf(x), Entries[l], Entries[r])
      BY <1>2, GoodParts
    <2>2. PICK f \in Entry : f = EntryOf(x) /\ f = [key |-> xk, data |-> xd] /\ f.key = xk
      BY <2>1
    <2>3. CASE k < xk
      <3>1. PICK i : i = delete_key(l, k)
        OBVIOUS
      <3>2. delete_key(x, k) = balance(Node(xk, xd, i, r))
        BY <1>2, <2>1, <2>3, <3>1, DeleteReads DEF WithLeft
      <3>3. Removed(l, k, i)
        BY <1>2, <2>1, <3>1
      <3>4. PICK E \in SUBSET Entries[l] :
                /\ Holds(i, E) /\ height(i) \in {height(l) - 1, height(l)}
                /\ \/ \E e \in Entries[l] : e.key = k /\ E = Entries[l] \ {e}
                   \/ (\A e \in Entries[l] : e.key # k) /\ E = Entries[l]
        <4>1. CASE \E e \in Entries[l] : e.key = k /\ Holds(i, Entries[l] \ {e})
          <5>1. PICK e \in Entries[l] : e.key = k /\ Holds(i, Entries[l] \ {e})
            BY <4>1
          <5>2. PICK E \in SUBSET Entries[l] : E = Entries[l] \ {e}
            OBVIOUS
          <5> QED
            BY <3>3, <5>1, <5>2 DEF Removed
        <4>2. CASE (\A e \in Entries[l] : e.key # k) /\ Holds(i, Entries[l])
          <5>1. PICK E \in SUBSET Entries[l] : E = Entries[l]
            OBVIOUS
          <5> QED
            BY <3>3, <4>2, <5>1 DEF Removed
        <4> QED
          BY <3>3, <4>1, <4>2 DEF Removed
      <3>5. i \in Tree /\ Good(i) /\ Entries[i] = E
        BY <3>4 DEF Holds
      <3>6. height(i) \in Nat
        BY <3>5, TreeIs, AllReads
      <3>7. height(i) < MaxHeight /\ height(r) - height(i) \in -2..2
        BY <2>1, <3>4, <3>6, TreeAssumption
      <3>8. Fits(f, Entries[i], Entries[r])
        BY <2>1, <2>2, <3>4, <3>5 DEF Fits
      <3>9. Balanceable(xk, xd, i, r)
        BY <2>1, <2>2, <3>5, <3>7, <3>8 DEF Balanceable
      <3>10. /\ Holds(delete_key(x, k), {f} \cup Entries[i] \cup Entries[r])
            /\ height(delete_key(x, k)) \in
                    IF height(r) - height(i) \in -1..1 THEN {Max2(height(i), height(r)) + 1}
                    ELSE {Max2(height(i), height(r)), Max2(height(i), height(r)) + 1}
        <4>1. PICK b : b = balance(Node(xk, xd, i, r))
          OBVIOUS
        <4>2. /\ Holds(b, {[key |-> xk, data |-> xd]} \cup Entries[i] \cup Entries[r])
              /\ height(b) \in
                    IF height(r) - height(i) \in -1..1 THEN {Max2(height(i), height(r)) + 1}
                    ELSE {Max2(height(i), height(r)), Max2(height(i), height(r)) + 1}
          BY <3>7, <3>9, <4>1, BalanceGood
        <4> QED
          BY <2>2, <3>2, <4>1, <4>2, Zenon
      <3>11. height(delete_key(x, k)) \in {height(x) - 1, height(x)}
        <4>1. PICK hx \in Nat, hl \in Nat, hr \in Nat, hi \in Nat, hb \in Int :
                    /\ hx = height(x) /\ hl = height(l) /\ hr = height(r) /\ hi = height(i)
                    /\ hb = height(delete_key(x, k))
          <5>1. height(delete_key(x, k)) \in Int
            BY <3>10, TreeIs, AllReads DEF Holds
          <5> QED
            BY <2>1, <3>6, <5>1
        <4>2. /\ hx = Max2(hl, hr) + 1 /\ hr - hl \in -1..1 /\ hi \in {hl - 1, hl}
              /\ hb \in IF hr - hi \in -1..1 THEN {Max2(hi, hr) + 1}
                        ELSE {Max2(hi, hr), Max2(hi, hr) + 1}
          BY <2>1, <3>4, <3>10, <4>1
        <4>3. hb \in {hx - 1, hx}
          BY <4>2 DEF Max2
        <4> QED
          BY <4>1, <4>3
      <3>12. Holds(delete_key(x, k), {f} \cup E \cup Entries[r])
        BY <3>5, <3>10
      <3>13. CASE \E e \in Entries[l] : e.key = k /\ E = Entries[l] \ {e}
        <4>1. PICK e \in Entries[l] : e.key = k /\ E = Entries[l] \ {e}
          BY <3>13
        <4>2. {f} \cup E \cup Entries[r] = Entries[x] \ {e} /\ e \in Entries[x]
          BY <2>1, <2>2, <4>1 DEF Fits
        <4>3. Holds(delete_key(x, k), Entries[x] \ {e})
          BY <3>12, <4>2
        <4> QED
          BY <3>11, <4>1, <4>2, <4>3 DEF Removed
      <3>14. CASE (\A e \in Entries[l] : e.key # k) /\ E = Entries[l]
        <4>1. {f} \cup E \cup Entries[r] = Entries[x]
          BY <2>1, <2>2, <3>14
        <4>2. \A e \in Entries[r] : e.key \in Int /\ e.key >= xk
          BY <2>1, <2>2, EntryKeys DEF Fits
        <4>3. \A e \in Entries[x] : e.key # k
          BY <2>1, <2>2, <2>3, <3>14, <4>2
        <4>4. Holds(delete_key(x, k), Entries[x])
          BY <3>12, <4>1
        <4> QED
          BY <3>11, <4>3, <4>4 DEF Removed
      <3> QED
        BY <3>4, <3>13, <3>14
    <2>4. CASE k > xk
      <3>1. PICK i : i = delete_key(r, k)
        OBVIOUS
      <3>2. delete_key(x, k) = balance(Node(xk, xd, l, i))
        <4>1. ~(k < xk)
          BY <2>1, <2>4
        <4> QED
          BY <1>2, <2>1, <2>4, <3>1, <4>1, DeleteReads DEF WithRight
      <3>3. Removed(r, k, i)
        BY <1>2, <2>1, <3>1
      <3>4. PICK E \in SUBSET Entries[r] :
                /\ Holds(i, E) /\ height(i) \in {height(r) - 1, height(r)}
                /\ \/ \E e \in Entries[r] : e.key = k /\ E = Entries[r] \ {e}
                   \/ (\A e \in Entries[r] : e.key # k) /\ E = Entries[r]
        <4>1. CASE \E e \in Entries[r] : e.key = k /\ Holds(i, Entries[r] \ {e})
          <5>1. PICK e \in Entries[r] : e.key = k /\ Holds(i, Entries[r] \ {e})
            BY <4>1
          <5>2. PICK E \in SUBSET Entries[r] : E = Entries[r] \ {e}
            OBVIOUS
          <5> QED
            BY <3>3, <5>1, <5>2 DEF Removed
        <4>2. CASE (\A e \in Entries[r] : e.key # k) /\ Holds(i, Entries[r])
          <5>1. PICK E \in SUBSET Entries[r] : E = Entries[r]
            OBVIOUS
          <5> QED
            BY <3>3, <4>2, <5>1 DEF Removed
        <4> QED
          BY <3>3, <4>1, <4>2 DEF Removed
      <3>5. i \in Tree /\ Good(i) /\ Entries[i] = E
        BY <3>4 DEF Holds
      <3>6. height(i) \in Nat
        BY <3>5, TreeIs, AllReads
      <3>7. height(i) < MaxHeight /\ height(i) - height(l) \in -2..2
        BY <2>1, <3>4, <3>6, TreeAssumption
      <3>8. Fits(f, Entries[l], Entries[i])
        BY <2>1, <2>2, <3>4, <3>5 DEF Fits
      <3>9. Balanceable(xk, xd, l, i)
        BY <2>1, <2>2, <3>5, <3>7, <3>8 DEF Balanceable
      <3>10. /\ Holds(delete_key(x, k), {f} \cup Entries[l] \cup Entries[i])
            /\ height(delete_key(x, k)) \in
                    IF height(i) - height(l) \in -1..1 THEN {Max2(height(l), height(i)) + 1}
                    ELSE {Max2(height(l), height(i)), Max2(height(l), height(i)) + 1}
        <4>1. PICK b : b = balance(Node(xk, xd, l, i))
          OBVIOUS
        <4>2. /\ Holds(b, {[key |-> xk, data |-> xd]} \cup Entries[l] \cup Entries[i])
              /\ height(b) \in
                    IF height(i) - height(l) \in -1..1 THEN {Max2(height(l), height(i)) + 1}
                    ELSE {Max2(height(l), height(i)), Max2(height(l), height(i)) + 1}
          BY <3>7, <3>9, <4>1, BalanceGood
        <4> QED
          BY <2>2, <3>2, <4>1, <4>2, Zenon
      <3>11. height(delete_key(x, k)) \in {height(x) - 1, height(x)}
        <4>1. PICK hx \in Nat, hl \in Nat, hr \in Nat, hi \in Nat, hb \in Int :
                    /\ hx = height(x) /\ hl = height(l) /\ hr = height(r) /\ hi = height(i)
                    /\ hb = height(delete_key(x, k))
          <5>1. height(delete_key(x, k)) \in Int
            BY <3>10, TreeIs, AllReads DEF Holds
          <5> QED
            BY <2>1, <3>6, <5>1
        <4>2. /\ hx = Max2(hl, hr) + 1 /\ hr - hl \in -1..1 /\ hi \in {hr - 1, hr}
              /\ hb \in IF hi - hl \in -1..1 THEN {Max2(hl, hi) + 1}
                        ELSE {Max2(hl, hi), Max2(hl, hi) + 1}
          BY <2>1, <3>4, <3>10, <4>1
        <4>3. hb \in {hx - 1, hx}
          BY <4>2 DEF Max2
        <4> QED
          BY <4>1, <4>3
      <3>12. Holds(delete_key(x, k), {f} \cup Entries[l] \cup E)
        BY <3>5, <3>10
      <3>13. CASE \E e \in Entries[r] : e.key = k /\ E = Entries[r] \ {e}
        <4>1. PICK e \in Entries[r] : e.key = k /\ E = Entries[r] \ {e}
          BY <3>13
        <4>2. {f} \cup Entries[l] \cup E = Entries[x] \ {e} /\ e \in Entries[x]
          BY <2>1, <2>2, <4>1 DEF Fits
        <4>3. Holds(delete_key(x, k), Entries[x] \ {e})
          BY <3>12, <4>2
        <4> QED
          BY <3>11, <4>1, <4>2, <4>3 DEF Removed
      <3>14. CASE (\A e \in Entries[r] : e.key # k) /\ E = Entries[r]
        <4>1. {f} \cup Entries[l] \cup E = Entries[x]
          BY <2>1, <2>2, <3>14
        <4>2. \A e \in Entries[l] : e.key \in Int /\ e.key <= xk
          BY <2>1, <2>2, EntryKeys DEF Fits
        <4>3. \A e \in Entries[x] : e.key # k
          BY <2>1, <2>2, <2>4, <3>14, <4>2
        <4>4. Holds(delete_key(x, k), Entries[x])
          BY <3>12, <4>1
        <4> QED
          BY <3>11, <4>3, <4>4 DEF Removed
      <3> QED
        BY <3>4, <3>13, <3>14
    <2>5. CASE k = xk
      <3>1. f \in Entries[x] /\ f.key = k
        BY <2>1, <2>2, <2>5
      <3>2. ~(k < xk) /\ ~(k > xk)
        BY <2>1, <2>5
      <3>3. CASE r = NULL
        <4>1. delete_key(x, k) = l
          BY <1>2, <2>1, <3>2, <3>3, DeleteReads
        <4>2. Entries[r] = {} /\ height(r) = 0
          BY <3>3, EntriesDefined, AllNull
        <4>3. Entries[l] = Entries[x] \ {f}
          BY <2>1, <2>2, <4>2 DEF Fits
        <4>4. Holds(l, Entries[x] \ {f})
          BY <2>1, <4>3 DEF Holds
        <4>5. height(l) = height(x) - 1
          BY <2>1, <4>2 DEF Max2
        <4> QED
          BY <3>1, <4>1, <4>4, <4>5 DEF Removed
      <3>4. CASE r # NULL
        <4>1. delete_key(x, k) = Replace(x)
          BY <1>2, <2>1, <3>2, <3>4, DeleteReads
        <4>2. /\ Holds(Replace(x), Entries[x] \ {f})
              /\ height(Replace(x)) \in {height(x) - 1, height(x)}
          BY <1>2, <2>1, <2>2, <3>4, ReplaceGood
        <4> QED
          BY <3>1, <4>1, <4>2 DEF Removed
      <3> QED
        BY <3>3, <3>4
    <2> QED
      BY <2>1, <2>3, <2>4, <2>5
  <1>3. \A x \in Tree : x \in S
    <2> HIDE DEF S
    <2> QED
      BY <1>1, <1>2, TreeInduct
  <1> QED
    BY <1>3

\* find comes to an entry with the key exactly if there is one.
Finds(x, k, found) ==
    IF \E e \in Entries[x] : e.key = k
    THEN found # NULL /\ found.key = k /\ [key |-> k, data |-> found.data] \in Entries[x]
    ELSE found = NULL

\* find looks into a good tree only on the side where the key can be.
LEMMA FindGood ==
    ASSUME NEW k \in Int
    PROVE  \A x \in Tree : Good(x) => Finds(x, k, find(x, k))
  <1> DEFINE S == {x \in Tree : Good(x) => Finds(x, k, find(x, k))}
  <1>1. NULL \in S
    BY NullInTree, FindReads, EntriesDefined DEF Finds
  <1>2. ASSUME NEW x \in Tree, x # NULL, x.left \in S, x.right \in S PROVE x \in S
    <2> SUFFICES ASSUME Good(x) PROVE Finds(x, k, find(x, k))
      OBVIOUS
    <2>1. PICK xk \in Key, xd \in Data, l \in Tree, r \in Tree :
             /\ x.key = xk /\ x.data = xd /\ x.left = l /\ x.right = r
             /\ x = Node(xk, xd, l, r) /\ EntryOf(x) = [key |-> xk, data |-> xd]
             /\ EntryOf(x) \in Entry /\ xk \in Int
             /\ Good(l) /\ Good(r) /\ height(r) - height(l) \in -1..1
             /\ height(x) \in Nat /\ height(l) \in Nat /\ height(r) \in Nat
             /\ height(x) = Max2(height(l), height(r)) + 1
             /\ height(x) <= MaxHeight /\ height(l) < MaxHeight /\ height(r) < MaxHeight
             /\ Entries[x] = {EntryOf(x)} \cup Entries[l] \cup Entries[r]
             /\ Entries[l] \subseteq Entry /\ Entries[r] \subseteq Entry
             /\ Fits(EntryOf(x), Entries[l], Entries[r])
      BY <1>2, GoodParts
    <2>2. PICK f \in Entry : f = EntryOf(x) /\ f = [key |-> xk, data |-> xd] /\ f.key = xk
      BY <2>1
    <2>3. /\ \A e \in Entries[l] : e.key \in Int /\ e.key <= xk
          /\ \A e \in Entries[r] : e.key \in Int /\ e.key >= xk
      BY <2>1, <2>2, EntryKeys DEF Fits
    <2>4. Entries[x] = {f} \cup Entries[l] \cup Entries[r]
      BY <2>1, <2>2
    <2>5. CASE k < xk
      <3>1. find(x, k) = find(l, k)
        BY <1>2, <2>1, <2>5, FindReads
      <3>2. Finds(l, k, find(l, k))
        BY <1>2, <2>1
      <3>3. \A e \in Entries[x] : e.key = k => e \in Entries[l]
        BY <2>1, <2>2, <2>3, <2>4, <2>5
      <3> QED
        BY <2>4, <3>1, <3>2, <3>3 DEF Finds
    <2>6. CASE k = xk
      <3>1. ~(k < xk)
        BY <2>1, <2>6
      <3>2. find(x, k) = x
        BY <1>2, <2>1, <2>6, <3>1, FindReads
      <3>3. f \in Entries[x] /\ f.key = k /\ f = [key |-> k, data |-> x.data]
        BY <2>1, <2>2, <2>6
      <3> QED
        BY <1>2, <2>1, <2>6, <3>2, <3>3 DEF Finds
    <2>7. CASE k > xk
      <3>1. ~(k < xk) /\ k # xk
        BY <2>1, <2>7
      <3>2. find(x, k) = find(r, k)
        BY <1>2, <2>1, <3>1, FindReads
      <3>3. Finds(r, k, find(r, k))
        BY <1>2, <2>1
      <3>4. \A e \in Entries[x] : e.key = k => e \in Entries[r]
        BY <2>1, <2>2, <2>3, <2>4, <2>7
      <3> QED
        BY <2>4, <3>2, <3>3, <3>4 DEF Finds
    <2> QED
      BY <2>1, <2>5, <2>6, <2>7
  <1>3. \A x \in Tree : x \in S
    <2> HIDE DEF S
    <2> QED
      BY <1>1, <1>2, TreeInduct
  <1> QED
    BY <1>3

------------------------------------------------------------------------------
\* The tree of the program is a good one.
TreeInv == root \in Tree /\ Good(root)

\* The tree is good when it is constructed ...
LEMMA InitTree == avl_tree_construct => TreeInv
  BY NullInTree, GoodNull DEF avl_tree_construct, TreeInv

\* What a step makes of the tree and of its entries.
LEMMA StepTree ==
    ASSUME TreeInv, Next
    PROVE  TreeInv' /\ Abstract!EntrySetNext
  <1>1. root \in Tree /\ Good(root)
    BY DEF TreeInv
  <1>2. \A k \in Key : k \in Int
    BY TreeAssumption
  <1>3. ASSUME NEW k \in Key, NEW d \in Data, avl_tree_insert(k, d)
        PROVE  TreeInv' /\ Abstract!Insert(k, d)
    <2>1. /\ [key |-> k, data |-> d] \notin Entries[root] /\ height(root) < MaxHeight
          /\ root' = insert(root, k, d)
      BY <1>3 DEF avl_tree_insert
    <2>2. Holds(root', {[key |-> k, data |-> d]} \cup Entries[root])
      BY <1>1, <2>1, InsertGood
    <2>3. root' \in Tree /\ Good(root') /\ Entries[root'] = Entries[root] \cup {[key |-> k, data |-> d]}
      BY <2>2 DEF Holds
    <2> QED
      BY <2>3 DEF TreeInv, Good, Abstract!Insert
  <1>4. ASSUME NEW k \in Key, avl_tree_delete(k)
        PROVE  TreeInv' /\ Abstract!Delete(k)
    <2>1. root' = delete_key(root, k)
      BY <1>4 DEF avl_tree_delete
    <2>2. Removed(root, k, root')
      BY <1>1, <1>2, <2>1, DeleteGood
    <2>3. CASE \E e \in Entries[root] : e.key = k /\ Holds(root', Entries[root] \ {e})
      <3>1. PICK e \in Entries[root] : e.key = k /\ Holds(root', Entries[root] \ {e})
        BY <2>3
      <3>2. root' \in Tree /\ Good(root') /\ Entries[root'] = Entries[root] \ {e}
        BY <3>1 DEF Holds
      <3> QED
        BY <3>1, <3>2 DEF TreeInv, Good, Abstract!Delete
    <2>4. CASE (\A e \in Entries[root] : e.key # k) /\ Holds(root', Entries[root])
      <3>1. root' \in Tree /\ Good(root') /\ Entries[root'] = Entries[root]
        BY <2>4 DEF Holds
      <3> QED
        BY <2>4, <3>1 DEF TreeInv, Good, Abstract!Delete
    <2> QED
      BY <2>2, <2>3, <2>4 DEF Removed
  <1> QED
    BY <1>3, <1>4 DEF Next, Abstract!EntrySetNext

\* ... and stays good.
LEMMA TreeAlways == Spec => []TreeInv
  <1>1. TreeInv /\ [Next]_root => TreeInv'
    BY StepTree DEF TreeInv, Good
  <1> QED
    BY <1>1, InitTree, PTL DEF Spec

\* Subtrees are nodes.
LEMMA SubtreesNotNull == \A x \in Tree : Subtrees[x] \subseteq Tree \ {NULL}
  <1> DEFINE S == {x \in Tree : Subtrees[x] \subseteq Tree \ {NULL}}
  <1>1. NULL \in S
    BY NullInTree, SubtreesDefined
  <1>2. ASSUME NEW x \in Tree, x # NULL, x.left \in S, x.right \in S PROVE x \in S
    BY <1>2, SubtreesDefined
  <1>3. \A x \in Tree : x \in S
    <2> HIDE DEF S
    <2> QED
      BY <1>1, <1>2, TreeInduct
  <1> QED
    BY <1>3

\* avltree.c keeps its tree balanced, ordered, and its stored heights right,
\* after any insertions and deletions, duplicate keys included.
THEOREM Searchable == Spec => []SearchTree
  <1>1. TreeInv => SearchTree
    <2> SUFFICES ASSUME TreeInv PROVE SearchTree
      OBVIOUS
    <2>1. root \in Tree /\ Good(root)
      BY DEF TreeInv
    <2>2. ASSUME NEW x \in Subtrees[root]
          PROVE  /\ diff(x) \in -1..1
                 /\ x.height = Max2(height(x.left), height(x.right)) + 1
                 /\ \A e \in Entries[x.left] : e.key <= x.key
                 /\ \A e \in Entries[x.right] : e.key >= x.key
      <3>1. x \in Tree /\ x # NULL
        BY <2>1, SubtreesNotNull
      <3>2. diff(x) \in -1..1 /\ Fits(EntryOf(x), Entries[x.left], Entries[x.right])
        BY <2>1, Zenon DEF Good
      <3>3. EntryOf(x).key = x.key
        BY DEF EntryOf
      <3>4. x.height = Max2(height(x.left), height(x.right)) + 1
        BY <3>1, TreeIs, AllNode DEF height
      <3> QED
        BY <3>2, <3>3, <3>4 DEF Fits
    <2> QED
      BY <2>2 DEF SearchTree, Balanced, Ordered
  <1> QED
    BY <1>1, TreeAlways, PTL

\* find returns an entry with the key exactly if there is one, after any
\* insertions and deletions.
THEOREM Found == Spec => []FindAgrees
  <1>1. TreeInv => FindAgrees
    BY FindGood, TreeAssumption DEF TreeInv, FindAgrees, Finds
  <1> QED
    BY <1>1, TreeAlways, PTL

\* Seen through its entries, the tree of avltree.c is a set to which insertion
\* adds one entry and from which deletion takes one with the key.
THEOREM SetImplemented == Spec => ImplementsEntrySet
  <1>1. avl_tree_construct => Abstract!EntrySetInit
    BY EntriesDefined DEF avl_tree_construct, Abstract!EntrySetInit
  <1>2. TreeInv /\ [Next]_root => [Abstract!EntrySetNext]_(Entries[root])
    BY StepTree
  <1> QED
    BY <1>1, <1>2, TreeAlways, PTL DEF Spec, ImplementsEntrySet, Abstract!EntrySetSpec

==============================================================================
