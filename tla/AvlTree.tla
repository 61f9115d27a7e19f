------------------------------- MODULE AvlTree -------------------------------
(***************************************************************************)
(* avltree.c: the balanced tree from descriptors to SOAP instances.        *)
(*                                                                         *)
(* A tree is NULL or a node with the height the code stores in it.  insert *)
(* does not look for its key first: a second entry with a key goes to the  *)
(* right of the first, and a rotation may then take it to the left of it.  *)
(***************************************************************************)
EXTENDS Integers

CONSTANTS
    Key, Data,
    MaxHeight           \* bound: levels of the tree

ASSUME TreeAssumption == Key \subseteq Int /\ MaxHeight \in Nat

VARIABLE root       \* tree->root

NULL == [height |-> 0]

height(x) == x.height
diff(x) == height(x.right) - height(x.left)

Max2(a, b) == IF a > b THEN a ELSE b

\* The trees of up to n levels, with the heights right.
Trees[n \in Nat] ==
    IF n = 0 THEN {NULL}
    ELSE {NULL} \cup {x \in [key : Key, data : Data, left : Trees[n - 1],
                              right : Trees[n - 1], height : Nat] :
                            x.height = Max2(height(x.left), height(x.right)) + 1}

Tree == Trees[MaxHeight]

\* A node whose height has been recomputed from its children.
Node(key, data, left, right) ==
    [key |-> key, data |-> data, left |-> left, right |-> right,
     height |-> Max2(height(left), height(right)) + 1]

WithLeft(x, left) == Node(x.key, x.data, left, x.right)
WithRight(x, right) == Node(x.key, x.data, x.left, right)

\* mutant: the inner subtree changes sides
RotateOuter(x) ==
    LET y == x.left IN WithRight(y, WithLeft(x, y.left))
right_rotate(x) ==
    LET y == x.left IN WithRight(y, WithLeft(x, y.right))

\* mutant: the old root is not hung below the new one
RotateForgetful(x) == x.right
left_rotate(x) ==
    LET y == x.right IN WithLeft(y, WithRight(x, y.left))

\* mutant: no double rotation to the left
SingleRotations(x) ==
    IF diff(x) >= 2 THEN left_rotate(x)
    ELSE IF diff(x) <= -2
         THEN right_rotate(IF diff(x.left) > 0
                           THEN WithLeft(x, left_rotate(x.left)) ELSE x)
    ELSE x
balance(x) ==
    IF diff(x) >= 2
    THEN left_rotate(IF diff(x.right) < 0
                     THEN WithRight(x, right_rotate(x.right)) ELSE x)
    ELSE IF diff(x) <= -2
         THEN right_rotate(IF diff(x.left) > 0
                           THEN WithLeft(x, left_rotate(x.left)) ELSE x)
    ELSE x

insert(tree, key, data) ==
    LET ins[x \in Tree] ==
            IF x = NULL THEN Node(key, data, NULL, NULL)
            ELSE IF key < x.key THEN balance(WithLeft(x, ins[x.left]))
            ELSE balance(WithRight(x, ins[x.right]))
    IN  ins[tree]

min_node[x \in Tree \ {NULL}] == IF x.left = NULL THEN x ELSE min_node[x.left]

delete_min[x \in Tree \ {NULL}] ==
    IF x.left = NULL THEN x.right
    ELSE balance(WithLeft(x, delete_min[x.left]))

\* The node that takes the place of x, deleted.
ReplaceForgetful(x) ==              \* mutant: m->left = l is forgotten
    LET m == min_node[x.right]
    IN  balance(Node(m.key, m.data, m.left, delete_min[x.right]))
Replace(x) ==
    LET m == min_node[x.right]
    IN  balance(Node(m.key, m.data, x.left, delete_min[x.right]))

delete_key(tree, key) ==
    LET del[x \in Tree] ==
            IF x = NULL THEN NULL
            ELSE IF key < x.key THEN balance(WithLeft(x, del[x.left]))
            ELSE IF key > x.key THEN balance(WithRight(x, del[x.right]))
            ELSE IF x.right = NULL THEN x.left
            ELSE Replace(x)
    IN  del[tree]

\* The subtree at which find stops: its data is the result.
FindLeftmost(tree, key) ==          \* mutant: equal keys looked for on the left
    LET search[x \in Tree] ==
            IF x = NULL THEN NULL
            ELSE IF key <= x.key /\ x.left # NULL THEN search[x.left]
            ELSE IF key = x.key THEN x
            ELSE search[x.right]
    IN  search[tree]
find(tree, key) ==
    LET search[x \in Tree] ==
            IF x = NULL THEN NULL
            ELSE IF key < x.key THEN search[x.left]
            ELSE IF key = x.key THEN x
            ELSE search[x.right]
    IN  search[tree]

\* The entries of a tree.
Entries[x \in Tree] ==
    IF x = NULL THEN {}
    ELSE {[key |-> x.key, data |-> x.data]} \cup Entries[x.left] \cup Entries[x.right]

------------------------------------------------------------------------------
avl_tree_construct == root = NULL

\* The data is a new allocation, so no entry has both its key and its data.
avl_tree_insert(key, data) ==
    /\ [key |-> key, data |-> data] \notin Entries[root]
    /\ height(root) < MaxHeight
    /\ root' = insert(root, key, data)

avl_tree_delete(key) == root' = delete_key(root, key)

Next ==
    \E k \in Key : avl_tree_delete(k) \/ \E d \in Data : avl_tree_insert(k, d)

Spec == avl_tree_construct /\ [][Next]_root

------------------------------------------------------------------------------
\* The subtrees of a tree.
Subtrees[x \in Tree] ==
    IF x = NULL THEN {} ELSE {x} \cup Subtrees[x.left] \cup Subtrees[x.right]

\* Every stored height is right and no two subtrees of a node differ by more
\* than one level, after any sequence of insertions and deletions: the test of
\* balance needs only look one level down.
Balanced ==
    \A x \in Subtrees[root] :
        /\ diff(x) \in -1..1
        /\ x.height = Max2(height(x.left), height(x.right)) + 1

\* No key on the left of a node is greater and none on the right is smaller,
\* duplicates and their rotations included.
Ordered ==
    \A x \in Subtrees[root] :
        /\ \A e \in Entries[x.left] : e.key <= x.key
        /\ \A e \in Entries[x.right] : e.key >= x.key

\* The shape avltree.c promises its callers, after any sequence of insertions
\* and deletions: logarithmic height and the order the search relies on.  A
\* rotation that loses either is a bug of balance or of the rotations.
SearchTree == Balanced /\ Ordered

\* find returns an entry with the key exactly if there is one.  It is the
\* lookup AddressManager.tla assumes: any entry with the descriptor.
FindAgrees ==
    \A k \in Key :
        LET found == find(root, k)
        IN  IF \E e \in Entries[root] : e.key = k
            THEN found # NULL /\ found.key = k /\ [key |-> k, data |-> found.data] \in Entries[root]
            ELSE found = NULL

Abstract == INSTANCE EntrySet WITH entries <- Entries[root]

\* Seen through its entries, the tree is a set to which entries are added and
\* from which one entry with the key is taken: rotations and the replacement
\* of a deleted node lose nothing.
ImplementsEntrySet == Abstract!EntrySetSpec

==============================================================================
