---------------------------- MODULE ConfigProofs ----------------------------
(***************************************************************************)
(* What reading a config file comes to, for any cameras, ports, options    *)
(* and values, and any number of lines and starts.                         *)
(***************************************************************************)
EXTENDS Config, FiniteSetTheorems, TLAPS

Avl == INSTANCE AvlProofs
            WITH root <- address_map, Key <- 0..MaxLines, Data <- 1..MaxLines,
                 MaxHeight <- MaxLines

------------------------------------------------------------------------------
(* The tree of Config.tla is the one AvlProofs.tla is about.                 *)

\* Line numbers are keys and data the tree can have.
LEMMA TreeParameters == Avl!TreeAssumption
  BY ConfigAssumption DEF Avl!TreeAssumption

\* The trees and their entries are the same ...
LEMMA SameTrees ==
    Tree!NULL = Avl!NULL /\ Tree!Tree = Avl!Tree /\ Tree!Entries = Avl!Entries
  <1>1. Tree!NULL = Avl!NULL
    BY DEF Tree!NULL, Avl!NULL
  <1>2. Tree!Tree = Avl!Tree
    BY Zenon DEF Tree!NULL, Avl!NULL, Tree!Tree, Avl!Tree, Tree!Trees, Avl!Trees,
        Tree!Max2, Avl!Max2, Tree!height, Avl!height
  <1>3. Tree!Entries = Avl!Entries
    BY Zenon DEF Tree!Entries, Avl!Entries, Tree!NULL, Avl!NULL, Tree!Tree, Avl!Tree,
        Tree!Trees, Avl!Trees, Tree!Max2, Avl!Max2, Tree!height, Avl!height
  <1> QED
    BY <1>1, <1>2, <1>3

\* ... and so are the functions on nodes.
LEMMA SameNodes ==
    /\ \A x : Tree!height(x) = Avl!height(x) /\ Tree!diff(x) = Avl!diff(x)
    /\ \A k, d, l, r : Tree!Node(k, d, l, r) = Avl!Node(k, d, l, r)
    /\ \A x, y : Tree!WithLeft(x, y) = Avl!WithLeft(x, y)
    /\ \A x, y : Tree!WithRight(x, y) = Avl!WithRight(x, y)
    /\ \A x : Tree!balance(x) = Avl!balance(x)
  <1>1. \A x : Tree!height(x) = Avl!height(x) /\ Tree!diff(x) = Avl!diff(x)
    BY Zenon DEF Tree!height, Avl!height, Tree!diff, Avl!diff
  <1>2. \A k, d, l, r : Tree!Node(k, d, l, r) = Avl!Node(k, d, l, r)
    BY Zenon DEF Tree!Node, Avl!Node, Tree!height, Avl!height, Tree!Max2, Avl!Max2
  <1>3. /\ \A x, y : Tree!WithLeft(x, y) = Avl!WithLeft(x, y)
        /\ \A x, y : Tree!WithRight(x, y) = Avl!WithRight(x, y)
    BY <1>2, Zenon DEF Tree!WithLeft, Avl!WithLeft, Tree!WithRight, Avl!WithRight
  <1>4. /\ \A x : Tree!left_rotate(x) = Avl!left_rotate(x)
        /\ \A x : Tree!right_rotate(x) = Avl!right_rotate(x)
    BY <1>3, Zenon DEF Tree!left_rotate, Avl!left_rotate, Tree!right_rotate, Avl!right_rotate
  <1>5. \A x : Tree!balance(x) = Avl!balance(x)
    BY <1>1, <1>3, <1>4, Zenon DEF Tree!balance, Avl!balance
  <1> QED
    BY <1>1, <1>2, <1>3, <1>5

\* Inserting is the same: one function satisfies both definitions.
LEMMA SameInsert ==
    ASSUME NEW k \in 0..MaxLines, NEW d \in 1..MaxLines
    PROVE  \A x \in Avl!Tree : Tree!insert(x, k, d) = Avl!insert(x, k, d)
  <1>1. /\ Avl!insert(Avl!NULL, k, d) = Avl!Node(k, d, Avl!NULL, Avl!NULL)
        /\ \A x \in Avl!Tree : x # Avl!NULL =>
             Avl!insert(x, k, d) =
                 IF k < x.key THEN Avl!balance(Avl!WithLeft(x, Avl!insert(x.left, k, d)))
                 ELSE Avl!balance(Avl!WithRight(x, Avl!insert(x.right, k, d)))
    BY TreeParameters, Avl!InsertReads
  <1>2. \A x \in Avl!Tree : x # Avl!NULL => x.left \in Avl!Tree /\ x.right \in Avl!Tree
    BY TreeParameters, Avl!TreeNode
  <1> DEFINE Reads(g) ==
        g = [x \in Tree!Tree |->
                IF x = Tree!NULL THEN Tree!Node(k, d, Tree!NULL, Tree!NULL)
                ELSE IF k < x.key THEN Tree!balance(Tree!WithLeft(x, g[x.left]))
                ELSE Tree!balance(Tree!WithRight(x, g[x.right]))]
  <1>3. PICK f : f = [x \in Avl!Tree |-> Avl!insert(x, k, d)]
    OBVIOUS
  <1>4. Reads(f)
    <2>1. ASSUME NEW x \in Avl!Tree
          PROVE  f[x] = IF x = Tree!NULL THEN Tree!Node(k, d, Tree!NULL, Tree!NULL)
                        ELSE IF k < x.key THEN Tree!balance(Tree!WithLeft(x, f[x.left]))
                        ELSE Tree!balance(Tree!WithRight(x, f[x.right]))
      <3>1. f[x] = Avl!insert(x, k, d)
        BY <1>3, Zenon
      <3>2. CASE x = Avl!NULL
        BY <1>1, <3>1, <3>2, SameTrees, SameNodes, Zenon
      <3>3. CASE x # Avl!NULL
        <4>1. f[x.left] = Avl!insert(x.left, k, d) /\ f[x.right] = Avl!insert(x.right, k, d)
          BY <1>2, <1>3, <3>3, Zenon
        <4> QED
          BY <1>1, <3>1, <3>3, <4>1, SameTrees, SameNodes, Zenon
      <3> QED
        BY <3>2, <3>3
    <2>2. f = [x \in Avl!Tree |-> f[x]]
      BY <1>3, Zenon
    <2> QED
      BY <2>1, <2>2, SameTrees, Zenon
  <1>5. PICK g : g = (CHOOSE h : Reads(h))
    OBVIOUS
  <1>6. Reads(g)
    <2> HIDE DEF Reads
    <2> QED
      BY <1>4, <1>5, Zenon
  <1>7. \A x : Tree!insert(x, k, d) = g[x]
    BY <1>5, Zenon DEF Tree!insert
  <1> DEFINE S == {x \in Avl!Tree : g[x] = Avl!insert(x, k, d)}
  <1>8. Avl!NULL \in S
    BY <1>1, <1>6, TreeParameters, Avl!NullInTree, SameTrees, SameNodes, Zenon
  <1>9. ASSUME NEW x \in Avl!Tree, x # Avl!NULL, x.left \in S, x.right \in S
        PROVE  x \in S
    <2>1. g[x] = IF k < x.key THEN Tree!balance(Tree!WithLeft(x, g[x.left]))
                 ELSE Tree!balance(Tree!WithRight(x, g[x.right]))
      BY <1>6, <1>9, SameTrees, Zenon
    <2>2. g[x] = Avl!insert(x, k, d)
      BY <1>1, <1>9, <2>1, SameNodes, Zenon
    <2> QED
      BY <1>9, <2>2, Zenon
  <1>10. \A x \in Avl!Tree : x \in S
    <2> HIDE DEF S
    <2> QED
      BY <1>8, <1>9, TreeParameters, Avl!TreeInduct
  <1> QED
    BY <1>7, <1>10, Zenon

------------------------------------------------------------------------------
(* The search.                                                               *)

\* The search, left, right, then the node itself, satisfies its equation.
LEMMA SearchReads ==
    ASSUME NEW ip
    PROVE  /\ find_soap_instance_matching_ip(Avl!NULL, ip) = 0
           /\ \A x \in Avl!Tree :
                find_soap_instance_matching_ip(x, ip) \in 0..MaxLines
           /\ \A x \in Avl!Tree : x # Avl!NULL =>
                find_soap_instance_matching_ip(x, ip) =
                    IF find_soap_instance_matching_ip(x.left, ip) # 0
                    THEN find_soap_instance_matching_ip(x.left, ip)
                    ELSE IF find_soap_instance_matching_ip(x.right, ip) # 0
                    THEN find_soap_instance_matching_ip(x.right, ip)
                    ELSE IF Occurs(ip, instances[x.data].address) THEN x.data ELSE 0
  <1>1. PICK V : V = 0..MaxLines
    OBVIOUS
  <1> DEFINE E(x, l, r) == IF l # 0 THEN l ELSE IF r # 0 THEN r
                           ELSE IF Occurs(ip, instances[x.data].address) THEN x.data ELSE 0
             Reads(h) ==
                h = [x \in Tree!Tree |->
                        IF x = Tree!NULL THEN 0
                        ELSE IF h[x.left] # 0 THEN h[x.left]
                        ELSE IF h[x.right] # 0 THEN h[x.right]
                        ELSE IF Occurs(ip, instances[x.data].address) THEN x.data ELSE 0]
             At(x, l, r) == IF x = Avl!NULL THEN 0 ELSE E(x, l, r)
  <1>2. PICK step : step = [x \in Avl!Tree |-> [l \in V |-> [r \in V |-> At(x, l, r)]]]
    OBVIOUS
  <1>3. 0 \in V
    BY <1>1, ConfigAssumption
  <1>4. \A x \in Avl!Tree : x # Avl!NULL => x.data \in V /\ x.left \in Avl!Tree /\ x.right \in Avl!Tree
    <2>1. \A x \in Avl!Tree : x # Avl!NULL =>
            x \in Avl!AllTrees /\ x.left \in Avl!Tree /\ x.right \in Avl!Tree
      BY TreeParameters, Avl!TreeNode
    <2>2. \A x \in Avl!Tree : x # Avl!NULL => x.data \in 1..MaxLines
      BY <2>1, TreeParameters, Avl!AllNode
    <2> QED
      BY <1>1, <2>1, <2>2
  <1>5. \A x \in Avl!Tree, l \in V, r \in V : At(x, l, r) \in V
    BY <1>3, <1>4, Zenon
  <1>6. /\ step \in [Avl!Tree -> [V -> [V -> V]]]
        /\ \A x \in Avl!Tree, l \in V, r \in V : step[x][l][r] = At(x, l, r)
    <2> HIDE DEF At
    <2> QED
      BY <1>2, <1>5
  <1>7. PICK f : Avl!Recursive(V, 0, step, f)
    BY <1>3, <1>6, TreeParameters, Avl!RecursiveExists
  <1>8. /\ \A x \in Avl!Tree : f[x] \in V
        /\ f = [x \in Avl!Tree |-> IF x = Avl!NULL THEN 0 ELSE step[x][f[x.left]][f[x.right]]]
    BY <1>7, Zenon DEF Avl!Recursive
  <1>9. Reads(f)
    <2>1. ASSUME NEW x \in Avl!Tree, x # Avl!NULL
          PROVE  step[x][f[x.left]][f[x.right]] = E(x, f[x.left], f[x.right])
      <3>1. PICK l \in V, r \in V : l = f[x.left] /\ r = f[x.right]
        BY <1>4, <1>8, <2>1, Zenon
      <3>2. step[x][l][r] = At(x, l, r)
        <4> HIDE DEF At
        <4> QED
          BY <1>6
      <3>3. step[x][l][r] = E(x, l, r)
        <4> HIDE DEF E
        <4> QED
          BY <2>1, <3>2
      <3> HIDE DEF E
      <3> QED
        BY <3>1, <3>3
    <2> QED
      BY <1>8, <2>1, SameTrees, Zenon
  <1>10. PICK g : g = (CHOOSE h : Reads(h))
    OBVIOUS
  <1>11. Reads(g)
    <2> HIDE DEF Reads
    <2> QED
      BY <1>9, <1>10, Zenon
  <1>12. \A x : find_soap_instance_matching_ip(x, ip) = g[x]
    BY <1>10, Zenon DEF find_soap_instance_matching_ip
  <1>13. Avl!NULL \in Avl!Tree
    BY TreeParameters, Avl!NullInTree
  <1>14. g[Avl!NULL] = 0
    BY <1>11, <1>13, SameTrees, Zenon
  <1>15. \A x \in Avl!Tree : x # Avl!NULL => g[x] = E(x, g[x.left], g[x.right])
    BY <1>11, SameTrees, Zenon
  <1> DEFINE S == {x \in Avl!Tree : g[x] \in V}
  <1>16. Avl!NULL \in S
    BY <1>3, <1>13, <1>14
  <1>17. ASSUME NEW x \in Avl!Tree, x # Avl!NULL, x.left \in S, x.right \in S
         PROVE  x \in S
    BY <1>3, <1>4, <1>15, <1>17, Zenon
  <1>18. \A x \in Avl!Tree : x \in S
    <2> HIDE DEF S
    <2> QED
      BY <1>16, <1>17, TreeParameters, Avl!TreeInduct
  <1>19. \A x \in Avl!Tree : g[x] \in 0..MaxLines
    BY <1>1, <1>18, Zenon
  <1>20. \A x \in Avl!Tree : x # Avl!NULL =>
            g[x] = IF g[x.left] # 0 THEN g[x.left] ELSE IF g[x.right] # 0 THEN g[x.right]
                   ELSE IF Occurs(ip, instances[x.data].address) THEN x.data ELSE 0
    BY <1>15, Zenon
  <1>21. find_soap_instance_matching_ip(Avl!NULL, ip) = 0
    BY <1>12, <1>14, Zenon
  <1>22. \A x \in Avl!Tree : find_soap_instance_matching_ip(x, ip) \in 0..MaxLines
    BY <1>12, <1>19, Zenon
  <1>23. ASSUME NEW x \in Avl!Tree, x # Avl!NULL
         PROVE  find_soap_instance_matching_ip(x, ip) =
                    IF find_soap_instance_matching_ip(x.left, ip) # 0
                    THEN find_soap_instance_matching_ip(x.left, ip)
                    ELSE IF find_soap_instance_matching_ip(x.right, ip) # 0
                    THEN find_soap_instance_matching_ip(x.right, ip)
                    ELSE IF Occurs(ip, instances[x.data].address) THEN x.data ELSE 0
    BY <1>12, <1>20, <1>23, Zenon
  <1> QED
    BY <1>21, <1>22, <1>23, Zenon

\* Found is an entry whose instance matches; nothing is found only if there is
\* none.
FindsOne(x, ip, found) ==
    IF found = 0 THEN \A e \in Avl!Entries[x] : ~Occurs(ip, instances[e.data].address)
    ELSE \E e \in Avl!Entries[x] : e.data = found /\ Occurs(ip, instances[found].address)

\* The search finds an instance that matches, if there is one below the node.
LEMMA SearchFinds ==
    ASSUME NEW ip
    PROVE  \A x \in Avl!Tree : FindsOne(x, ip, find_soap_instance_matching_ip(x, ip))
  <1> DEFINE F(x) == find_soap_instance_matching_ip(x, ip)
             S == {x \in Avl!Tree : FindsOne(x, ip, F(x))}
  <1>1. Avl!NULL \in S
    <2>1. Avl!Entries[Avl!NULL] = {} /\ Avl!NULL \in Avl!Tree
      BY TreeParameters, Avl!EntriesDefined, Avl!NullInTree
    <2>2. F(Avl!NULL) = 0
      BY SearchReads, Zenon
    <2> HIDE DEF F
    <2> QED
      BY <2>1, <2>2, Zenon DEF FindsOne
  <1>2. ASSUME NEW x \in Avl!Tree, x # Avl!NULL, x.left \in S, x.right \in S
        PROVE  x \in S
    <2>1. PICK d : d = x.data
      OBVIOUS
    <2>2. PICK e : e = [key |-> x.key, data |-> d]
      OBVIOUS
    <2>3. e.data = d
      BY <2>2
    <2>4. Avl!Entries[x] = {e} \cup Avl!Entries[x.left] \cup Avl!Entries[x.right]
      BY <1>2, <2>1, <2>2, TreeParameters, Avl!EntriesDefined
    <2>5. d # 0
      <3>1. x \in Avl!AllTrees
        BY <1>2, TreeParameters, Avl!TreeNode
      <3>2. x.data \in 1..MaxLines
        BY <1>2, <3>1, TreeParameters, Avl!AllNode
      <3> QED
        BY <2>1, <3>2, ConfigAssumption
    <2>6. F(x) = IF F(x.left) # 0 THEN F(x.left) ELSE IF F(x.right) # 0 THEN F(x.right)
                 ELSE IF Occurs(ip, instances[d].address) THEN d ELSE 0
      BY <1>2, <2>1, SearchReads, Zenon
    <2>7. FindsOne(x.left, ip, F(x.left)) /\ FindsOne(x.right, ip, F(x.right))
      BY <1>2
    <2> HIDE DEF F
    <2>8. CASE F(x.left) # 0
      BY <2>4, <2>6, <2>7, <2>8, Zenon DEF FindsOne
    <2>9. CASE F(x.left) = 0 /\ F(x.right) # 0
      BY <2>4, <2>6, <2>7, <2>9, Zenon DEF FindsOne
    <2>10. CASE F(x.left) = 0 /\ F(x.right) = 0
      <3>1. CASE Occurs(ip, instances[d].address)
        BY <2>3, <2>4, <2>5, <2>6, <2>10, <3>1, Zenon DEF FindsOne
      <3>2. CASE ~Occurs(ip, instances[d].address)
        <4>1. F(x) = 0
          BY <2>6, <2>10, <3>2, Zenon
        <4> QED
          BY <2>3, <2>4, <2>7, <2>10, <3>2, <4>1, Zenon DEF FindsOne
      <3> QED
        BY <3>1, <3>2
    <2> QED
      BY <2>8, <2>9, <2>10, Zenon
  <1>3. \A x \in Avl!Tree : x \in S
    <2> HIDE DEF S
    <2> QED
      BY <1>1, <1>2, TreeParameters, Avl!TreeInduct
  <1> QED
    BY <1>3

------------------------------------------------------------------------------
(* The invariant: one part for each thing a start builds up.                 *)

Instance == [address : Address, settings : [Setting -> Value \cup {Default}]]

\* The lines read so far.
FileInv == file \in Seq(Line) /\ Len(file) <= MaxLines

PlaceInv ==
    /\ contents \in [Place -> Contents]
    /\ starts \in 1..MaxStarts
    /\ source \in Place

\* Nothing is known before a file is found, and only an edited one has
\* credentials.
CourseInv ==
    /\ phase \in {"lookup", "reading", "started", "died"}
    /\ credentials \subseteq {"username", "password"}
    /\ phase = "lookup" => credentials = {}
    /\ phase = "reading" => /\ contents[source] # "absent"
                            /\ contents[source] # "edited" => credentials = {}

\* Each port took a line, so there is a key for the next one.
PortsInv ==
    /\ used_ports \subseteq Port
    /\ IsFiniteSet(used_ports)
    /\ Cardinality(used_ports) <= Len(file)

\* The tree is a search tree of no more levels than lines; its entries are the
\* instances, each named after the line that made it.
MapInv ==
    /\ address_map \in Avl!Tree
    /\ Avl!Good(address_map)
    /\ Avl!height(address_map) <= Len(file)
    /\ {e.data : e \in Avl!Entries[address_map]} = DOMAIN instances
    /\ DOMAIN instances \subseteq DOMAIN file
    /\ \A k \in DOMAIN instances : instances[k] \in Instance

ConfigInv == FileInv /\ PlaceInv /\ CourseInv /\ PortsInv /\ MapInv

\* The invariant holds before anything is read.
LEMMA ConfigStarts == Init => ConfigInv
  <1> SUFFICES ASSUME Init PROVE ConfigInv
    OBVIOUS
  <1>1. FileInv
    BY ConfigAssumption DEF Init, FileInv
  <1>2. PlaceInv
    BY ConfigAssumption DEF Init, PlaceInv, Place, Contents
  <1>3. CourseInv
    BY DEF Init, CourseInv
  <1>4. PortsInv
    BY FS_EmptySet DEF Init, PortsInv
  <1>5. MapInv
    <2>1. /\ Avl!NULL \in Avl!Tree /\ Avl!Good(Avl!NULL) /\ Avl!height(Avl!NULL) = 0
          /\ Avl!Entries[Avl!NULL] = {}
      BY TreeParameters, Avl!NullInTree, Avl!GoodNull, Avl!AllNull, Avl!EntriesDefined
    <2>2. address_map = Avl!NULL /\ instances = <<>> /\ file = <<>>
      BY SameTrees DEF Init
    <2> QED
      BY <2>1, <2>2 DEF MapInv
  <1> QED
    BY <1>1, <1>2, <1>3, <1>4, <1>5 DEF ConfigInv

\* What a line leaves behind.
LEMMA LineRead ==
    ASSUME FileInv, NEW line \in Line, Reading(line)
    PROVE  /\ FileInv' /\ Len(file') = Len(file) + 1 /\ Len(file) < MaxLines
           /\ DOMAIN file = 1..Len(file) /\ DOMAIN file' = 1..(Len(file) + 1)
           /\ \A j \in DOMAIN file : j \in DOMAIN file' /\ file'[j] = file[j]
           /\ file'[Len(file) + 1] = line
           /\ Len(file) \in Nat /\ phase = "reading" /\ contents[source] # "empty"
           /\ contents[source] = "skeleton" => line.kind = "unmodified"
           /\ UNCHANGED <<contents, starts, source>>
  BY ConfigAssumption DEF FileInv, Reading, fileVars

\* A line that leaves the ports, the tree and the instances alone.
LEMMA LineKeeps ==
    ASSUME ConfigInv, NEW line \in Line, Reading(line), UNCHANGED instanceVars
    PROVE  FileInv' /\ PlaceInv' /\ PortsInv' /\ MapInv'
  <1>1. FileInv' /\ Len(file') = Len(file) + 1 /\ DOMAIN file \subseteq DOMAIN file' /\ Len(file) \in Nat
    BY LineRead DEF ConfigInv
  <1>2. PlaceInv'
    BY LineRead DEF ConfigInv, PlaceInv
  <1>3. PortsInv'
    <2>1. Cardinality(used_ports) \in Nat
      BY FS_CardinalityType DEF ConfigInv, PortsInv
    <2> QED
      BY <1>1, <2>1 DEF ConfigInv, PortsInv, instanceVars
  <1>4. MapInv'
    <2>1. Avl!height(address_map) \in Nat
      BY TreeParameters, Avl!TreeIs, Avl!AllReads DEF ConfigInv, MapInv
    <2>2. Avl!height(address_map) <= Len(file')
      BY <1>1, <2>1 DEF ConfigInv, MapInv
    <2> QED
      BY <1>1, <2>2 DEF ConfigInv, MapInv, instanceVars
  <1> QED
    BY <1>1, <1>2, <1>3, <1>4

\* The instance a line adds: a tree with one more entry, in reach of the bound.
LEMMA ReadyKeeps ==
    ASSUME ConfigInv, NEW port \in Port, NEW a \in Address, PortReady(port, a)
    PROVE  ConfigInv'
  <1> DEFINE line == [kind |-> "port", port |-> port, address |-> a]
             n == Len(file) + 1
  <1>1. line \in Line /\ Reading(line)
    BY DEF Line, PortReady
  <1>2. /\ FileInv' /\ Len(file') = n /\ Len(file) < MaxLines /\ DOMAIN file = 1..Len(file)
        /\ DOMAIN file' = 1..n /\ Len(file) \in Nat
        /\ phase = "reading" /\ contents[source] # "empty"
        /\ contents[source] = "skeleton" => line.kind = "unmodified"
        /\ UNCHANGED <<contents, starts, source>>
    BY <1>1, LineRead DEF ConfigInv
  <1>3. PlaceInv'
    BY <1>2 DEF ConfigInv, PlaceInv
  <1>4. CourseInv'
    BY <1>2 DEF ConfigInv, CourseInv, PortReady
  <1>5. Cardinality(used_ports) \in 0..MaxLines /\ Cardinality(used_ports) <= Len(file)
    BY <1>2, FS_CardinalityType, ConfigAssumption DEF ConfigInv, PortsInv
  <1>6. PortsInv'
    <2>1. used_ports' = used_ports \cup {port} /\ port \notin used_ports
      BY DEF PortReady
    <2>2. IsFiniteSet(used_ports') /\ Cardinality(used_ports') = Cardinality(used_ports) + 1
      BY <2>1, FS_AddElement DEF ConfigInv, PortsInv
    <2> QED
      BY <1>2, <1>5, <2>1, <2>2 DEF ConfigInv, PortsInv
  <1>7. MapInv'
    <2>1. PICK k \in 0..MaxLines : k = Cardinality(used_ports)
      BY <1>5
    <2>2. n \in 1..MaxLines /\ n \notin DOMAIN instances
      BY <1>2, ConfigAssumption DEF ConfigInv, MapInv
    <2>3. address_map' = Avl!insert(address_map, k, n)
      <3>1. address_map' = Tree!insert(address_map, k, n)
        BY <1>2, <2>1, Zenon DEF PortReady
      <3> QED
        BY <2>2, <3>1, SameInsert DEF ConfigInv, MapInv
    <2>4. PICK E : E = Avl!Entries[address_map]
      OBVIOUS
    <2>5. PICK e : e = [key |-> k, data |-> n]
      OBVIOUS
    <2>6. e.data = n
      BY <2>5
    <2>7. e \notin E
      BY <2>2, <2>4, <2>6 DEF ConfigInv, MapInv
    <2>8. Avl!height(address_map) \in Nat /\ Avl!height(address_map) <= Len(file)
      BY TreeParameters, Avl!TreeIs, Avl!AllReads DEF ConfigInv, MapInv
    <2>9. /\ Avl!Holds(address_map', {e} \cup E)
          /\ Avl!height(address_map') \in {Avl!height(address_map), Avl!height(address_map) + 1}
      <3>1. Avl!height(address_map) < MaxLines
        BY <1>2, <2>8, ConfigAssumption
      <3>2. address_map \in Avl!Tree /\ Avl!Good(address_map)
        BY DEF ConfigInv, MapInv
      <3>3. \A x \in Avl!Tree :
              Avl!Good(x) /\ Avl!height(x) < MaxLines
                    /\ [key |-> k, data |-> n] \notin Avl!Entries[x]
                => /\ Avl!Holds(Avl!insert(x, k, n), {[key |-> k, data |-> n]} \cup Avl!Entries[x])
                   /\ Avl!height(Avl!insert(x, k, n)) \in {Avl!height(x), Avl!height(x) + 1}
        BY <2>2, TreeParameters, Avl!InsertGood
      <3> QED
        BY <2>3, <2>4, <2>5, <2>7, <3>1, <3>2, <3>3, Zenon
    <2>10. /\ address_map' \in Avl!Tree /\ Avl!Good(address_map')
          /\ Avl!Entries[address_map'] = {e} \cup E
      BY <2>9, Zenon DEF Avl!Holds
    <2>11. Avl!height(address_map') <= Len(file')
      BY <1>2, <2>8, <2>9
    <2>12. /\ DOMAIN instances' = DOMAIN instances \cup {n}
           /\ \A i \in DOMAIN instances : instances'[i] = instances[i]
           /\ instances'[n] = [address |-> a, settings |-> [s \in Setting |-> Default]]
      BY <1>2, <2>2 DEF PortReady
    <2>13. \A i \in DOMAIN instances' : instances'[i] \in Instance
      BY <2>12 DEF ConfigInv, MapInv, Instance
    <2>14. DOMAIN instances' \subseteq DOMAIN file'
      BY <1>2, <2>12 DEF ConfigInv, MapInv
    <2>15. {x.data : x \in {e} \cup E} = DOMAIN instances'
      BY <2>4, <2>6, <2>12 DEF ConfigInv, MapInv
    <2>16. {x.data : x \in Avl!Entries[address_map']} = DOMAIN instances'
      BY <2>10, <2>15
    <2> QED
      BY <2>10, <2>11, <2>13, <2>14, <2>16 DEF MapInv
  <1> QED
    BY <1>2, <1>3, <1>4, <1>6, <1>7 DEF ConfigInv

\* The instance a setting goes to is one of those there are, and stays one.
LEMMA ApplyReads ==
    ASSUME ConfigInv, NEW section \in Section, NEW name \in Setting, NEW value \in Value,
           Apply(section, name, value)
    PROVE  \/ /\ instances' = instances
              /\ \A i \in DOMAIN instances : ~Occurs(section, instances[i].address)
           \/ \E found \in DOMAIN instances :
                /\ Occurs(section, instances[found].address)
                /\ DOMAIN instances' = DOMAIN instances
                /\ \A i \in DOMAIN instances \ {found} : instances'[i] = instances[i]
                /\ instances'[found].address = instances[found].address
                /\ instances'[found] \in Instance
                /\ \A s \in Setting : instances'[found].settings[s] =
                        IF s = name THEN value ELSE instances[found].settings[s]
  <1>1. PICK found : found = find_soap_instance_matching_ip(address_map, section)
    OBVIOUS
  <1>2. instances' = IF found = 0 THEN instances
                     ELSE [instances EXCEPT ![found].settings[name] = value]
    BY <1>1, Zenon DEF Apply
  <1>3. PICK E : E = Avl!Entries[address_map] /\ {e.data : e \in E} = DOMAIN instances
    BY DEF ConfigInv, MapInv
  <1>4. IF found = 0 THEN \A e \in E : ~Occurs(section, instances[e.data].address)
        ELSE \E e \in E : e.data = found /\ Occurs(section, instances[found].address)
    BY <1>1, <1>3, SearchFinds, Zenon DEF ConfigInv, MapInv, FindsOne
  <1>5. CASE found = 0
    <2>1. ASSUME NEW i \in DOMAIN instances PROVE ~Occurs(section, instances[i].address)
      <3>1. PICK e \in E : e.data = i
        BY <1>3
      <3> QED
        BY <1>4, <1>5, <3>1, Zenon
    <2> QED
      BY <1>2, <1>5, <2>1
  <1>6. CASE found # 0
    <2>1. found \in DOMAIN instances /\ Occurs(section, instances[found].address)
      BY <1>3, <1>4, <1>6
    <2>2. instances[found] \in Instance
      BY <2>1 DEF ConfigInv, MapInv
    <2>3. instances' = [instances EXCEPT ![found].settings[name] = value]
      BY <1>2, <1>6
    <2>4. /\ DOMAIN instances' = DOMAIN instances
          /\ \A i \in DOMAIN instances \ {found} : instances'[i] = instances[i]
          /\ instances'[found] = [instances[found] EXCEPT !.settings[name] = value]
      BY <2>1, <2>3
    <2>5. /\ instances'[found] \in Instance
          /\ instances'[found].address = instances[found].address
          /\ \A s \in Setting : instances'[found].settings[s] =
                IF s = name THEN value ELSE instances[found].settings[s]
      BY <2>2, <2>4 DEF Instance
    <2> QED
      BY <2>1, <2>4, <2>5
  <1> QED
    BY <1>5, <1>6

\* No line, no search for a file and no start breaks the invariant.
LEMMA ConfigSteps == ConfigInv /\ [Next]_vars => ConfigInv'
  <1> SUFFICES ASSUME ConfigInv, [Next]_vars PROVE ConfigInv'
    OBVIOUS
  <1> USE DEF fileVars, instanceVars
  <1>1. ASSUME NEW p \in Place, Found(p) PROVE ConfigInv'
    <2>1. /\ UNCHANGED <<contents, starts, file, credentials, instanceVars>>
          /\ phase = "lookup" /\ phase' = "reading" /\ source' = p /\ contents[p] # "absent"
      BY <1>1 DEF Found
    <2>2. PlaceInv'
      BY <2>1 DEF ConfigInv, PlaceInv
    <2>3. CourseInv'
      BY <2>1 DEF ConfigInv, CourseInv
    <2>4. FileInv' /\ PortsInv' /\ MapInv'
      BY <2>1 DEF ConfigInv, FileInv, PortsInv, MapInv
    <2> QED
      BY <2>2, <2>3, <2>4 DEF ConfigInv
  <1>2. CASE CreateSkeleton
    <2>1. /\ UNCHANGED <<starts, source, file, credentials, instanceVars>> /\ phase' = "died"
          /\ contents' \in [Place -> Contents]
      BY <1>2 DEF CreateSkeleton, ConfigInv, PlaceInv, Contents
    <2>2. PlaceInv' /\ CourseInv'
      BY <2>1 DEF ConfigInv, PlaceInv, CourseInv
    <2>3. FileInv' /\ PortsInv' /\ MapInv'
      BY <2>1 DEF ConfigInv, FileInv, PortsInv, MapInv
    <2> QED
      BY <2>2, <2>3 DEF ConfigInv
  <1>3. CASE CannotOpen
    BY <1>3 DEF CannotOpen, ConfigInv, FileInv, PlaceInv, CourseInv, PortsInv, MapInv
  <1>4. CASE Edit
    <2>1. /\ UNCHANGED <<starts, source, file, phase, credentials, instanceVars>>
          /\ phase = "died" /\ contents' \in [Place -> Contents]
      BY <1>4 DEF Edit, ConfigInv, PlaceInv, Contents
    <2>2. PlaceInv' /\ CourseInv'
      BY <2>1 DEF ConfigInv, PlaceInv, CourseInv
    <2>3. FileInv' /\ PortsInv' /\ MapInv'
      BY <2>1 DEF ConfigInv, FileInv, PortsInv, MapInv
    <2> QED
      BY <2>2, <2>3 DEF ConfigInv
  <1>5. CASE StartAgain
    <2>1. /\ UNCHANGED contents /\ starts' = starts + 1 /\ starts < MaxStarts
          /\ phase' = "lookup" /\ source' = "xdg" /\ file' = <<>> /\ credentials' = {}
          /\ used_ports' = {} /\ address_map' = Tree!NULL /\ instances' = <<>>
      BY <1>5 DEF StartAgain
    <2>2. FileInv' /\ CourseInv'
      BY <2>1, ConfigAssumption DEF FileInv, CourseInv
    <2>3. PlaceInv'
      BY <2>1, ConfigAssumption DEF ConfigInv, PlaceInv, Place
    <2>4. PortsInv'
      BY <2>1, FS_EmptySet DEF PortsInv
    <2>5. MapInv'
      <3>1. /\ Avl!NULL \in Avl!Tree /\ Avl!Good(Avl!NULL) /\ Avl!height(Avl!NULL) = 0
            /\ Avl!Entries[Avl!NULL] = {}
        BY TreeParameters, Avl!NullInTree, Avl!GoodNull, Avl!AllNull, Avl!EntriesDefined
      <3>2. address_map' = Avl!NULL
        BY <2>1, SameTrees
      <3> QED
        BY <2>1, <3>1, <3>2 DEF MapInv
    <2> QED
      BY <2>2, <2>3, <2>4, <2>5 DEF ConfigInv
  <1>6. ASSUME NEW name \in {"username", "password"}, Credential(name) PROVE ConfigInv'
    <2> DEFINE line == [kind |-> name]
    <2>1. line \in Line /\ Reading(line) /\ line.kind # "unmodified"
      BY <1>6 DEF Line, Credential
    <2>2. UNCHANGED instanceVars /\ phase' = phase /\ credentials' = credentials \cup {name}
      BY <1>6 DEF Credential
    <2>3. FileInv' /\ PlaceInv' /\ PortsInv' /\ MapInv'
      BY <2>1, <2>2, LineKeeps
    <2>4. contents[source] = "edited" /\ phase = "reading" /\ UNCHANGED <<contents, source>>
      BY <2>1, LineRead DEF ConfigInv, PlaceInv, CourseInv, Contents
    <2>5. CourseInv'
      BY <2>2, <2>4 DEF ConfigInv, CourseInv
    <2> QED
      BY <2>3, <2>5 DEF ConfigInv
  <1>7. CASE Unmodified
    <2> DEFINE line == [kind |-> "unmodified"]
    <2>1. line \in Line /\ Reading(line)
      BY <1>7 DEF Line, Unmodified
    <2>2. UNCHANGED instanceVars /\ phase' = "died" /\ UNCHANGED credentials
      BY <1>7 DEF Unmodified
    <2>3. FileInv' /\ PlaceInv' /\ PortsInv' /\ MapInv'
      BY <2>1, <2>2, LineKeeps
    <2>4. CourseInv'
      BY <2>2 DEF ConfigInv, CourseInv
    <2> QED
      BY <2>3, <2>4 DEF ConfigInv
  <1>8. ASSUME NEW port \in Port, NEW a \in Address, PortAgain(port, a) PROVE ConfigInv'
    <2> DEFINE line == [kind |-> "port", port |-> port, address |-> a]
    <2>1. line \in Line /\ Reading(line) /\ UNCHANGED instanceVars
      BY <1>8 DEF Line, PortAgain
    <2>2. FileInv' /\ PlaceInv' /\ PortsInv' /\ MapInv'
      BY <2>1, LineKeeps
    <2>3. UNCHANGED <<contents, source, phase, credentials>>
      BY <1>8, <2>1, LineRead DEF ConfigInv, PortAgain
    <2> QED
      BY <2>2, <2>3 DEF ConfigInv, CourseInv
  <1>9. ASSUME NEW port \in Port, NEW a \in Address, PortReady(port, a) PROVE ConfigInv'
    BY <1>9, ReadyKeeps
  <1>10. ASSUME NEW port \in Port, NEW a \in Address, PortSilent(port, a) PROVE ConfigInv'
    <2> DEFINE line == [kind |-> "port", port |-> port, address |-> a]
    <2>1. line \in Line /\ Reading(line)
      BY <1>10 DEF Line, PortSilent
    <2>2. /\ FileInv' /\ Len(file') = Len(file) + 1 /\ DOMAIN file \subseteq DOMAIN file'
          /\ Len(file) \in Nat /\ UNCHANGED <<contents, starts, source>>
      BY <2>1, LineRead DEF ConfigInv
    <2>3. /\ used_ports' = used_ports \cup {port} /\ port \notin used_ports
          /\ UNCHANGED <<phase, credentials, address_map, instances>>
      BY <1>10 DEF PortSilent
    <2>4. PlaceInv' /\ CourseInv'
      BY <2>2, <2>3 DEF ConfigInv, PlaceInv, CourseInv
    <2>5. PortsInv'
      <3>1. IsFiniteSet(used_ports') /\ Cardinality(used_ports') = Cardinality(used_ports) + 1
        BY <2>3, FS_AddElement DEF ConfigInv, PortsInv
      <3>2. Cardinality(used_ports) \in Nat
        BY FS_CardinalityType DEF ConfigInv, PortsInv
      <3> QED
        BY <2>2, <2>3, <3>1, <3>2 DEF ConfigInv, PortsInv
    <2>6. MapInv'
      <3>1. Avl!height(address_map) \in Nat
        BY TreeParameters, Avl!TreeIs, Avl!AllReads DEF ConfigInv, MapInv
      <3>2. Avl!height(address_map) <= Len(file')
        BY <2>2, <3>1 DEF ConfigInv, MapInv
      <3> QED
        BY <2>2, <2>3, <3>2 DEF ConfigInv, MapInv
    <2> QED
      BY <2>2, <2>4, <2>5, <2>6 DEF ConfigInv
  <1>11. ASSUME NEW port \in Port, NEW a \in Address, PortDies(port, a) PROVE ConfigInv'
    <2> DEFINE line == [kind |-> "port", port |-> port, address |-> a]
    <2>1. line \in Line /\ Reading(line) /\ UNCHANGED instanceVars
      BY <1>11 DEF Line, PortDies
    <2>2. FileInv' /\ PlaceInv' /\ PortsInv' /\ MapInv'
      BY <2>1, LineKeeps
    <2>3. phase' = "died" /\ UNCHANGED credentials
      BY <1>11 DEF PortDies
    <2> QED
      BY <2>2, <2>3 DEF ConfigInv, CourseInv
  <1>12. ASSUME NEW section \in Section, NEW name \in Setting, NEW value \in Value,
                Apply(section, name, value)
         PROVE  ConfigInv'
    <2> DEFINE line == [kind |-> "setting", section |-> section, name |-> name,
                        value |-> value]
    <2>1. line \in Line /\ Reading(line)
      BY <1>12 DEF Line, Apply
    <2>2. /\ FileInv' /\ Len(file') = Len(file) + 1 /\ DOMAIN file \subseteq DOMAIN file'
          /\ Len(file) \in Nat /\ UNCHANGED <<contents, starts, source>>
      BY <2>1, LineRead DEF ConfigInv
    <2>3. UNCHANGED <<phase, credentials, used_ports, address_map>>
      BY <1>12 DEF Apply
    <2>4. PlaceInv' /\ CourseInv'
      BY <2>2, <2>3 DEF ConfigInv, PlaceInv, CourseInv
    <2>5. PortsInv'
      <3>1. Cardinality(used_ports) \in Nat
        BY FS_CardinalityType DEF ConfigInv, PortsInv
      <3> QED
        BY <2>2, <2>3, <3>1 DEF ConfigInv, PortsInv
    <2>6. /\ DOMAIN instances' = DOMAIN instances
          /\ \A i \in DOMAIN instances' : instances'[i] \in Instance
      <3>1. \A i \in DOMAIN instances : instances[i] \in Instance
        BY DEF ConfigInv, MapInv
      <3> QED
        BY <1>12, <3>1, ApplyReads, SMTT(30)
    <2>7. MapInv'
      <3>1. Avl!height(address_map) \in Nat
        BY TreeParameters, Avl!TreeIs, Avl!AllReads DEF ConfigInv, MapInv
      <3>2. Avl!height(address_map) <= Len(file')
        BY <2>2, <3>1 DEF ConfigInv, MapInv
      <3> QED
        BY <2>2, <2>3, <2>6, <3>2 DEF ConfigInv, MapInv
    <2> QED
      BY <2>2, <2>4, <2>5, <2>7 DEF ConfigInv
  <1>13. CASE EndOfFile
    <2>1. UNCHANGED <<fileVars, file, credentials, instanceVars>> /\ phase' \in {"started", "died"}
      BY <1>13 DEF EndOfFile
    <2> QED
      BY <2>1 DEF ConfigInv, FileInv, PlaceInv, CourseInv, PortsInv, MapInv
  <1>14. CASE UNCHANGED vars
    BY <1>14 DEF vars, ConfigInv, FileInv, PlaceInv, CourseInv, PortsInv, MapInv
  <1> QED
    BY <1>1, <1>2, <1>3, <1>4, <1>5, <1>6, <1>7, <1>8, <1>9, <1>10, <1>11, <1>12, <1>13,
        <1>14 DEF Next

\* The invariant holds at every start of the program.
LEMMA ConfigAlways == Spec => []ConfigInv
  BY ConfigStarts, ConfigSteps, PTL DEF Spec

\* What is known of the lines read, the ports and the instances is of the
\* right kind; every entry of the tree is an instance and every instance has one.
THEOREM ConfigTypes == Spec => []TypeOK
  <1>1. ConfigInv => TypeOK
    <2> SUFFICES ASSUME ConfigInv PROVE TypeOK
      OBVIOUS
    <2>1. \A k \in DOMAIN file : file[k] \in Line
      BY DEF ConfigInv, FileInv
    <2>2. {e.data : e \in Tree!Entries[address_map]} = DOMAIN instances
      BY SameTrees, Zenon DEF ConfigInv, MapInv
    <2>3. \A k \in DOMAIN instances :
            instances[k].address \in Address /\ instances[k].settings \in [Setting -> Value \cup {Default}]
      BY DEF ConfigInv, MapInv, Instance
    <2> QED
      BY <2>1, <2>2, <2>3 DEF TypeOK, ConfigInv, PlaceInv, CourseInv, PortsInv
  <1> QED
    BY <1>1, ConfigAlways, PTL

------------------------------------------------------------------------------
(* The file is kept, and settings reach the right instances.                 *)

\* No start overwrites an edited file, and none serves from anything else:
\* until the file is found nothing is known, and only an edited file gives
\* credentials.
THEOREM EditedKept == Spec => EditedFileKept
  <1> DEFINE Kept == /\ \A p \in Place : contents[p] = "edited" => contents'[p] = "edited"
                     /\ phase' = "started" => contents[source] = "edited"
  <1>1. ConfigInv /\ [Next]_vars => [Kept]_vars
    <2> SUFFICES ASSUME ConfigInv, Next PROVE Kept
      OBVIOUS
    <2>1. ASSUME NEW p \in Place, Found(p) PROVE Kept
      BY <2>1 DEF Found
    <2>2. CASE CreateSkeleton
      BY <2>2 DEF CreateSkeleton, MayCreate
    <2>3. CASE CannotOpen
      BY <2>3 DEF CannotOpen, fileVars
    <2>4. CASE Edit
      BY <2>4 DEF Edit, ConfigInv, PlaceInv, Place
    <2>5. CASE StartAgain
      BY <2>5 DEF StartAgain
    <2>6. ASSUME NEW name \in {"username", "password"}, Credential(name) PROVE Kept
      BY <2>6 DEF Credential, Reading, fileVars
    <2>7. CASE Unmodified
      BY <2>7 DEF Unmodified, Reading, fileVars
    <2>8. ASSUME NEW port \in Port, NEW a \in Address,
                 \/ PortAgain(port, a) \/ PortReady(port, a)
                 \/ PortSilent(port, a) \/ PortDies(port, a)
          PROVE  Kept
      BY <2>8 DEF PortAgain, PortReady, PortSilent, PortDies, Reading, fileVars
    <2>9. ASSUME NEW section \in Section, NEW name \in Setting, NEW value \in Value,
                 Apply(section, name, value)
          PROVE  Kept
      BY <2>9 DEF Apply, Reading, fileVars
    <2>10. CASE EndOfFile
      BY <2>10 DEF EndOfFile, fileVars, ConfigInv, CourseInv
    <2> QED
      BY <2>1, <2>2, <2>3, <2>4, <2>5, <2>6, <2>7, <2>8, <2>9, <2>10 DEF Next
  <1> QED
    BY <1>1, ConfigAlways, PTL DEF Spec, EditedFileKept

\* No section's name occurs in the endpoint of a camera with another address.
\* Without it a section may change the instance of a camera it does not name.
AddressesApart == \A s \in Section, a \in Address : Occurs(s, a) => s = a

\* An interval from 1 has one length.
LEMMA UpTo == \A m, n \in Nat : 1..m = 1..n => m = n
  <1> SUFFICES ASSUME NEW m \in Nat, NEW n \in Nat, 1..m = 1..n PROVE m = n
    OBVIOUS
  <1>1. m \in 1..m => m <= n
    OBVIOUS
  <1>2. n \in 1..n => n <= m
    OBVIOUS
  <1> QED
    BY <1>1, <1>2

\* A step that neither reads a setting nor loses a line or an instance: a start,
\* which forgets both, or one that may add an instance with the defaults, at the
\* line it reads.
Adds ==
    \/ file' = <<>> /\ instances' = <<>>
    \/ /\ DOMAIN file \subseteq DOMAIN file'
       /\ \A j \in DOMAIN file : file'[j] = file[j]
       /\ \A j \in DOMAIN file' \ DOMAIN file : file'[j].kind # "setting"
       /\ DOMAIN instances \subseteq DOMAIN instances'
       /\ \A i \in DOMAIN instances : instances'[i] = instances[i]
       /\ \A i \in DOMAIN instances' \ DOMAIN instances :
            i = Len(file) + 1 /\ \A s \in Setting : instances'[i].settings[s] = Default

\* A line of a camera's section, for the instance found or for none.
Sets(section, name, value) ==
    LET line == [kind |-> "setting", section |-> section, name |-> name, value |-> value]
    IN  /\ DOMAIN file = 1..Len(file) /\ DOMAIN file' = 1..(Len(file) + 1)
        /\ \A j \in DOMAIN file : file'[j] = file[j]
        /\ file'[Len(file) + 1] = line
        /\ DOMAIN instances' = DOMAIN instances
        /\ \A i \in DOMAIN instances :
            \/ instances'[i] = instances[i]
            \/ /\ instances'[i].address = instances[i].address
               /\ instances[i].address = section
               /\ \A s \in Setting : instances'[i].settings[s] =
                        IF s = name THEN value ELSE instances[i].settings[s]
        /\ (\E i \in DOMAIN instances : instances[i].address = section) =>
                \E i \in DOMAIN instances :
                    instances'[i].address = section /\ instances'[i].settings[name] = value

\* If no section's name occurs in another camera's endpoint, every step is one of the two.
LEMMA EveryStep ==
    ASSUME ConfigInv, [Next]_vars, AddressesApart
    PROVE  \/ Adds
           \/ \E section \in Section, name \in Setting, value \in Value :
                Sets(section, name, value)
  <1> USE DEF fileVars, instanceVars
  <1>1. ASSUME UNCHANGED <<file, instances>> PROVE Adds
    BY <1>1 DEF Adds
  <1>2. ASSUME NEW line \in Line, line.kind # "setting", Reading(line), UNCHANGED instances
        PROVE  Adds
    <2>1. /\ DOMAIN file = 1..Len(file) /\ DOMAIN file' = 1..(Len(file) + 1) /\ Len(file) \in Nat
          /\ \A j \in DOMAIN file : j \in DOMAIN file' /\ file'[j] = file[j]
          /\ file'[Len(file) + 1] = line
      BY <1>2, LineRead DEF ConfigInv
    <2> QED
      BY <1>2, <2>1 DEF Adds
  <1>3. CASE StartAgain
    BY <1>3 DEF StartAgain, Adds
  <1>4. ASSUME NEW name \in {"username", "password"}, Credential(name) PROVE Adds
    <2>1. [kind |-> name] \in Line /\ Reading([kind |-> name]) /\ UNCHANGED instances
      BY <1>4 DEF Line, Credential
    <2> QED
      BY <1>2, <2>1
  <1>5. CASE Unmodified
    <2>1. /\ [kind |-> "unmodified"] \in Line /\ Reading([kind |-> "unmodified"])
          /\ UNCHANGED instances
      BY <1>5 DEF Line, Unmodified
    <2> QED
      BY <1>2, <2>1
  <1>6. ASSUME NEW port \in Port, NEW a \in Address,
               PortAgain(port, a) \/ PortSilent(port, a) \/ PortDies(port, a)
        PROVE  Adds
    <2> DEFINE line == [kind |-> "port", port |-> port, address |-> a]
    <2>1. line \in Line /\ Reading(line) /\ UNCHANGED instances /\ line.kind # "setting"
      BY <1>6 DEF Line, PortAgain, PortSilent, PortDies
    <2> QED
      BY <1>2, <2>1
  <1>7. ASSUME NEW port \in Port, NEW a \in Address, PortReady(port, a) PROVE Adds
    <2> DEFINE line == [kind |-> "port", port |-> port, address |-> a]
    <2>1. line \in Line /\ Reading(line)
      BY <1>7 DEF Line, PortReady
    <2>2. /\ DOMAIN file = 1..Len(file) /\ DOMAIN file' = 1..(Len(file) + 1) /\ Len(file) \in Nat
          /\ \A j \in DOMAIN file : j \in DOMAIN file' /\ file'[j] = file[j]
          /\ file'[Len(file) + 1] = line /\ Len(file') = Len(file) + 1
      BY <2>1, LineRead DEF ConfigInv
    <2>3. /\ DOMAIN instances' = DOMAIN instances \cup {Len(file) + 1}
          /\ \A i \in DOMAIN instances : instances'[i] = instances[i]
          /\ \A i \in DOMAIN instances' \ DOMAIN instances :
                /\ i = Len(file) + 1
                /\ instances'[i] = [address |-> a, settings |-> [s \in Setting |-> Default]]
      BY <1>7, <2>2 DEF PortReady
    <2> QED
      BY <2>2, <2>3 DEF Adds
  <1>8. ASSUME NEW section \in Section, NEW name \in Setting, NEW value \in Value,
               Apply(section, name, value)
        PROVE  Sets(section, name, value)
    <2> DEFINE line == [kind |-> "setting", section |-> section, name |-> name,
                        value |-> value]
    <2>1. line \in Line /\ Reading(line)
      BY <1>8 DEF Line, Apply
    <2>2. /\ DOMAIN file = 1..Len(file) /\ DOMAIN file' = 1..(Len(file) + 1)
          /\ \A j \in DOMAIN file : file'[j] = file[j]
          /\ file'[Len(file) + 1] = line
      BY <2>1, LineRead DEF ConfigInv
    <2>3. \A i \in DOMAIN instances : instances[i].address \in Address
      BY DEF ConfigInv, MapInv, Instance
    <2>4. CASE /\ instances' = instances
               /\ \A i \in DOMAIN instances : ~Occurs(section, instances[i].address)
      <3>1. \A i \in DOMAIN instances : instances[i].address # section
        BY <2>4 DEF Occurs
      <3> QED
        BY <2>2, <2>4, <3>1 DEF Sets
    <2>5. ASSUME NEW found \in DOMAIN instances,
                 /\ Occurs(section, instances[found].address)
                 /\ DOMAIN instances' = DOMAIN instances
                 /\ \A i \in DOMAIN instances \ {found} : instances'[i] = instances[i]
                 /\ instances'[found].address = instances[found].address
                 /\ \A s \in Setting : instances'[found].settings[s] =
                        IF s = name THEN value ELSE instances[found].settings[s]
          PROVE  Sets(section, name, value)
      <3>1. instances[found].address = section
        BY <2>3, <2>5 DEF AddressesApart
      <3>2. instances'[found].address = section /\ instances'[found].settings[name] = value
        BY <2>5, <3>1
      <3> QED
        BY <2>2, <2>5, <3>1, <3>2 DEF Sets
    <2> QED
      BY <1>8, <2>4, <2>5, ApplyReads
  <1> QED
    BY <1>1, <1>3, <1>4, <1>5, <1>6, <1>7, <1>8
        DEF Next, vars, Found, CreateSkeleton, CannotOpen, Edit, EndOfFile

\* If no section's name occurs in another camera's endpoint, an instance has a setting only because a
\* line of its own camera's section says so, for any file and any ports.
THEOREM SettingsApart ==
    ASSUME AddressesApart PROVE Spec => []SettingsStayApart
  <1>1. Init => SettingsStayApart
    BY DEF Init, SettingsStayApart
  <1>2. ConfigInv /\ [Next]_vars /\ SettingsStayApart => SettingsStayApart'
    <2> SUFFICES ASSUME ConfigInv, [Next]_vars, SettingsStayApart PROVE SettingsStayApart'
      OBVIOUS
    <2>1. CASE Adds
      BY <2>1 DEF Adds, SettingsStayApart
    <2>2. ASSUME NEW section \in Section, NEW name \in Setting, NEW value \in Value,
                 Sets(section, name, value)
          PROVE  SettingsStayApart'
      <3> SUFFICES ASSUME NEW k \in DOMAIN instances', NEW s \in Setting,
                          instances'[k].settings[s] # Default
                   PROVE  \E j \in DOMAIN file' :
                            file'[j] = [kind |-> "setting", section |-> instances'[k].address,
                                        name |-> s, value |-> instances'[k].settings[s]]
        BY DEF SettingsStayApart
      <3>1. /\ DOMAIN file = 1..Len(file) /\ DOMAIN file' = 1..(Len(file) + 1)
            /\ \A j \in DOMAIN file : j \in DOMAIN file' /\ file'[j] = file[j]
            /\ Len(file) + 1 \in DOMAIN file'
            /\ file'[Len(file) + 1] = [kind |-> "setting", section |-> section, name |-> name,
                                       value |-> value]
        BY <2>2 DEF Sets, ConfigInv, FileInv
      <3>2. /\ k \in DOMAIN instances
            /\ \/ instances'[k] = instances[k]
               \/ /\ instances'[k].address = instances[k].address
                  /\ instances[k].address = section
                  /\ instances'[k].settings[s] =
                        IF s = name THEN value ELSE instances[k].settings[s]
        BY <2>2 DEF Sets
      <3>3. CASE /\ instances'[k].address = instances[k].address
                 /\ instances'[k].settings[s] = instances[k].settings[s]
        <4>1. PICK j \in DOMAIN file :
                file[j] = [kind |-> "setting", section |-> instances[k].address,
                           name |-> s, value |-> instances[k].settings[s]]
          BY <3>2, <3>3 DEF SettingsStayApart
        <4> QED
          BY <3>1, <3>3, <4>1
      <3>4. CASE instances'[k].address = section /\ s = name /\ instances'[k].settings[s] = value
        BY <3>1, <3>4
      <3> QED
        BY <3>2, <3>3, <3>4
    <2> QED
      BY <2>1, <2>2, EveryStep
  <1> QED
    BY <1>1, <1>2, ConfigAlways, PTL DEF Spec

\* If no section's name occurs in another camera's endpoint, the last line that sets an option of a
\* camera an earlier line made known is in effect: the search finds an instance
\* of it wherever the tree has put it, and no later line undoes the setting.
THEOREM LastWord ==
    ASSUME AddressesApart PROVE Spec => []LastWordCounts
  <1> DEFINE Asks(k) ==
                /\ file[k].kind = "setting"
                /\ \A j \in (k + 1)..Len(file) :
                        file[j].kind = "setting" =>
                            <<file[j].section, file[j].name>> # <<file[k].section, file[k].name>>
                /\ \E i \in DOMAIN instances : i < k /\ instances[i].address = file[k].section
             Answered(k) ==
                \E i \in DOMAIN instances :
                    /\ instances[i].address = file[k].section
                    /\ instances[i].settings[file[k].name] = file[k].value
  <1>1. Init => LastWordCounts
    BY DEF Init, LastWordCounts
  <1>2. ConfigInv /\ [Next]_vars /\ LastWordCounts => LastWordCounts'
    <2> SUFFICES ASSUME ConfigInv, [Next]_vars, LastWordCounts PROVE LastWordCounts'
      OBVIOUS
    <2> SUFFICES ASSUME NEW k \in DOMAIN file', Asks(k)' PROVE Answered(k)'
      BY DEF LastWordCounts
    <2>1. /\ Len(file) \in Nat /\ Len(file') \in Nat
          /\ DOMAIN file = 1..Len(file) /\ DOMAIN file' = 1..Len(file')
          /\ DOMAIN instances \subseteq DOMAIN file
      <3>1. FileInv'
        BY ConfigSteps DEF ConfigInv
      <3> QED
        BY <3>1 DEF ConfigInv, FileInv, MapInv
    <2>2. ASSUME k \in DOMAIN file, \A j \in DOMAIN file : j \in DOMAIN file' /\ file'[j] = file[j],
                 \A i \in DOMAIN instances' :
                    i < k => i \in DOMAIN instances /\ instances'[i].address = instances[i].address
          PROVE  Answered(k)
      <3>1. Asks(k)
        <4>1. \A j \in (k + 1)..Len(file) : j \in (k + 1)..Len(file') /\ file'[j] = file[j]
          BY <2>1, <2>2
        <4>2. file'[k] = file[k]
          BY <2>2
        <4> QED
          BY <2>2, <4>1, <4>2
      <3> QED
        BY <2>2, <3>1 DEF LastWordCounts
    <2>3. CASE Adds
      <3>1. CASE file' = <<>>
        BY <3>1
      <3>2. CASE /\ DOMAIN file \subseteq DOMAIN file'
                 /\ \A j \in DOMAIN file : file'[j] = file[j]
                 /\ \A j \in DOMAIN file' \ DOMAIN file : file'[j].kind # "setting"
                 /\ DOMAIN instances \subseteq DOMAIN instances'
                 /\ \A i \in DOMAIN instances : instances'[i] = instances[i]
                 /\ \A i \in DOMAIN instances' \ DOMAIN instances : i = Len(file) + 1
        <4>1. k \in DOMAIN file
          BY <3>2
        <4>2. \A i \in DOMAIN instances' : i < k => i \in DOMAIN instances
          BY <2>1, <3>2, <4>1
        <4>3. Answered(k)
          BY <2>2, <3>2, <4>1, <4>2
        <4> QED
          BY <3>2, <4>1, <4>3
      <3> QED
        BY <2>3, <3>1, <3>2 DEF Adds
    <2>4. ASSUME NEW section \in Section, NEW name \in Setting, NEW value \in Value,
                 Sets(section, name, value)
          PROVE  Answered(k)'
      <3>1. /\ DOMAIN file' = 1..(Len(file) + 1) /\ Len(file') = Len(file) + 1
            /\ \A j \in DOMAIN file : j \in DOMAIN file' /\ file'[j] = file[j]
            /\ file'[Len(file) + 1] = [kind |-> "setting", section |-> section, name |-> name,
                                       value |-> value]
            /\ DOMAIN instances' = DOMAIN instances
        <4>1. /\ DOMAIN file' = 1..(Len(file) + 1)
              /\ \A j \in DOMAIN file : file'[j] = file[j]
              /\ file'[Len(file) + 1] = [kind |-> "setting", section |-> section,
                                         name |-> name, value |-> value]
              /\ DOMAIN instances' = DOMAIN instances
          BY <2>4, Zenon DEF Sets
        <4>2. Len(file') = Len(file) + 1
          <5> HIDE DEF Asks, Answered
          <5>1. Len(file) + 1 \in Nat /\ Len(file') \in Nat
            BY <2>1
          <5>2. 1..Len(file') = 1..(Len(file) + 1)
            BY <2>1, <4>1
          <5> QED
            BY <5>1, <5>2, UpTo
        <4>3. \A j \in DOMAIN file : j \in DOMAIN file'
          BY <2>1, <4>1
        <4> QED
          BY <4>1, <4>2, <4>3, Zenon
      <3>2. \A i \in DOMAIN instances :
                \/ instances'[i] = instances[i]
                \/ /\ instances'[i].address = instances[i].address
                   /\ instances[i].address = section
                   /\ \A s \in Setting : instances'[i].settings[s] =
                        IF s = name THEN value ELSE instances[i].settings[s]
        BY <2>4 DEF Sets
      <3>3. \A i \in DOMAIN instances : instances'[i].address = instances[i].address
        BY <3>2
      <3>4. CASE k = Len(file) + 1
        <4>1. \E i \in DOMAIN instances : instances[i].address = section
          BY <3>1, <3>3, <3>4
        <4>2. \E i \in DOMAIN instances :
                instances'[i].address = section /\ instances'[i].settings[name] = value
          BY <2>4, <4>1 DEF Sets
        <4> QED
          BY <3>1, <3>4, <4>2
      <3>5. CASE k \in DOMAIN file
        <4>1. Answered(k)
          BY <2>2, <3>1, <3>3, <3>5
        <4>2. PICK i \in DOMAIN instances :
                /\ instances[i].address = file[k].section
                /\ instances[i].settings[file[k].name] = file[k].value
          BY <4>1
        <4>3. file'[k] = file[k] /\ file[k].kind = "setting"
          BY <3>1, <3>5
        <4>4. <<section, name>> # <<file[k].section, file[k].name>>
          <5>1. Len(file) + 1 \in (k + 1)..Len(file')
            BY <2>1, <3>1, <3>5
          <5> QED
            BY <3>1, <4>3, <5>1
        <4>5. file[k].name \in Setting
          <5>1. file[k] \in Line
            BY <3>5 DEF ConfigInv, FileInv
          <5> QED
            BY <4>3, <5>1 DEF Line
        <4>6. instances'[i].settings[file[k].name] = file[k].value
          BY <3>2, <4>2, <4>4, <4>5
        <4> QED
          BY <3>1, <3>3, <4>2, <4>3, <4>6
      <3> QED
        BY <2>1, <3>1, <3>4, <3>5
    <2> QED
      BY <2>3, <2>4, EveryStep
  <1> QED
    BY <1>1, <1>2, ConfigAlways, PTL DEF Spec

==============================================================================
