------------------------- MODULE FavoriteTree_proof -------------------------
(* Proofs about FavoriteTree, for any numbers of groups, rows and failures. *)
EXTENDS FavoriteTree, TLAPS

USE BoundAssumption, ReadAssumption

(* The ids of groups that the tables, the rows and m_Folders hold were given. *)
Given ==
    /\ lastFolder \in Nat
    /\ DOMAIN folder \subseteq 1 .. lastFolder
    /\ \A f \in DOMAIN folder : folder[f].parent \in 0 .. lastFolder
    /\ \A n \in DOMAIN node :
          /\ DOMAIN node[n] = {"type", "id", "parentId", "up"}
          /\ node[n].type = "folder" => node[n].id \in 0 .. lastFolder
    /\ DOMAIN index \subseteq 0 .. lastFolder

(* What a step may do to the groups: take some away, or rename one; add one, *)
(* with an id that none has had; move one, where MoveNode lets it go.        *)
Fewer ==
    /\ DOMAIN folder' \subseteq DOMAIN folder
    /\ \A f \in DOMAIN folder' : folder'[f].parent = folder[f].parent
    /\ lastFolder' = lastFolder

OneMore(parent) ==
    /\ parent \in 0 .. lastFolder
    /\ lastFolder' = lastFolder + 1
    /\ DOMAIN folder' = DOMAIN folder \cup {lastFolder'}
    /\ folder'[lastFolder'].parent = parent
    /\ \A f \in DOMAIN folder : folder'[f].parent = folder[f].parent

Moved(f, parent) ==
    /\ parent \in 0 .. lastFolder
    /\ \E failing \in {0, 1} : DbMoveNode(f, parent, failing)
    /\ lastFolder' = lastFolder

(* Where only statements that write fail, no group is ever below itself:     *)
(* InSubNode looks at the tables when a group is moved, whatever the view    *)
(* showed, and a new group has an id that no group has had for a parent.     *)
THEOREM AcyclicCorrect == ASSUME ReadsFail = FALSE PROVE Spec => []Acyclic
  <1>1. Init => Given /\ Acyclic
    BY DEF Init, Given, Acyclic, Nothing
  (* Every step does one of the three, and gives or forgets ids in order. *)
  <1>3. Given /\ [Next]_vars =>
           /\ Given'
           /\ Fewer \/ (\E p \in 0 .. lastFolder : OneMore(p) \/ \E f : Moved(f, p))
    <2> SUFFICES ASSUME Given, [Next]_vars
                 PROVE  /\ Given'
                        /\ Fewer \/ (\E p \in 0 .. lastFolder : OneMore(p) \/ \E f : Moved(f, p))
      OBVIOUS
    <2> DEFINE Rows == /\ \A n \in DOMAIN node' :
                             /\ DOMAIN node'[n] = {"type", "id", "parentId", "up"}
                             /\ node'[n].type = "folder" => node'[n].id \in 0 .. lastFolder'
                       /\ DOMAIN index' \subseteq 0 .. lastFolder'
               Step == Fewer \/ (\E p \in 0 .. lastFolder : OneMore(p) \/ \E f : Moved(f, p))
    <2>1. ASSUME Rows, Step PROVE Given'
      <3>1. CASE Fewer
        BY <2>1, <3>1 DEF Given, Fewer
      <3>2. CASE \E p \in 0 .. lastFolder : OneMore(p)
        BY <2>1, <3>2 DEF Given, OneMore
      <3>3. CASE \E p \in 0 .. lastFolder : \E f : Moved(f, p)
        BY <2>1, <3>3 DEF Given, Moved, DbMoveNode
      <3> QED  BY <2>1, <3>1, <3>2, <3>3
    <2>2. ASSUME folder' = folder, lastFolder' = lastFolder PROVE Step
      BY <2>2 DEF Fewer
    <2>3. ASSUME NEW F, NEW L, NEW K, Drop(F, L, K), lastFolder' = lastFolder PROVE Step
      BY <2>3 DEF Fewer, Drop, Without
    <2>4. ASSUME NEW name, NEW p \in 0 .. lastFolder, NEW failing, NEW id,
                 DbAddNode(name, p, failing, id)
          PROVE  Step /\ id \in 0 .. lastFolder' /\ lastFolder' \in Nat /\ lastFolder <= lastFolder'
      <3>1. CASE id \in Siblings(name, p) /\ UNCHANGED <<folder, lastFolder>>
        BY <3>1, <2>2 DEF Given, Siblings
      <3>2. CASE id = 0 /\ UNCHANGED <<folder, lastFolder>>
        BY <3>2, <2>2 DEF Given
      <3>3. CASE /\ id = lastFolder + 1 /\ lastFolder' = id
                 /\ folder' = With(folder, id, [name |-> name, parent |-> p])
        <4>1. OneMore(p)
          BY <3>3 DEF Given, OneMore, With
        <4> QED  BY <3>3, <4>1 DEF Given
      <3> QED  BY <2>4, <3>1, <3>2, <3>3 DEF DbAddNode
    <2>5. ASSUME UNCHANGED node \/ (\E n : ClearTree(n)) \/ \E it, p : MoveTree(it, p),
                 DOMAIN index' \subseteq DOMAIN index, lastFolder' \in Nat, lastFolder <= lastFolder'
          PROVE  Rows
      <3>1. DOMAIN index' \subseteq 0 .. lastFolder'
        BY <2>5 DEF Given
      <3>2. CASE UNCHANGED node
        BY <2>5, <3>1, <3>2 DEF Given
      <3>3. ASSUME NEW n, ClearTree(n) PROVE Rows
        BY <2>5, <3>1, <3>3 DEF Given, ClearTree, Without
      <3>4. ASSUME NEW it, NEW p, MoveTree(it, p) PROVE Rows
        <4>1. CASE UNCHANGED node
          BY <3>2, <4>1
        <4>2. ASSUME NEW M, NEW to,
                     node' = [m \in Nodes |-> IF m \in M THEN [node[m] EXCEPT !.up = to] ELSE node[m]]
              PROVE  Rows
          <5>1. ASSUME NEW m \in DOMAIN node
                PROVE  /\ DOMAIN node'[m] = DOMAIN node[m]
                       /\ node'[m].type = node[m].type /\ node'[m].id = node[m].id
            <6>1. DOMAIN node[m] = {"type", "id", "parentId", "up"}
              BY <5>1 DEF Given
            <6>2. CASE m \in M
              BY <4>2, <6>1, <6>2 DEF Nodes
            <6>3. CASE m \notin M
              BY <4>2, <6>3 DEF Nodes
            <6> QED  BY <6>2, <6>3
          <5>2. DOMAIN node' = DOMAIN node
            BY <4>2 DEF Nodes
          <5>3. 0 .. lastFolder \subseteq 0 .. lastFolder'
            BY <2>5 DEF Given
          <5>4. ASSUME NEW m \in DOMAIN node'
                PROVE  /\ DOMAIN node'[m] = {"type", "id", "parentId", "up"}
                       /\ node'[m].type = "folder" => node'[m].id \in 0 .. lastFolder'
            <6>1. /\ DOMAIN node[m] = {"type", "id", "parentId", "up"}
                  /\ node[m].type = "folder" => node[m].id \in 0 .. lastFolder
              BY <5>2, <5>4 DEF Given
            <6> QED  BY <5>1, <5>2, <5>3, <5>4, <6>1, Zenon
          <5> QED  BY <3>1, <5>4
        <4>3. \/ UNCHANGED node
              \/ \E to \in GetTree(p) : \E M :
                     node' = [m \in Nodes |-> IF m \in M THEN [node[m] EXCEPT !.up = to] ELSE node[m]]
          BY <3>4, Zenon DEF MoveTree
        <4> QED  BY <4>1, <4>2, <4>3, Zenon
      <3> QED  BY <2>5, <3>2, <3>3, <3>4
    <2>6. CASE UNCHANGED vars
      BY <2>1, <2>2, <2>5, <2>6 DEF Given, vars, tables, view
    <2>7. ASSUME NEW n, n \in Seen, FetchMore(n) PROVE Given' /\ Step
      <3> DEFINE new == Fetched(ItemId(n))
                 subs == GetSubNodes(ItemId(n))
                 place == CHOOSE p \in Injection(new, Unused) : TRUE
                 known == IF root THEN index ELSE With(index, 0, 0)
      <3>1. UNCHANGED <<folder, lastFolder>>
        BY <2>7 DEF FetchMore, tables
      <3>2. ASSUME NEW c \in new PROVE c.type = "folder" => c.id \in DOMAIN folder
        BY <3>2 DEF Fetched, GetSubNodes
      <3>3. ASSUME NEW m \in DOMAIN node'
            PROVE  /\ DOMAIN node'[m] = {"type", "id", "parentId", "up"}
                   /\ node'[m].type = "folder" => node'[m].id \in 0 .. lastFolder
        <4>1. CASE m \in Nodes
          BY <2>7, <3>3, <4>1 DEF FetchMore, Given, Nodes
        <4>2. ASSUME NEW c \in new, node'[m] = Item(c, n)
              PROVE  /\ DOMAIN node'[m] = {"type", "id", "parentId", "up"}
                     /\ node'[m].type = "folder" => node'[m].id \in 0 .. lastFolder
          BY <3>2, <4>2 DEF Item, FolderItem, LeafItem, Given
        <4>3. CASE m \notin Nodes
          <5> HIDE DEF new, place
          <5>1. place \in Injection(new, Unused)
            BY <2>7 DEF FetchMore, new, place
          <5>2. m \in Range(place) /\ node'[m] = Item(CHOOSE c \in new : place[c] = m, n)
            BY <2>7, <3>3, <4>3 DEF FetchMore, new, place
          <5>3. \E c \in new : place[c] = m
            BY <5>1, <5>2 DEF Injection, Range
          <5> QED  BY <4>2, <5>2, <5>3
        <4> QED  BY <4>1, <4>3
      <3>4. DOMAIN index' \subseteq 0 .. lastFolder
        <4>1. DOMAIN index' = DOMAIN known \cup subs
          BY <2>7 DEF FetchMore
        <4> QED  BY <4>1 DEF Given, With, GetSubNodes
      <3> QED  BY <2>1, <2>2, <3>1, <3>3, <3>4
    <2>8. ASSUME NEW n, n \in Seen, Delete(n) PROVE Given' /\ Step
      <3>1. lastFolder' = lastFolder /\ ClearTree(n)
        BY <2>8 DEF Delete
      <3>2. \E F, L, K : Drop(F, L, K)
        BY <2>8, Zenon DEF Delete, DbDelete, DbDeleteNode
      <3>3. DOMAIN index' \subseteq DOMAIN index
        BY <3>1 DEF ClearTree, Without
      <3> QED  BY <2>1, <2>3, <2>5, <3>1, <3>2, <3>3 DEF Given
    <2>9. ASSUME NEW file, NEW n, AddToFavorite(file, n) PROVE Given' /\ Step
      <3>1. UNCHANGED <<folder, lastFolder, index>>
        BY <2>9 DEF AddToFavorite
      <3>2. UNCHANGED node \/ \E r, id : /\ DOMAIN r = {"type", "id", "parentId", "up"}
                                         /\ r.type = "leaf"
                                         /\ node' = With(node, NewNode, r)
        <4>1. PICK id : IF id = 0 \/ GetTree(Group(n)) = {} THEN UNCHANGED node
                        ELSE \E up \in GetTree(Group(n)) :
                                node' = With(node, NewNode, [type |-> "leaf", id |-> id,
                                                             parentId |-> Group(n), up |-> up])
          BY <2>9, Zenon DEF AddToFavorite
        <4> QED  BY <4>1
      <3>3. Rows
        <4>1. CASE UNCHANGED node
          BY <3>1, <4>1 DEF Given
        <4>2. ASSUME NEW r, DOMAIN r = {"type", "id", "parentId", "up"}, r.type = "leaf",
                     node' = With(node, NewNode, r)
              PROVE  Rows
          BY <3>1, <4>2 DEF Given, With
        <4> QED  BY <3>2, <4>1, <4>2
      <3> QED  BY <2>1, <2>2, <3>1, <3>3
    <2>10. ASSUME NEW file, NEW n, MoveToGroup(file, n) PROVE Given' /\ Step
      BY <2>1, <2>2, <2>5, <2>10 DEF Given, MoveToGroup
    <2>11. ASSUME NEW name, NEW n, NewGroup(name, n) PROVE Given' /\ Step
      <3>1. PICK p, failing, id, up :
               /\ p \in DOMAIN index
               /\ DbAddNode(name, p, failing, id)
               /\ node' = With(node, NewNode, [type |-> "folder", id |-> id,
                                               parentId |-> IF id = 0 THEN 0 ELSE p, up |-> up])
               /\ index' = With(index, id, NewNode)
        BY <2>11, Zenon DEF NewGroup
      <3>2. Step /\ id \in 0 .. lastFolder' /\ lastFolder' \in Nat /\ lastFolder <= lastFolder'
        BY <2>4, <3>1 DEF Given
      <3>3. Rows
        BY <3>1, <3>2 DEF Given, With
      <3> QED  BY <2>1, <3>2, <3>3
    <2>12. ASSUME NEW name, NEW n, Edit(n, name) PROVE Given' /\ Step
      <3>1. UNCHANGED <<lastFolder, node, index>>
        BY <2>12 DEF Edit, view
      <3>2. Fewer
        <4>1. CASE UNCHANGED folder
          BY <3>1, <4>1 DEF Fewer
        <4>2. CASE folder' = [f \in DOMAIN folder |-> IF f = node[n].id
                                 THEN [folder[f] EXCEPT !.name = name] ELSE folder[f]]
          BY <3>1, <4>2 DEF Fewer
        <4> QED  BY <2>12, <4>1, <4>2 DEF Edit
      <3> QED  BY <2>1, <2>5, <3>1, <3>2 DEF Given
    <2>13. ASSUME NEW n, NEW to, to \in Seen, DropOn(n, to) PROVE Given' /\ Step
      <3>1. UNCHANGED <<lastFolder, index>> /\ MoveTree(node[n], ItemId(to))
        BY <2>13 DEF DropOn
      <3>2. ItemId(to) \in 0 .. lastFolder
        BY <2>13 DEF DropOn, ItemId, IsFolder, Seen, Shown, Descendants, Given
      <3>3. Step
        <4>1. CASE UNCHANGED folder
          BY <2>2, <3>1, <4>1
        <4>2. CASE \E failing \in {0, 1} : DbMoveNode(node[n].id, ItemId(to), failing)
          BY <3>1, <3>2, <4>2 DEF Moved
        <4> QED  BY <2>13, <4>1, <4>2 DEF DropOn
      <3> QED  BY <2>1, <2>5, <3>1, <3>3 DEF Given
    <2>16. ASSUME NEW file, NEW name, UpdateFavorite(file, name) PROVE Given' /\ Step
      <3>1. UNCHANGED <<folder, lastFolder, index>>
        BY <2>16 DEF UpdateFavorite
      <3>2. PICK M : node' = [m \in Nodes |-> IF m \in M
                                THEN [node[m] EXCEPT !.parentId = leaf[node[m].id].parent] ELSE node[m]]
        BY <2>16, Zenon DEF UpdateFavorite
      <3>3. ASSUME NEW m \in DOMAIN node'
            PROVE  /\ DOMAIN node'[m] = {"type", "id", "parentId", "up"}
                   /\ node'[m].type = "folder" => node'[m].id \in 0 .. lastFolder
        <4>1. /\ DOMAIN node[m] = {"type", "id", "parentId", "up"}
              /\ node[m].type = "folder" => node[m].id \in 0 .. lastFolder
          BY <3>2, <3>3 DEF Given, Nodes
        <4> QED  BY <3>2, <3>3, <4>1 DEF Nodes
      <3> QED  BY <2>1, <2>2, <3>1, <3>3 DEF Given
    <2>14. CASE Refresh
      <3>1. DOMAIN index' \subseteq DOMAIN index /\ ClearTree(0) /\ UNCHANGED <<folder, lastFolder>>
        BY <2>14 DEF Refresh, ClearTree, Without, tables
      <3> QED  BY <2>1, <2>2, <2>5, <3>1 DEF Given
    <2>15. ASSUME NEW file, NEW name, Import(file, name) PROVE Given' /\ Step
      <3>1. Step /\ lastFolder' \in Nat /\ lastFolder <= lastFolder'
        <4>1. CASE UNCHANGED <<folder, lastFolder>>
          BY <2>2, <4>1 DEF Given
        <4>2. ASSUME NEW one, NEW f, DbAddNode(name, 0, one, f)
              PROVE  Step /\ lastFolder' \in Nat /\ lastFolder <= lastFolder'
          BY <2>4, <4>2 DEF Given
        <4> QED  BY <2>15, <4>1, <4>2, Zenon DEF Import
      <3>2. UNCHANGED <<node, index>> \/ ClearTree(0)
        BY <2>15 DEF Import, view
      <3>3. DOMAIN index' \subseteq DOMAIN index
        BY <3>2 DEF ClearTree, Without
      <3> QED  BY <2>1, <2>5, <3>1, <3>2, <3>3
    <2> QED
      BY <2>6, <2>7, <2>8, <2>9, <2>10, <2>11, <2>12, <2>13, <2>14, <2>15,
         <2>16 DEF Next
  <1>2. Given /\ Acyclic /\ [Next]_vars => Given' /\ Acyclic'
    <2> SUFFICES ASSUME Given, Acyclic, [Next]_vars,
                        NEW S \in SUBSET DOMAIN folder', S # {},
                        \A f \in S : folder'[f].parent \in S
                 PROVE  FALSE
      BY <1>3 DEF Acyclic
    <2>1. \A T \in SUBSET DOMAIN folder : T # {} => \E f \in T : folder[f].parent \notin T
      BY DEF Acyclic
    <2>2. CASE Fewer
      BY <2>1, <2>2 DEF Fewer
    <2>3. ASSUME NEW p \in 0 .. lastFolder, OneMore(p) PROVE FALSE
      <3> DEFINE T == S \ {lastFolder'}
      <3>1. /\ T \in SUBSET DOMAIN folder
            /\ \A f \in T : folder[f].parent = folder'[f].parent /\ folder[f].parent # lastFolder'
        BY <2>3 DEF OneMore, Given
      <3>2. \A f \in T : folder[f].parent \in T
        BY <3>1
      <3>3. T # {}
        <4>1. CASE lastFolder' \in S
          BY <2>3, <4>1 DEF OneMore, Given
        <4>2. CASE lastFolder' \notin S
          BY <4>2
        <4> QED  BY <4>1, <4>2
      <3> QED  BY <2>1, <3>1, <3>2, <3>3
    <2>4. ASSUME NEW p \in 0 .. lastFolder, NEW n, Moved(n, p) PROVE FALSE
      (* What is left of S above and beside n is closed under parents too. *)
      <3> DEFINE T == S \ ({n} \cup Below(n))
      <3>1. /\ DOMAIN folder' = DOMAIN folder
            /\ \A f \in DOMAIN folder : f # n => folder'[f].parent = folder[f].parent
            /\ n \in DOMAIN folder => folder'[n].parent = p
            /\ p # n /\ p \notin Below(n)
        BY <2>4 DEF Moved, DbMoveNode
      <3>2. \A f \in DOMAIN folder :
               folder[f].parent \in {n} \cup Below(n) => f \in Below(n)
        BY DEF Below, Descendants
      <3>3. T \in SUBSET DOMAIN folder /\ \A f \in T : folder[f].parent \in T
        BY <3>1, <3>2
      <3>4. T # {}
        <4>1. CASE n \in S
          BY <3>1, <4>1
        <4>2. CASE n \notin S
          <5>1. PICK f \in S : folder[f].parent \notin S
            BY <2>1, <3>1
          <5> QED  BY <3>1, <4>2, <5>1
        <4> QED  BY <4>1, <4>2
      <3> QED  BY <2>1, <3>3, <3>4
    <2> QED  BY <1>3, <2>2, <2>3, <2>4
  <1> QED  BY <1>1, <1>2, PTL DEF Spec

(* Where only statements that write fail, every favorite keeps a leaf:        *)
(* deleting leaves with the keys they are the last of, and more, leaves every *)
(* other key one; so does what else a step may do to the two tables.          *)
THEOREM KeysShown == ASSUME ReadsFail = FALSE PROVE Spec => []KeyHasLeaf
  <1> DEFINE Inv == /\ lastLeaf \in Nat /\ DOMAIN leaf \subseteq 1 .. lastLeaf
                    /\ KeyHasLeaf
             Kept == /\ lastLeaf' = lastLeaf /\ DOMAIN leaf' = DOMAIN leaf
                     /\ \A l \in DOMAIN leaf : leaf'[l].key = leaf[l].key
                     /\ DOMAIN favorite' \subseteq DOMAIN favorite
  <1>1. Init => Inv
    BY DEF Init, Nothing, KeyHasLeaf
  <1>2. Inv /\ [Next]_vars => Inv'
    <2> SUFFICES ASSUME Inv, [Next]_vars PROVE Inv'
      OBVIOUS
    <2>1. ASSUME Kept PROVE Inv'
      BY <2>1 DEF KeyHasLeaf, Leaves
    <2>2. ASSUME NEW F, NEW L \in SUBSET DOMAIN leaf, NEW K, Drop(F, L, K), LastKeys(L) \subseteq K,
                 lastLeaf' = lastLeaf
          PROVE  Inv'
      <3>1. /\ leaf' = [l \in DOMAIN leaf \ L |-> leaf[l]]
            /\ DOMAIN favorite' = DOMAIN favorite \ K
        BY <2>2 DEF Drop, Without
      <3>2. ASSUME NEW k \in DOMAIN favorite \ K PROVE \E l \in DOMAIN leaf \ L : leaf[l].key = k
        <4>1. PICK l \in DOMAIN leaf : leaf[l].key = k
          BY <3>2 DEF KeyHasLeaf, Leaves
        <4>2. CASE l \in L
          <5>1. ~(Leaves(k) \subseteq L)
            BY <2>2, <3>2, <4>1, <4>2 DEF LastKeys
          <5> QED  BY <5>1 DEF Leaves
        <4> QED  BY <4>1, <4>2
      <3> QED  BY <2>2, <3>1, <3>2 DEF KeyHasLeaf, Leaves
    <2>3. ASSUME NEW file, NEW p, NEW failing, NEW id, DbAddFavorite(file, p, failing, id)
          PROVE  Inv'
      <3>1. CASE UNCHANGED <<leaf, favorite, lastLeaf, lastKey>>
        BY <2>1, <3>1
      <3>2. ASSUME NEW k,
                   \/ k \in Keys(file) /\ UNCHANGED <<favorite, lastKey>>
                   \/ favorite' = With(favorite, k, [file |-> file, name |-> "given"]),
                   \/ /\ id \in {l \in Leaves(k) : leaf[l].parent = p}
                      /\ UNCHANGED <<leaf, lastLeaf>>
                   \/ /\ id = lastLeaf + 1 /\ lastLeaf' = id
                      /\ leaf' = With(leaf, id, [key |-> k, parent |-> p])
            PROVE  Inv'
        <4>1. DOMAIN favorite' \subseteq DOMAIN favorite \cup {k}
          BY <3>2 DEF With
        <4>2. /\ DOMAIN leaf \subseteq DOMAIN leaf' /\ \E l \in DOMAIN leaf' : leaf'[l].key = k
              /\ \A l \in DOMAIN leaf : leaf'[l].key = leaf[l].key
              /\ lastLeaf' \in Nat /\ DOMAIN leaf' \subseteq 1 .. lastLeaf'
          BY <3>2 DEF With, Leaves
        <4> QED  BY <4>1, <4>2 DEF KeyHasLeaf, Leaves
      <3> QED  BY <2>3, <3>1, <3>2, Zenon DEF DbAddFavorite
    <2>4. ASSUME NEW l, NEW p, DbMove(l, p), UNCHANGED <<favorite, lastLeaf>> PROVE Inv'
      <3>1. ASSUME NEW m \in DOMAIN leaf PROVE leaf'[m].key = leaf[m].key
        BY <2>4, <3>1 DEF DbMove
      <3> QED  BY <2>1, <2>4, <3>1 DEF DbMove
    <2>5. ASSUME NEW n, Delete(n) PROVE Inv'
      <3>1. lastLeaf' = lastLeaf
        BY <2>5 DEF Delete
      <3>2. ASSUME NEW l, NEW failing, DbDelete(l, failing) PROVE Inv'
        <4>1. LastKeys({}) = {}
          BY DEF LastKeys
        <4> QED  BY <2>2, <3>1, <3>2, <4>1 DEF DbDelete
      <3>3. ASSUME NEW f, NEW failing, DbDeleteNode(f, failing) PROVE Inv'
        <4>1. \A F : In(F) \in SUBSET DOMAIN leaf
          BY DEF In
        <4>2. ASSUME NEW L \in SUBSET DOMAIN leaf, NEW M PROVE LastKeys(L) \subseteq LastKeys(L \cup M)
          BY DEF LastKeys
        <4>3. CASE \E F : Drop(F, In(F), LastKeys(In(F)))
          BY <2>2, <3>1, <4>1, <4>3
        <4>4. ASSUME NEW F, NEW at, NEW L \in SUBSET In({at}), NEW M,
                     Drop(F, In(F) \cup L, LastKeys(In(F) \cup L \cup M))
              PROVE  Inv'
          <5>1. In(F) \cup L \in SUBSET DOMAIN leaf
            BY <4>1
          <5>2. LastKeys(In(F) \cup L) \subseteq LastKeys(In(F) \cup L \cup M)
            BY <4>2, <5>1
          <5> QED  BY <2>2, <3>1, <4>4, <5>1, <5>2
        <4> QED  BY <3>3, <4>3, <4>4, Zenon DEF DbDeleteNode
      <3> QED  BY <2>5, <3>2, <3>3, Zenon DEF Delete
    <2>6. CASE UNCHANGED vars \/ Refresh \/ \E n \in Seen : FetchMore(n) \/ \E name : NewGroup(name, n)
      BY <2>1, <2>6 DEF vars, tables, Refresh, FetchMore, NewGroup
    <2>7. ASSUME NEW n, NEW name, Edit(n, name) PROVE Inv'
      BY <2>1, <2>7 DEF Edit
    <2>11. ASSUME NEW file, NEW name, UpdateFavorite(file, name) PROVE Inv'
      BY <2>1, <2>11 DEF UpdateFavorite
    <2>8. ASSUME NEW n, NEW to, DropOn(n, to) PROVE Inv'
      BY <2>1, <2>4, <2>8 DEF DropOn
    <2>9. ASSUME NEW n, NEW file, AddToFavorite(file, n) \/ MoveToGroup(file, n) PROVE Inv'
      BY <2>1, <2>3, <2>4, <2>9 DEF AddToFavorite, MoveToGroup
    <2>10. ASSUME NEW file, NEW name, Import(file, name) PROVE Inv'
      BY <2>3, <2>10 DEF Import
    <2> QED  BY <2>5, <2>6, <2>7, <2>8, <2>9, <2>10, <2>11 DEF Next
  <1> QED  BY <1>1, <1>2, PTL DEF Spec

(* OnDeleteKey asks whether the key has another leaf before it deletes it, so *)
(* a favorite is deleted only with the last of its rows, at whatever          *)
(* statement, one that reads or one that writes, the deletion of a group      *)
(* fails.                                                                     *)
THEOREM OthersKept == Spec => KeepsOthers
  <1>1. ASSUME NEW k \in DOMAIN favorite \ DOMAIN favorite', NEW n \in Nodes, Delete(n)
        PROVE  Leaves(k) \subseteq Doomed(n)
    <2>1. ASSUME NEW F, NEW L, NEW K, NEW M, Drop(F, L, K), K \subseteq LastKeys(M),
                 M \subseteq Doomed(n)
          PROVE  Leaves(k) \subseteq Doomed(n)
      BY <2>1 DEF Drop, Without, LastKeys
    <2>2. CASE ~IsFolder(n)
      <3> DEFINE L == {node[n].id} \cap DOMAIN leaf
      <3>1. \E F, G, K : Drop(F, G, K) /\ K \subseteq LastKeys(L)
        BY <1>1, <2>2 DEF Delete, DbDelete
      <3>2. L \subseteq Doomed(n)
        BY <2>2 DEF Doomed
      <3> QED  BY <2>1, <3>1, <3>2
    <2>3. CASE IsFolder(n)
      <3> DEFINE all == {node[n].id} \cup Below(node[n].id)
      <3>1. Doomed(n) = In(all)
        BY <2>3 DEF Doomed
      <3>2. CASE Drop(all, In(all), LastKeys(In(all)))
        BY <2>1, <3>1, <3>2
      <3>3. ASSUME NEW at \in all, NEW F \in SUBSET (all \ {at}), NEW L \in SUBSET In({at}),
                   NEW l \in {{}} \cup {{m} : m \in In({at})},
                   Drop(F, In(F) \cup L, LastKeys(In(F) \cup L \cup l))
            PROVE  Leaves(k) \subseteq Doomed(n)
        <4>1. In(F) \cup L \cup l \subseteq In(all)
          BY DEF In
        <4> QED  BY <2>1, <3>1, <3>3, <4>1, SMTT(30)
      <3>4. ASSUME NEW seen \in SUBSET all, Drop(seen, In(seen), LastKeys(In(seen)))
            PROVE  Leaves(k) \subseteq Doomed(n)
        <4>1. In(seen) \subseteq In(all)
          BY DEF In
        <4> QED  BY <2>1, <3>1, <3>4, <4>1
      <3>5. ASSUME NEW kept, Drop(all, In(all), LastKeys(In(all)) \ kept)
            PROVE  Leaves(k) \subseteq Doomed(n)
        <4> DEFINE M == In(all)
                   K == LastKeys(M) \ kept
        <4>1. K \subseteq LastKeys(M) /\ M \subseteq Doomed(n) /\ Drop(all, M, K)
          BY <3>1, <3>5
        <4> HIDE DEF M, K
        <4> QED  BY <2>1, <4>1, Zenon
      <3>6. ASSUME NEW at \in all
            PROVE  Passed(all, at) \subseteq SUBSET (all \ {at}) /\ all \ Below(at) \in SUBSET all
        BY DEF Passed
      <3>7. PICK failing \in {0, 1} : DbDeleteNode(node[n].id, failing)
        BY <1>1, <2>3, Zenon DEF Delete
      <3>8. CASE \E at \in all : \E F \in Passed(all, at), L \in SUBSET In({at}) :
                    \E l \in {{}} \cup {{m} : m \in In({at})} :
                       Drop(F, In(F) \cup L, LastKeys(In(F) \cup L \cup l))
        <4> HIDE DEF all
        <4> QED  BY <3>3, <3>6, <3>8
      <3>9. CASE \E at \in all : LET seen == all \ Below(at)
                                IN  Drop(seen, In(seen), LastKeys(In(seen)))
        <4> HIDE DEF all
        <4> QED  BY <3>4, <3>6, <3>9
      <3> QED  BY <3>2, <3>5, <3>7, <3>8, <3>9, Zenon DEF DbDeleteNode
    <2> QED  BY <2>2, <2>3
  <1>2. \A k \in DOMAIN favorite \ DOMAIN favorite', n \in Nodes :
           Delete(n) => Leaves(k) \subseteq Doomed(n)
    BY <1>1
  <1> QED  BY <1>2, PTL DEF KeepsOthers

(* The tables, the rows and m_Folders fit together: a row hangs from the root *)
(* or from a row that is there, shows ids the tables have given, and          *)
(* m_Folders points to rows that are there, however the tables were changed   *)
(* under the view and whatever statement fails.                               *)
THEOREM TreeTyped == Spec => [](TypeOK /\ FolderNodesLive)
  <1> DEFINE Folders == lastFolder \in 0 .. MaxFolders
             FolderTable == /\ DOMAIN folder \subseteq 1 .. lastFolder
                            /\ \A f \in DOMAIN folder :
                                  folder[f] \in [name : Names, parent : 0 .. lastFolder]
             LeafTables ==
                /\ lastLeaf \in 0 .. MaxLeaves /\ lastKey \in 0 .. MaxKeys
                /\ DOMAIN leaf \subseteq 1 .. lastLeaf
                /\ \A l \in DOMAIN leaf : leaf[l] \in [key : 1 .. lastKey, parent : 0 .. lastFolder]
                /\ DOMAIN favorite \subseteq 1 .. lastKey
                /\ \A k \in DOMAIN favorite : favorite[k] \in [file : Files, name : Titles]
             Row(r) ==
                \/ r \in [type : {"folder"}, id : 0 .. lastFolder, parentId : 0 .. lastFolder,
                          up : {0} \cup DOMAIN node]
                \/ r \in [type : {"leaf"}, id : 0 .. lastLeaf, parentId : 0 .. lastFolder,
                          up : {0} \cup DOMAIN node]
             Rows == DOMAIN node \subseteq 1 .. MaxNodes /\ \A n \in DOMAIN node : Row(node[n])
             Index == /\ DOMAIN index \subseteq 0 .. lastFolder
                      /\ \A f \in DOMAIN index :
                            IF index[f] = 0 THEN root /\ f = 0
                            ELSE /\ index[f] \in DOMAIN node
                                 /\ node[index[f]].type = "folder" /\ node[index[f]].id = f
             Inv == /\ Folders /\ FolderTable /\ LeafTables /\ Rows /\ Index
                    /\ root \in BOOLEAN /\ faults \in 0 .. MaxFaults
  <1>1. Inv => TypeOK /\ FolderNodesLive
    BY DEF TypeOK, FolderNodesLive, Nodes
  <1>2. Init => Inv
    BY DEF Init, Nothing
  <1>3. Inv /\ [Next]_vars => Inv'
    <2> SUFFICES ASSUME Inv, [Next]_vars PROVE Inv'
      OBVIOUS
    (* The tables. *)
    <2>1. ASSUME NEW name \in Names, NEW p \in 0 .. lastFolder, NEW failing, NEW id,
                 DbAddNode(name, p, failing, id)
          PROVE  Folders' /\ FolderTable' /\ lastFolder <= lastFolder' /\ id \in 0 .. lastFolder'
      <3>1. CASE id \in Siblings(name, p) /\ UNCHANGED <<folder, lastFolder>>
        BY <3>1 DEF Siblings
      <3>2. CASE id = 0 /\ UNCHANGED <<folder, lastFolder>>
        BY <3>2
      <3>3. CASE /\ id = lastFolder + 1 /\ id <= MaxFolders /\ lastFolder' = id
                 /\ folder' = With(folder, id, [name |-> name, parent |-> p])
        BY <3>3 DEF With
      <3> QED  BY <2>1, <3>1, <3>2, <3>3 DEF DbAddNode
    <2>2. ASSUME NEW f, NEW p \in 0 .. lastFolder, NEW failing, DbMoveNode(f, p, failing),
                 UNCHANGED lastFolder
          PROVE  FolderTable'
      BY <2>2 DEF DbMoveNode
    <2>3. ASSUME NEW l, NEW p \in 0 .. lastFolder, DbMove(l, p),
                 UNCHANGED <<lastFolder, lastLeaf, lastKey, favorite>>
          PROVE  LeafTables'
      BY <2>3 DEF DbMove
    <2>4. ASSUME LeafTables, UNCHANGED <<leaf, favorite, lastLeaf, lastKey>>,
                 lastFolder \in Nat, lastFolder' \in Nat, lastFolder <= lastFolder'
          PROVE  LeafTables'
      BY <2>4
    <2>5. ASSUME NEW file \in Files, NEW p \in 0 .. lastFolder', NEW failing, NEW id,
                 lastFolder' \in Nat, lastFolder <= lastFolder',
                 DbAddFavorite(file, p, failing, id)
          PROVE  LeafTables' /\ lastLeaf <= lastLeaf' /\ id \in 0 .. lastLeaf'
      <3>1. CASE id = 0 /\ UNCHANGED <<leaf, favorite, lastLeaf, lastKey>>
        BY <2>4, <2>5, <3>1
      <3>2. ASSUME NEW k \in 1 .. MaxKeys,
                   \/ k \in Keys(file) /\ UNCHANGED <<favorite, lastKey>>
                   \/ /\ k = lastKey + 1 /\ lastKey' = k
                      /\ favorite' = With(favorite, k, [file |-> file, name |-> "given"]),
                   \/ /\ id \in {l \in Leaves(k) : leaf[l].parent = p}
                      /\ UNCHANGED <<leaf, lastLeaf>>
                   \/ /\ id = lastLeaf + 1 /\ id <= MaxLeaves /\ lastLeaf' = id
                      /\ leaf' = With(leaf, id, [key |-> k, parent |-> p])
            PROVE  LeafTables' /\ lastLeaf <= lastLeaf' /\ id \in 0 .. lastLeaf'
        <4>1. /\ lastKey' \in 0 .. MaxKeys /\ lastKey <= lastKey' /\ k \in 1 .. lastKey'
              /\ DOMAIN favorite' \subseteq 1 .. lastKey'
              /\ \A j \in DOMAIN favorite' : favorite'[j] \in [file : Files, name : Titles]
          BY <3>2 DEF With, Keys, Titles
        <4>2. CASE UNCHANGED <<leaf, lastLeaf>> /\ id \in DOMAIN leaf
          BY <2>5, <4>1, <4>2
        <4>3. CASE /\ id = lastLeaf + 1 /\ id <= MaxLeaves /\ lastLeaf' = id
                   /\ leaf' = With(leaf, id, [key |-> k, parent |-> p])
          <5>1. DOMAIN leaf' \subseteq 1 .. lastLeaf' /\ lastLeaf' \in 0 .. MaxLeaves
            BY <4>3 DEF With
          <5>2. ASSUME NEW l \in DOMAIN leaf'
                PROVE  leaf'[l] \in [key : 1 .. lastKey', parent : 0 .. lastFolder']
            BY <2>5, <4>1, <4>3, <5>2 DEF With
          <5> QED  BY <4>1, <4>3, <5>1, <5>2
        <4> QED  BY <3>2, <4>2, <4>3 DEF Leaves
      <3> QED  BY <2>5, <3>1, <3>2, Zenon DEF DbAddFavorite
    <2>6. ASSUME NEW F, NEW L, NEW K, Drop(F, L, K), UNCHANGED <<lastFolder, lastLeaf, lastKey>>
          PROVE  FolderTable' /\ LeafTables'
      BY <2>6 DEF Drop, Without
    (* The view. *)
    <2>7. /\ \A f : GetTree(f) \subseteq {0} \cup Nodes
          /\ Seen \subseteq {0} \cup Nodes
          /\ \A n \in {0} \cup Nodes : IsFolder(n) => ItemId(n) \in 0 .. lastFolder
          /\ \A m \in Nodes : /\ node[m].up \in {0} \cup Nodes /\ node[m].type \in {"folder", "leaf"}
                              /\ node[m].type = "folder" => node[m].id \in 0 .. lastFolder
                              /\ node[m].type = "leaf" => node[m].id \in 0 .. lastLeaf
      BY DEF GetTree, Seen, Shown, Descendants, IsFolder, ItemId, Nodes
    <2>8. ASSUME NEW n, ClearTree(n), root' = (root /\ n # 0), lastFolder' \in Nat, lastFolder <= lastFolder',
                 lastLeaf' \in Nat, lastLeaf <= lastLeaf'
          PROVE  Rows' /\ Index'
      <3> DEFINE gone == {n} \cup Shown(n)
      <3>1. /\ DOMAIN node' = Nodes \ gone /\ \A m \in Nodes \ gone : node'[m] = node[m]
            /\ \A f \in DOMAIN index' : f \in DOMAIN index /\ index'[f] = index[f]
            /\ DOMAIN index' = DOMAIN index \ {ItemId(m) : m \in {x \in gone : IsFolder(x)}}
        BY <2>8 DEF ClearTree, Without, Nodes
      <3>2. ASSUME NEW m \in Nodes \ gone PROVE node[m].up \notin gone
        <4> DEFINE up == [k \in DOMAIN node |-> node[k].up]
                   closed == {S \in SUBSET DOMAIN up :
                                \A z \in DOMAIN up : up[z] = n \/ up[z] \in S => z \in S}
        <4>1. Shown(n) = {y \in DOMAIN up : \A S \in closed : y \in S}
          BY DEF Shown, Descendants
        <4>2. PICK S \in closed : m \notin S
          BY <3>2, <4>1 DEF Nodes
        <4>3. up[m] # n /\ up[m] \notin S /\ up[m] = node[m].up
          BY <3>2, <4>2 DEF Nodes
        <4> QED  BY <4>1, <4>2, <4>3
      <3>3. Rows'
        <4> SUFFICES ASSUME NEW m \in Nodes \ gone PROVE Row(node[m])'
          BY <3>1 DEF Nodes
        <4>1. Row(node[m]) /\ node'[m] = node[m] /\ node[m].up \in {0} \cup DOMAIN node'
          BY <2>7, <3>1, <3>2 DEF Nodes
        <4> QED  BY <2>8, <4>1
      <3>4. ASSUME NEW f \in DOMAIN index'
            PROVE  IF index'[f] = 0 THEN root' /\ f = 0
                   ELSE /\ index'[f] \in DOMAIN node'
                        /\ node'[index'[f]].type = "folder" /\ node'[index'[f]].id = f
        <4>1. f \in DOMAIN index /\ index'[f] = index[f]
          BY <3>1
        <4>2. CASE index[f] = 0
          <5>1. root /\ f = 0 /\ IsFolder(0) /\ ItemId(0) = 0
            BY <4>1, <4>2 DEF IsFolder, ItemId
          <5>2. 0 \notin gone
            BY <3>1, <5>1
          <5> QED  BY <2>8, <4>1, <4>2, <5>1, <5>2
        <4>3. CASE index[f] # 0
          <5>1. /\ index[f] \in Nodes /\ node[index[f]].type = "folder" /\ node[index[f]].id = f
                /\ IsFolder(index[f]) /\ ItemId(index[f]) = f
            BY <4>1, <4>3 DEF IsFolder, ItemId, Nodes
          <5>2. index[f] \notin gone
            BY <3>1, <5>1
          <5> QED  BY <3>1, <4>1, <4>3, <5>1, <5>2
        <4> QED  BY <4>2, <4>3
      <3> QED  BY <2>8, <3>1, <3>3, <3>4
    <2>9. ASSUME UNCHANGED <<root, index>>, lastFolder' \in Nat, lastFolder <= lastFolder',
                 lastLeaf' \in Nat, lastLeaf <= lastLeaf',
                 UNCHANGED node \/ \E it, p : MoveTree(it, p)
          PROVE  Rows' /\ Index'
      <3>1. CASE UNCHANGED node
        BY <2>9, <3>1
      <3>2. ASSUME NEW M, NEW to \in {0} \cup Nodes,
                   node' = [m \in Nodes |-> IF m \in M THEN [node[m] EXCEPT !.up = to] ELSE node[m]]
            PROVE  Rows' /\ Index'
        <4>1. DOMAIN node' = DOMAIN node
          BY <3>2 DEF Nodes
        <4>2. ASSUME NEW m \in DOMAIN node
              PROVE  Row(node[m])' /\ node'[m].type = node[m].type /\ node'[m].id = node[m].id
          <5>1. node'[m] = IF m \in M THEN [node[m] EXCEPT !.up = to] ELSE node[m]
            BY <3>2 DEF Nodes
          <5>2. CASE node[m] \in [type : {"folder"}, id : 0 .. lastFolder, parentId : 0 .. lastFolder,
                                  up : {0} \cup DOMAIN node]
            BY <2>9, <3>2, <4>1, <5>1, <5>2 DEF Nodes
          <5>3. CASE node[m] \in [type : {"leaf"}, id : 0 .. lastLeaf, parentId : 0 .. lastFolder,
                                  up : {0} \cup DOMAIN node]
            BY <2>9, <3>2, <4>1, <5>1, <5>3 DEF Nodes
          <5> QED  BY <5>2, <5>3
        <4> QED  BY <2>9, <4>1, <4>2
      <3>3. ASSUME NEW it, NEW p, MoveTree(it, p) PROVE Rows' /\ Index'
        <4> DEFINE moved == {m \in Nodes : /\ node[m].up \in GetTree(it.parentId)
                                           /\ node[m].id = it.id /\ node[m].type = it.type}
        <4>1. \/ UNCHANGED node
              \/ \E to \in GetTree(p) :
                   node' = [m \in Nodes |-> IF m \in moved THEN [node[m] EXCEPT !.up = to] ELSE node[m]]
          BY ONLY <3>3, Zenon DEF MoveTree
        <4>2. GetTree(p) \subseteq {0} \cup Nodes
          BY <2>7
        <4> HIDE DEF moved
        <4>3. ASSUME NEW to \in GetTree(p),
                     node' = [m \in Nodes |-> IF m \in moved THEN [node[m] EXCEPT !.up = to] ELSE node[m]]
              PROVE  Rows' /\ Index'
          <5>1. to \in {0} \cup Nodes
            BY <4>2
          <5> HIDE DEF Rows, Index
          <5> QED  BY <3>2, <4>3, <5>1, Zenon
        <4> QED  BY <3>1, <4>1, <4>3
      <3> QED  BY <2>9, <3>1, <3>3
    <2>10. ASSUME NEW n, n \in Seen, FetchMore(n) PROVE Inv'
      <3> DEFINE new == Fetched(ItemId(n))
                 subs == GetSubNodes(ItemId(n))
                 place == CHOOSE p \in Injection(new, Unused) : TRUE
                 known == IF root THEN index ELSE With(index, 0, 0)
      <3>1. /\ UNCHANGED <<tables, faults>> /\ root' = TRUE
            /\ DOMAIN node' = Nodes \cup Range(place)
            /\ DOMAIN index' = DOMAIN known \cup subs
            /\ n \in {0} \cup Nodes
        BY <2>7, <2>10 DEF FetchMore
      <3>2. /\ subs \subseteq DOMAIN folder
            /\ \A c \in new : \/ c.type = "folder" /\ c.id \in DOMAIN folder
                              \/ c.type = "leaf" /\ c.id \in DOMAIN leaf
            /\ \A g \in subs : [type |-> "folder", id |-> g] \in new
        BY DEF Fetched, GetSubNodes, In
      <3>3. place \in Injection(new, Unused)
        BY <2>10 DEF FetchMore
      <3>4. /\ \A m \in Nodes : node'[m] = node[m]
            /\ \A m \in Range(place) : node'[m] = Item(CHOOSE c \in new : place[c] = m, n)
        <4>1. node' = [m \in Nodes \cup Range(place) |->
                         IF m \in Nodes THEN node[m] ELSE Item(CHOOSE c \in new : place[c] = m, n)]
          BY ONLY <2>10, Zenon DEF FetchMore
        <4>2. \A m \in Range(place) : m \notin Nodes
          BY <3>3 DEF Injection, Unused, Range
        <4> HIDE DEF new, place
        <4> QED  BY <4>1, <4>2
      <3>5. \A f \in DOMAIN index' :
               index'[f] = IF f \in subs THEN place[[type |-> "folder", id |-> f]] ELSE known[f]
        BY <2>10 DEF FetchMore
      <3> HIDE DEF new, subs, place
      <3>6. /\ Range(place) \subseteq Unused /\ \A c \in new : place[c] \in Range(place)
            /\ \A c \in new : node'[place[c]] = Item(c, n)
            /\ \A m \in Range(place) : \E c \in new : place[c] = m
        <4>1. /\ DOMAIN place = new /\ \A c \in new : place[c] \in Unused
              /\ \A c, d \in new : place[c] = place[d] => c = d
          BY <3>3 DEF Injection, IsInjective
        <4>2. Range(place) \subseteq Unused /\ \A c \in new : place[c] \in Range(place)
          BY <4>1 DEF Range
        <4>3. \A m \in Range(place) : \E c \in new : place[c] = m
          BY <4>1 DEF Range
        <4>4. ASSUME NEW c \in new PROVE node'[place[c]] = Item(c, n)
          <5>1. (CHOOSE d \in new : place[d] = place[c]) = c
            BY <4>1, <4>4
          <5>2. node'[place[c]] = Item(CHOOSE d \in new : place[d] = place[c], n)
            BY <3>4, <4>2, <4>4
          <5> QED  BY <5>1, <5>2
        <4> QED  BY <4>2, <4>3, <4>4
      <3>7. ASSUME NEW m \in DOMAIN node' PROVE Row(node[m])'
        <4>1. CASE m \in Nodes
          BY <3>1, <3>4, <4>1 DEF Nodes, tables
        <4>2. ASSUME NEW c \in new, node'[m] = Item(c, n) PROVE Row(node[m])'
          <5>1. CASE c.type = "folder" /\ c.id \in DOMAIN folder
            BY <3>1, <4>2, <5>1 DEF Item, FolderItem, Nodes, tables
          <5>2. CASE c.type = "leaf" /\ c.id \in DOMAIN leaf
            BY <3>1, <4>2, <5>2 DEF Item, LeafItem, Nodes, tables
          <5> QED  BY <3>2, <5>1, <5>2
        <4> QED  BY <3>1, <3>6, <4>1, <4>2
      <3>8. ASSUME NEW f \in DOMAIN index'
            PROVE  /\ f \in 0 .. lastFolder
                   /\ IF index'[f] = 0 THEN root' /\ f = 0
                      ELSE /\ index'[f] \in DOMAIN node'
                           /\ node'[index'[f]].type = "folder" /\ node'[index'[f]].id = f
        <4>1. CASE f \in subs
          <5> DEFINE c == [type |-> "folder", id |-> f]
          <5>1. c \in new /\ index'[f] = place[c] /\ f \in DOMAIN folder
            BY <3>2, <3>5, <4>1
          <5>2. index'[f] \in DOMAIN node' /\ index'[f] # 0 /\ node'[index'[f]] = Item(c, n)
            BY <3>1, <3>6, <5>1 DEF Unused
          <5> QED  BY <5>1, <5>2 DEF Item, FolderItem
        <4>2. CASE f \notin subs
          <5>1. index'[f] = known[f] /\ f \in DOMAIN known
            BY <3>1, <3>5, <4>2
          <5>2. CASE f \in DOMAIN index /\ known[f] = index[f]
            BY <3>1, <3>4, <5>1, <5>2 DEF Nodes
          <5>3. CASE f = 0 /\ known[f] = 0
            BY <3>1, <5>1, <5>3
          <5> QED  BY <5>1, <5>2, <5>3 DEF With
        <4> QED  BY <4>1, <4>2
      <3>9. Rows' /\ Index'
        BY <3>1, <3>6, <3>7, <3>8 DEF tables, Nodes, Unused
      <3> QED  BY <3>1, <3>9 DEF tables
    (* A row that was not there before. *)
    <2>11. ASSUME NEW r, Unused # {}, node' = With(node, NewNode, r),
                  lastFolder' \in Nat, lastFolder <= lastFolder', lastLeaf' \in Nat, lastLeaf <= lastLeaf',
                  \/ r \in [type : {"folder"}, id : 0 .. lastFolder', parentId : 0 .. lastFolder',
                            up : {0} \cup Nodes]
                  \/ r \in [type : {"leaf"}, id : 0 .. lastLeaf', parentId : 0 .. lastFolder',
                            up : {0} \cup Nodes]
           PROVE  /\ Rows'
                  /\ NewNode \in DOMAIN node' /\ NewNode # 0 /\ node'[NewNode] = r
                  /\ \A m \in Nodes : m \in DOMAIN node' /\ node'[m] = node[m]
      <3>1. NewNode \in (1 .. MaxNodes) \ Nodes
        BY <2>11 DEF NewNode, Unused
      <3>2. /\ DOMAIN node' = Nodes \cup {NewNode} /\ node'[NewNode] = r
            /\ \A m \in Nodes : node'[m] = node[m]
        BY <2>11, <3>1 DEF With, Nodes
      <3>3. ASSUME NEW m \in DOMAIN node' PROVE Row(node[m])'
        <4>1. CASE m = NewNode
          BY <2>11, <3>2, <4>1 DEF Nodes
        <4>2. CASE m \in Nodes
          BY <2>11, <3>2, <4>2 DEF Nodes
        <4> QED  BY <3>2, <4>1, <4>2
      <3> QED  BY <3>1, <3>2, <3>3 DEF Nodes
    <2>12. ASSUME NEW n \in {0} \cup Nodes, NEW file \in Files, AddToFavorite(file, n) PROVE Inv'
      <3>1. PICK failing \in {0, 1}, id \in 0 .. MaxLeaves :
               /\ Fail(failing)
               /\ UNCHANGED <<folder, lastFolder, root, index>>
               /\ DbAddFavorite(file, Group(n), failing, id)
               /\ IF id = 0 \/ GetTree(Group(n)) = {} THEN UNCHANGED node
                  ELSE /\ Unused # {}
                       /\ \E up \in GetTree(Group(n)) :
                             node' = With(node, NewNode, [type |-> "leaf", id |-> id,
                                                          parentId |-> Group(n), up |-> up])
        BY <2>12, Zenon DEF AddToFavorite
      <3>2. Group(n) \in 0 .. lastFolder
        BY <2>12 DEF AddToFavorite
      <3>3. /\ Folders' /\ FolderTable' /\ root' \in BOOLEAN /\ faults' \in 0 .. MaxFaults
            /\ LeafTables' /\ lastLeaf <= lastLeaf' /\ id \in 0 .. lastLeaf'
        BY <2>5, <3>1, <3>2 DEF Fail
      <3>4. CASE UNCHANGED node
        BY <2>9, <3>1, <3>3, <3>4
      <3>5. ASSUME NEW up \in GetTree(Group(n)), Unused # {},
                   node' = With(node, NewNode, [type |-> "leaf", id |-> id,
                                                parentId |-> Group(n), up |-> up])
            PROVE  Rows' /\ Index'
        <4> DEFINE r == [type |-> "leaf", id |-> id, parentId |-> Group(n), up |-> up]
        <4>1. r \in [type : {"leaf"}, id : 0 .. lastLeaf', parentId : 0 .. lastFolder',
                     up : {0} \cup Nodes]
          BY <2>7, <3>1, <3>2, <3>3
        <4> HIDE DEF r
        <4>2. Rows' /\ \A m \in Nodes : m \in DOMAIN node' /\ node'[m] = node[m]
          BY <2>11, <3>1, <3>3, <3>5, <4>1 DEF r
        <4> QED  BY <3>1, <4>2 DEF Nodes
      <3> QED  BY <3>1, <3>3, <3>4, <3>5
    <2>13. ASSUME NEW n \in {0} \cup Nodes, NEW file \in Files, MoveToGroup(file, n) PROVE Inv'
      <3>1. /\ Group(n) \in 0 .. lastFolder
            /\ UNCHANGED <<folder, favorite, lastFolder, lastLeaf, lastKey, root, index>>
        BY <2>13 DEF MoveToGroup
      <3>2. PICK l : /\ MoveTree(LeafItem(l, 0), Group(n))
                     /\ (Fail(0) /\ DbMove(l, Group(n))) \/ (Fail(1) /\ UNCHANGED leaf)
        BY <2>13, Zenon DEF MoveToGroup
      <3>3. Rows' /\ Index'
        BY <2>9, <3>1, <3>2
      <3>4. LeafTables'
        BY <2>3, <2>4, <3>1, <3>2
      <3> QED  BY <3>1, <3>2, <3>3, <3>4 DEF Fail
    <2>14. ASSUME NEW n \in {0} \cup Nodes, NEW name \in Names, NewGroup(name, n) PROVE Inv'
      <3> DEFINE parent == IF n # 0 /\ IsFolder(n) THEN node[n].id ELSE 0
      <3>1. parent \in 0 .. lastFolder /\ Unused # {}
            /\ UNCHANGED <<leaf, favorite, lastLeaf, lastKey, root>>
        BY <2>14 DEF NewGroup
      <3>2. PICK failing \in {0, 1}, id \in 0 .. MaxFolders, up \in GetTree(parent) :
               /\ Fail(failing)
               /\ DbAddNode(name, parent, failing, id)
               /\ node' = With(node, NewNode, [type |-> "folder", id |-> id,
                                               parentId |-> IF id = 0 THEN 0 ELSE parent, up |-> up])
               /\ index' = With(index, id, NewNode)
        BY <2>14, Zenon DEF NewGroup
      <3> HIDE DEF parent
      <3>3. Folders' /\ FolderTable' /\ lastFolder <= lastFolder' /\ id \in 0 .. lastFolder'
        BY <2>1, <3>1, <3>2
      <3>4. LeafTables' /\ root' \in BOOLEAN /\ faults' \in 0 .. MaxFaults
        BY <2>4, <3>1, <3>2, <3>3 DEF Fail
      <3> DEFINE r == [type |-> "folder", id |-> id,
                       parentId |-> IF id = 0 THEN 0 ELSE parent, up |-> up]
      <3>5. /\ r \in [type : {"folder"}, id : 0 .. lastFolder', parentId : 0 .. lastFolder',
                      up : {0} \cup Nodes]
            /\ r.type = "folder" /\ r.id = id
        BY <2>7, <3>1, <3>2, <3>3
      <3> HIDE DEF r
      <3>6. /\ Rows'
            /\ NewNode \in DOMAIN node' /\ NewNode # 0 /\ node'[NewNode] = r
            /\ \A m \in Nodes : m \in DOMAIN node' /\ node'[m] = node[m]
        BY <2>11, <3>1, <3>2, <3>3, <3>5 DEF r
      <3>7. /\ DOMAIN index' = DOMAIN index \cup {id} /\ index'[id] = NewNode
            /\ \A f \in DOMAIN index : f # id => index'[f] = index[f]
        BY <3>2 DEF With
      <3>8. Index'
        BY <3>1, <3>3, <3>5, <3>6, <3>7 DEF Nodes
      <3> QED  BY <3>3, <3>4, <3>6, <3>8
    <2>15. ASSUME NEW n, NEW name, Edit(n, name) PROVE Inv'
      <3>1. UNCHANGED <<leaf, lastFolder, lastLeaf, lastKey, root, node, index, faults>>
        BY <2>15 DEF Edit, view
      <3>2. FolderTable'
        BY <2>15, <3>1 DEF Edit
      <3>3. LeafTables'
        BY <2>15, <3>1 DEF Edit, Titles
      <3>4. Rows' /\ Index'
        BY <3>1
      <3> QED  BY <3>1, <3>2, <3>3, <3>4
    <2>21. ASSUME NEW file, NEW name \in Titles, UpdateFavorite(file, name) PROVE Inv'
      <3>1. UNCHANGED <<folder, leaf, lastFolder, lastLeaf, lastKey, root, index, faults>>
        BY <2>21 DEF UpdateFavorite
      <3>2. LeafTables'
        BY <2>21, <3>1 DEF UpdateFavorite, Keys
      <3>3. PICK found \in SUBSET Nodes :
               /\ \A m \in found : node[m].id \in DOMAIN leaf
               /\ node' = [m \in Nodes |-> IF m \in found
                             THEN [node[m] EXCEPT !.parentId = leaf[node[m].id].parent] ELSE node[m]]
        <4> DEFINE M == {m \in Nodes : /\ node[m].type = "leaf"
                                       /\ node[m].id \in UNION {Leaves(k) : k \in Keys(file)}
                                       /\ node[m].up \in GetTree(leaf[node[m].id].parent)}
        <4>1. M \in SUBSET Nodes /\ \A m \in M : node[m].id \in DOMAIN leaf
          BY DEF Leaves
        <4>2. node' = [m \in Nodes |-> IF m \in M
                         THEN [node[m] EXCEPT !.parentId = leaf[node[m].id].parent] ELSE node[m]]
          BY ONLY <2>21, Zenon DEF UpdateFavorite
        <4> QED  BY ONLY <4>1, <4>2, Zenon
      <3>4. ASSUME NEW m \in DOMAIN node
            PROVE  Row(node[m])' /\ node'[m].type = node[m].type /\ node'[m].id = node[m].id
        <4>1. CASE m \in found
          <5>1. leaf[node[m].id].parent \in 0 .. lastFolder
            BY <3>3, <4>1
          <5> QED  BY <3>1, <3>3, <4>1, <5>1 DEF Nodes
        <4>2. CASE m \notin found
          BY <3>1, <3>3, <4>2 DEF Nodes
        <4> QED  BY <4>1, <4>2
      <3>5. DOMAIN node' = DOMAIN node
        BY <3>3 DEF Nodes
      <3>6. Rows' /\ Index'
        BY <3>1, <3>4, <3>5
      <3> QED  BY <3>1, <3>2, <3>6
    <2>16. ASSUME NEW n, Delete(n) PROVE Inv'
      <3>1. /\ n \in Nodes /\ ClearTree(n) /\ UNCHANGED <<lastFolder, lastLeaf, lastKey, root>>
            /\ faults' \in 0 .. MaxFaults
        BY <2>16 DEF Delete, Fail
      <3>2. \E F, L, K : Drop(F, L, K)
        BY <2>16, Zenon DEF Delete, DbDelete, DbDeleteNode
      <3>3. n # 0
        BY <3>1 DEF Nodes
      <3> QED  BY <2>6, <2>8, <3>1, <3>2, <3>3
    <2>17. ASSUME NEW n, NEW to \in {0} \cup Nodes, DropOn(n, to) PROVE Inv'
      <3>1. /\ ItemId(to) \in 0 .. lastFolder
            /\ UNCHANGED <<favorite, lastFolder, lastLeaf, lastKey, root, index>>
            /\ MoveTree(node[n], ItemId(to)) /\ faults' \in 0 .. MaxFaults
        BY <2>7, <2>17 DEF DropOn, Fail
      <3>2. Rows' /\ Index'
        BY <2>9, <3>1
      <3>3. \/ (\E failing : DbMoveNode(node[n].id, ItemId(to), failing)) /\ UNCHANGED leaf
            \/ DbMove(node[n].id, ItemId(to)) /\ UNCHANGED folder
        BY <2>17 DEF DropOn
      <3>4. FolderTable' /\ LeafTables'
        BY <2>2, <2>3, <2>4, <3>1, <3>3
      <3> QED  BY <3>1, <3>2, <3>4
    <2>18. CASE Refresh
      <3>1. root' = (root /\ 0 # 0) /\ ClearTree(0) /\ UNCHANGED <<tables, faults>>
        BY <2>18 DEF Refresh
      <3> QED  BY <2>8, <3>1 DEF tables
    <2>19. ASSUME NEW file \in Files, NEW name, name \in Names \cup {""}, Import(file, name) PROVE Inv'
      <3>1. PICK one \in {0, 1}, two \in {0, 1}, f \in 0 .. MaxFolders, l \in 0 .. MaxLeaves :
               /\ Fail(one + two)
               /\ \/ f = 0 /\ UNCHANGED <<folder, lastFolder>>
                  \/ name \in Names /\ DbAddNode(name, 0, one, f)
               /\ DbAddFavorite(file, f, two, l)
        <4>1. PICK one \in {0, 1}, two \in {0, 1}, f \in 0 .. MaxFolders, l \in 0 .. MaxLeaves :
                 /\ Fail(one + two)
                 /\ IF name = "" THEN one = 0 /\ f = 0 /\ UNCHANGED <<folder, lastFolder>>
                    ELSE DbAddNode(name, 0, one, f)
                 /\ DbAddFavorite(file, f, two, l)
          BY ONLY <2>19, Zenon DEF Import
        <4>2. \/ f = 0 /\ UNCHANGED <<folder, lastFolder>>
              \/ name \in Names /\ DbAddNode(name, 0, one, f)
          BY ONLY <2>19, <4>1, Zenon
        <4> QED  BY ONLY <4>1, <4>2, Zenon
      <3>2. Folders' /\ FolderTable' /\ lastFolder <= lastFolder' /\ f \in 0 .. lastFolder'
        BY <2>1, <3>1
      <3>3. LeafTables' /\ lastLeaf <= lastLeaf'
        BY <2>5, <3>1, <3>2
      <3>4. faults' \in 0 .. MaxFaults
        BY <3>1 DEF Fail
      <3>5. root' \in BOOLEAN /\ Rows' /\ Index'
        <4>1. CASE root' = FALSE /\ ClearTree(0)
          <5>1. root' = (root /\ 0 # 0)
            BY <4>1
          <5> QED  BY <2>8, <3>2, <3>3, <4>1, <5>1
        <4>2. CASE UNCHANGED view
          BY <2>9, <3>2, <3>3, <4>2 DEF view
        <4> QED  BY <2>19, <4>1, <4>2 DEF Import
      <3> QED  BY <3>2, <3>3, <3>4, <3>5
    <2>20. CASE UNCHANGED vars
      BY <2>20 DEF vars, tables, view
    <2> QED
      BY <2>7, <2>10, <2>12, <2>13, <2>14, <2>15, <2>16, <2>17, <2>18, <2>19, <2>20,
         <2>21 DEF Next
  <1> QED  BY <1>1, <1>2, <1>3, PTL DEF Spec
==============================================================================
