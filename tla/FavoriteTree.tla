---------------------------- MODULE FavoriteTree ----------------------------
(***************************************************************************)
(* The favorites: the tables of CFavoriteDatabase and CDatabaseTree, and   *)
(* the tree of CFavoriteModel that shows as much of them as was fetched.   *)
(* A user edits the tables through the rows of that tree; a statement may  *)
(* fail.  Each operation runs to its end in the main thread.               *)
(***************************************************************************)
EXTENDS Naturals, FiniteSets, Functions

CONSTANTS
    Files,      \* files of sessions
    Names,      \* names of groups
    MaxFolders, MaxLeaves, MaxKeys, MaxNodes,  \* bounds: ids given by each table, rows made
    MaxFaults,  \* bound: statements that fail
    ReadsFail   \* whether a SELECT may fail too; its result is taken for empty then

ASSUME BoundAssumption ==
    /\ MaxFolders \in Nat /\ MaxLeaves \in Nat /\ MaxKeys \in Nat /\ MaxNodes \in Nat
    /\ MaxFaults \in Nat

ASSUME ReadAssumption == ReadsFail \in BOOLEAN

VARIABLES
    folder,     \* table folders: id -> [name, parent]
    leaf,       \* table tree: id -> [key, parent]
    favorite,   \* table favorite: key -> [file, name]
    lastFolder, lastLeaf, lastKey,  \* AUTOINCREMENT of the three tables
    root,       \* whether m_pRoot is there; it is node 0
    node,       \* the other nodes of the view: their item's [type, id, parentId], and up
    index,      \* m_Folders: id of a group -> node
    faults      \* statements that have failed

tables == <<folder, leaf, favorite, lastFolder, lastLeaf, lastKey>>
view == <<root, node, index>>
vars == <<tables, view, faults>>

Nothing == [i \in {} |-> i]
Titles == {"given", "edited"}

(* A row of the view that was not found in the tables has the id 0. *)
TypeOK ==
    /\ lastFolder \in 0 .. MaxFolders /\ lastLeaf \in 0 .. MaxLeaves /\ lastKey \in 0 .. MaxKeys
    /\ DOMAIN folder \subseteq 1 .. lastFolder
    /\ \A f \in DOMAIN folder : folder[f] \in [name : Names, parent : 0 .. lastFolder]
    /\ DOMAIN leaf \subseteq 1 .. lastLeaf
    /\ \A l \in DOMAIN leaf : leaf[l] \in [key : 1 .. lastKey, parent : 0 .. lastFolder]
    /\ DOMAIN favorite \subseteq 1 .. lastKey
    /\ \A k \in DOMAIN favorite : favorite[k] \in [file : Files, name : Titles]
    /\ root \in BOOLEAN /\ faults \in 0 .. MaxFaults
    /\ DOMAIN node \subseteq 1 .. MaxNodes
    /\ \A n \in DOMAIN node :
          \/ node[n] \in [type : {"folder"}, id : 0 .. lastFolder, parentId : 0 .. lastFolder,
                          up : {0} \cup DOMAIN node]
          \/ node[n] \in [type : {"leaf"}, id : 0 .. lastLeaf, parentId : 0 .. lastFolder,
                          up : {0} \cup DOMAIN node]
    /\ DOMAIN index \subseteq 0 .. lastFolder
    /\ \A f \in DOMAIN index : index[f] \in 0 .. MaxNodes

Init ==
    /\ folder = Nothing /\ leaf = Nothing /\ favorite = Nothing
    /\ lastFolder = 0 /\ lastLeaf = 0 /\ lastKey = 0
    /\ root = TRUE /\ node = Nothing /\ index = [f \in {0} |-> 0]
    /\ faults = 0

-----------------------------------------------------------------------------
(* Trees: what is below x, where up gives each element its parent. *)

Descendants(up, x) ==
    LET closed == {S \in SUBSET DOMAIN up :
                      \A z \in DOMAIN up : up[z] = x \/ up[z] \in S => z \in S}
    IN  {y \in DOMAIN up : \A S \in closed : y \in S}

(* GetSubNodes and its recursion in InSubNode and DeleteNode. *)
Below(f) == Descendants([g \in DOMAIN folder |-> folder[g].parent], f)

Shown(n) == Descendants([m \in DOMAIN node |-> node[m].up], n)

Without(table, gone) == [i \in DOMAIN table \ gone |-> table[i]]
With(table, i, row) == [j \in DOMAIN table \cup {i} |-> IF j = i THEN row ELSE table[j]]

-----------------------------------------------------------------------------
(* CDatabaseTree and CFavoriteDatabase.  id is what a function returns, failing *)
(* the number of its statements that fail: 0 or 1.                              *)

Fail(n) == faults + n <= MaxFaults /\ faults' = faults + n

Siblings(name, parent) ==
    {f \in DOMAIN folder : folder[f].parent = parent /\ folder[f].name = name}

(* AddNode, a group that is there already, a failure, a new one *)
DbAddNode(name, parent, failing, id) ==
    \/ /\ id \in Siblings(name, parent) /\ failing = 0
       /\ UNCHANGED <<folder, lastFolder>>
    \/ /\ Siblings(name, parent) = {} \/ ReadsFail
       /\ failing = 1
       /\ id = 0
       /\ UNCHANGED <<folder, lastFolder>>
    \/ /\ Siblings(name, parent) = {} /\ failing = 0
       /\ id = lastFolder + 1 /\ id <= MaxFolders
       /\ lastFolder' = id
       /\ folder' = With(folder, id, [name |-> name, parent |-> parent])

(* Mutant: what the view has checked is not checked again. *)
DbMoveNodeUnchecked(f, parent, failing) ==
    /\ f # parent /\ failing = 0
    /\ folder' = [g \in DOMAIN folder |->
                     IF g = f THEN [folder[g] EXCEPT !.parent = parent] ELSE folder[g]]

(* MoveNode, when it returns true; a failing GetSubNodes hides what is below *)
DbMoveNode(f, parent, failing) ==
    /\ f # parent
    /\ \/ failing = 0 /\ parent \notin Below(f)
       \/ failing = 1 /\ ReadsFail
    /\ folder' = [g \in DOMAIN folder |->
                     IF g = f THEN [folder[g] EXCEPT !.parent = parent] ELSE folder[g]]

(* Move *)
DbMove(l, parent) ==
    leaf' = [m \in DOMAIN leaf |->
                IF m = l THEN [leaf[m] EXCEPT !.parent = parent] ELSE leaf[m]]

Leaves(k) == {l \in DOMAIN leaf : leaf[l].key = k}
Keys(file) == {k \in DOMAIN favorite : favorite[k].file = file}

(* AddFavorite: both tables or none; the parent is looked for first. *)
DbAddFavorite(file, parent, failing, id) ==
    \/ /\ parent # 0 /\ parent \notin DOMAIN folder' /\ failing = 0
       /\ id = 0
       /\ UNCHANGED <<leaf, favorite, lastLeaf, lastKey>>
    \/ /\ parent = 0 \/ parent \in DOMAIN folder'
       /\ failing = 1
       /\ id = 0
       /\ UNCHANGED <<leaf, favorite, lastLeaf, lastKey>>
    \/ /\ parent = 0 \/ parent \in DOMAIN folder'
       /\ failing = 0
       /\ \E k \in 1 .. MaxKeys :
             /\ \/ k \in Keys(file) /\ UNCHANGED <<favorite, lastKey>>
                \/ /\ Keys(file) = {} /\ k = lastKey + 1
                   /\ lastKey' = k
                   /\ favorite' = With(favorite, k, [file |-> file, name |-> "given"])
             /\ \/ id \in {l \in Leaves(k) : leaf[l].parent = parent}
                   /\ UNCHANGED <<leaf, lastLeaf>>
                \/ /\ \A l \in Leaves(k) : leaf[l].parent # parent
                   /\ id = lastLeaf + 1 /\ id <= MaxLeaves
                   /\ lastLeaf' = id
                   /\ leaf' = With(leaf, id, [key |-> k, parent |-> parent])

(* Mutant: the other leaves of the key are not looked for. *)
AllKeys(L) == {leaf[l].key : l \in L}

(* The keys that OnDeleteKey deletes when the leaves L are deleted one by one. *)
LastKeys(L) == {k \in {leaf[l].key : l \in L} : Leaves(k) \subseteq L}

Drop(F, L, K) ==
    /\ folder' = Without(folder, F)
    /\ leaf' = Without(leaf, L)
    /\ favorite' = Without(favorite, K)

(* Mutant: the leaf is deleted before its key. *)
DbDeleteLeafFirst(l, failing) ==
    LET L == {l} \cap DOMAIN leaf
    IN  \/ failing = 0 /\ Drop({}, L, LastKeys(L))
        \/ failing = 1 /\ \E D \in {{}, L} : Drop({}, D, {})

(* Delete.  GetLeaf and GetLeavesByKey, when they fail, find no other leaf and *)
(* no last one: the key stays.                                                 *)
DbDelete(l, failing) ==
    LET L == {l} \cap DOMAIN leaf
    IN  \/ failing = 0 /\ Drop({}, L, LastKeys(L))
        \/ failing = 1 /\ \E K \in {{}, LastKeys(L)} : Drop({}, {}, K)
        \/ failing = 1 /\ ReadsFail /\ Drop({}, L, {})

In(F) == {l \in DOMAIN leaf : leaf[l].parent \in F}

(* The sets of groups that may be gone when DeleteNode, deleting the groups   *)
(* all with those below each first, comes to the leaves of the group at.      *)
Passed(all, at) ==
    {F \in SUBSET (all \ {at}) :
        /\ Below(at) \subseteq F
        /\ \A g \in F : Below(g) \subseteq F
        /\ \A g \in all \ F : at \in {g} \cup Below(g) \/ Below(g) \cap F = {}}

(* DeleteNode: the groups below it, each with its leaves, then itself.  In    *)
(* the group at a statement fails.  If it writes, what came before is gone:   *)
(* the groups F, the leaves L of at, and maybe the key of one more leaf.  If  *)
(* it reads, all the rest goes on: GetSubNodes hides the groups below at, and *)
(* the leaves of at keep keys: all with GetLeaves, else one.                  *)
DbDeleteNode(f, failing) ==
    LET all == {f} \cup Below(f)
    IN  \/ failing = 0 /\ Drop(all, In(all), LastKeys(In(all)))
        \/ /\ failing = 1
           /\ \E at \in all : \E F \in Passed(all, at), L \in SUBSET In({at}) :
                 \E l \in {{}} \cup {{m} : m \in In({at})} :
                    Drop(F, In(F) \cup L, LastKeys(In(F) \cup L \cup l))
        \/ /\ failing = 1 /\ ReadsFail
           /\ \E at \in all :
                 LET seen == all \ Below(at)
                 IN  Drop(seen, In(seen), LastKeys(In(seen)))
        \/ /\ failing = 1 /\ ReadsFail
           /\ \E at \in all : \E F \in Passed(all, at) :
                 LET last == {k \in LastKeys(In(F \cup {at})) : Leaves(k) \cap In({at}) # {}}
                 IN  \E kept \in {{}, last} \cup {{k} : k \in last} :
                        Drop(all, In(all), LastKeys(In(all)) \ kept)

-----------------------------------------------------------------------------
(* CFavoriteModel: its tree. *)

Nodes == DOMAIN node
GetTree(f) == IF f = 0 THEN {n \in {0} : root} ELSE {index[g] : g \in {f} \cap DOMAIN index}
ItemId(n) == IF n = 0 THEN 0 ELSE node[n].id
IsFolder(n) == IF n = 0 THEN TRUE ELSE node[n].type = "folder"
Child(n) == {m \in Nodes : node[m].up = n}

(* A new node is any that is not in use. *)
Unused == (1 .. MaxNodes) \ Nodes
NewNode == CHOOSE n \in Unused : TRUE

(* What can be selected *)
Seen == {0} \cup Shown(0)

(* GetFavorite(id): nothing but zeros for a leaf whose key is gone. *)
LeafItem(l, up) ==
    IF leaf[l].key \in DOMAIN favorite
    THEN [type |-> "leaf", id |-> l, parentId |-> leaf[l].parent, up |-> up]
    ELSE [type |-> "leaf", id |-> 0, parentId |-> 0, up |-> up]
FolderItem(f, up) == [type |-> "folder", id |-> f, parentId |-> folder[f].parent, up |-> up]
Item(child, up) ==
    IF child.type = "folder" THEN FolderItem(child.id, up) ELSE LeafItem(child.id, up)

GetSubNodes(f) == {g \in DOMAIN folder : folder[g].parent = f}

(* GetChildren *)
Fetched(f) == [type : {"folder"}, id : GetSubNodes(f)] \cup [type : {"leaf"}, id : In({f})]

(* fetchMore: the children of a node that shows none, each with a node of its own *)
FetchMore(n) ==
    /\ IsFolder(n) /\ Child(n) = {}
    /\ LET new == Fetched(ItemId(n))
           subs == GetSubNodes(ItemId(n))
           place == CHOOSE p \in Injection(new, Unused) : TRUE
           known == IF root THEN index ELSE With(index, 0, 0)
       IN  /\ Injection(new, Unused) # {} /\ (root => new # {})
           /\ node' = [m \in Nodes \cup Range(place) |->
                          IF m \in Nodes THEN node[m]
                          ELSE Item(CHOOSE c \in new : place[c] = m, n)]
           /\ index' = [f \in DOMAIN known \cup subs |->
                           IF f \in subs THEN place[[type |-> "folder", id |-> f]] ELSE known[f]]
    /\ root' = TRUE
    /\ UNCHANGED <<tables, faults>>

(* MoveTree: true or false, and the nodes it moves; their items keep the      *)
(* parentId they had.                                                         *)
CanMoveTree(it, parent) ==
    /\ it.id # 0
    /\ \/ it.parentId = parent
       \/ it.type = "folder" /\ it.id = parent
       \/ GetTree(it.parentId) # {} /\ GetTree(parent) # {}

MoveTree(it, parent) ==
    LET same == it.parentId = parent \/ (it.type = "folder" /\ it.id = parent)
        moved == {m \in Nodes : /\ node[m].up \in GetTree(it.parentId)
                                /\ node[m].id = it.id /\ node[m].type = it.type}
    IN  IF same \/ ~CanMoveTree(it, parent) THEN UNCHANGED node
        ELSE \E to \in GetTree(parent) :
                node' = [m \in Nodes |->
                            IF m \in moved THEN [node[m] EXCEPT !.up = to] ELSE node[m]]

-----------------------------------------------------------------------------
(* CFavoriteView: what the user does with a row n of the view. *)

(* The group of slotAddToFavorite: n or the nearest row above it that is one. *)
Group(n) ==
    LET groups == {m \in Nodes : IsFolder(m) /\ node[m].id # 0 /\ n \in {m} \cup Shown(m)}
    IN  IF groups = {} THEN 0
        ELSE node[CHOOSE m \in groups : \A g \in groups : m \in {g} \cup Shown(g)].id

(* slotAddToFavorite of a file that is no favorite *)
AddToFavorite(file, n) ==
    /\ UNION {Leaves(k) : k \in Keys(file)} = {}
    /\ Group(n) \in DOMAIN index
    /\ \E failing \in {0, 1}, id \in 0 .. MaxLeaves :
          /\ Fail(failing)
          /\ UNCHANGED <<folder, lastFolder, root, index>>
          /\ DbAddFavorite(file, Group(n), failing, id)
          /\ IF id = 0 \/ GetTree(Group(n)) = {} THEN UNCHANGED node
             ELSE /\ Unused # {}
                  /\ \E up \in GetTree(Group(n)) :
                        node' = With(node, NewNode,
                                     [type |-> "leaf", id |-> id, parentId |-> Group(n), up |-> up])

(* slotAddToFavorite of one that is in another group: the user has it moved. *)
MoveToGroup(file, n) ==
    /\ Group(n) \in DOMAIN index
    /\ \E l \in UNION {Leaves(k) : k \in Keys(file)} :
          LET it == LeafItem(l, 0)
          IN  /\ it.parentId # Group(n)
              /\ CanMoveTree(it, Group(n))
              /\ MoveTree(it, Group(n))
              /\ \/ Fail(0) /\ DbMove(l, Group(n))
                 \/ Fail(1) /\ UNCHANGED leaf
    /\ UNCHANGED <<folder, favorite, lastFolder, lastLeaf, lastKey, root, index>>

(* slotNewGroup: the row shows what GetGroup finds, with the id 0 nothing. *)
NewGroup(name, n) ==
    LET parent == IF n # 0 /\ IsFolder(n) THEN node[n].id ELSE 0
    IN  /\ parent \in DOMAIN index
        /\ Unused # {}
        /\ \E failing \in {0, 1}, id \in 0 .. MaxFolders, up \in GetTree(parent) :
              /\ Fail(failing)
              /\ DbAddNode(name, parent, failing, id)
              /\ node' = With(node, NewNode, [type |-> "folder", id |-> id,
                                              parentId |-> IF id = 0 THEN 0 ELSE parent, up |-> up])
              /\ index' = With(index, id, NewNode)
        /\ UNCHANGED <<leaf, favorite, lastLeaf, lastKey, root>>

(* slotEdit: UpdateFavorite of the id of the item, or RenameNode *)
Edit(n, name) ==
    /\ n \in Nodes
    /\ IF IsFolder(n)
       THEN /\ name \in Names
            /\ folder' = [f \in DOMAIN folder |->
                             IF f = node[n].id THEN [folder[f] EXCEPT !.name = name] ELSE folder[f]]
            /\ UNCHANGED favorite
       ELSE /\ name = "edited"
            /\ favorite' = [k \in DOMAIN favorite |->
                               IF k = node[n].id THEN [favorite[k] EXCEPT !.name = name]
                               ELSE favorite[k]]
            /\ UNCHANGED folder
    /\ UNCHANGED <<leaf, lastFolder, lastLeaf, lastKey, view, faults>>

(* slotUpdateFavorite, when the settings of a session were changed: the name is  *)
(* given by the file, and the rows that are shown where the tables have them     *)
(* are read again.                                                               *)
UpdateFavorite(file, name) ==
    /\ favorite' = [k \in DOMAIN favorite |->
                       IF k \in Keys(file) THEN [favorite[k] EXCEPT !.name = name] ELSE favorite[k]]
    /\ LET found == {m \in Nodes : /\ node[m].type = "leaf"
                                   /\ node[m].id \in UNION {Leaves(k) : k \in Keys(file)}
                                   /\ node[m].up \in GetTree(leaf[node[m].id].parent)}
       IN  node' = [m \in Nodes |->
                       IF m \in found THEN [node[m] EXCEPT !.parentId = leaf[node[m].id].parent]
                       ELSE node[m]]
    /\ UNCHANGED <<folder, leaf, lastFolder, lastLeaf, lastKey, root, index, faults>>

(* Mutant: only the row itself is forgotten. *)
ClearOne(n) ==
    /\ node' = Without(node, {n} \cup Shown(n))
    /\ index' = Without(index, {ItemId(m) : m \in {x \in {n} : IsFolder(x)}})

(* Mutant: the rows below a row are not deleted with it. *)
ClearAlone(n) ==
    /\ node' = Without(node, {n})
    /\ index' = Without(index, {ItemId(n)})

(* ClearTree *)
ClearTree(n) ==
    LET gone == {n} \cup Shown(n)
    IN  /\ node' = Without(node, gone)
        /\ index' = Without(index, {ItemId(m) : m \in {x \in gone : IsFolder(x)}})

(* slotDelete: removeRows, whatever the database says *)
Delete(n) ==
    /\ n \in Nodes
    /\ \E failing \in {0, 1} :
          /\ Fail(failing)
          /\ IF IsFolder(n) THEN DbDeleteNode(node[n].id, failing)
             ELSE DbDelete(node[n].id, failing)
    /\ ClearTree(n)
    /\ UNCHANGED <<lastFolder, lastLeaf, lastKey, root>>

(* dropEvent: the row n on the group to, or beside all rows; Model's Move *)
DropOn(n, to) ==
    LET parent == ItemId(to)
        inside == \E m \in {n} \cup Shown(n) : node[m].type = "folder" /\ node[m].id = parent
    IN  /\ n \in Nodes /\ n # to /\ IsFolder(to)
        /\ IF IsFolder(n)
           THEN /\ ~inside /\ UNCHANGED leaf
                /\ \E failing \in {0, 1} :
                      Fail(failing) /\ DbMoveNode(node[n].id, parent, failing)
           ELSE DbMove(node[n].id, parent) /\ UNCHANGED <<folder, faults>>
        /\ MoveTree(node[n], parent)
        /\ UNCHANGED <<favorite, lastFolder, lastLeaf, lastKey, root, index>>

(* Refresh *)
Refresh ==
    /\ root
    /\ root' = FALSE
    /\ ClearTree(0)
    /\ UNCHANGED <<tables, faults>>

(* slotImport of a document with a file, in a group or in none *)
Import(file, name) ==
    /\ \E one, two \in {0, 1}, f \in 0 .. MaxFolders, l \in 0 .. MaxLeaves :
          /\ Fail(one + two)
          /\ IF name = "" THEN one = 0 /\ f = 0 /\ UNCHANGED <<folder, lastFolder>>
             ELSE DbAddNode(name, 0, one, f)
          /\ DbAddFavorite(file, f, two, l)
    /\ IF root THEN root' = FALSE /\ ClearTree(0) ELSE UNCHANGED view

Next ==
    \/ \E n \in Seen :
          \/ FetchMore(n) \/ Delete(n)
          \/ \E file \in Files : AddToFavorite(file, n) \/ MoveToGroup(file, n)
          \/ \E name \in Names : NewGroup(name, n)
          \/ \E name \in Names \cup Titles : Edit(n, name)
          \/ \E to \in Seen : DropOn(n, to)
    \/ Refresh
    \/ \E file \in Files, name \in Titles : UpdateFavorite(file, name)
    \/ \E file \in Files, name \in Names \cup {""} : Import(file, name)

Spec == Init /\ [][Next]_vars

-----------------------------------------------------------------------------
(* Properties. *)

(* No group is below itself, although the view that the user moves groups in  *)
(* may be out of date: InSubNode and DeleteNode call themselves and would not *)
(* come to an end.  This is so where only statements that write fail; a SELECT *)
(* that fails in InSubNode lets a group be moved below itself.                *)
Acyclic == \A S \in SUBSET DOMAIN folder : S # {} => \E f \in S : folder[f].parent \notin S

(* Every favorite is in the tree somewhere, whatever INSERT, UPDATE or DELETE  *)
(* of AddFavorite, Delete or DeleteNode has failed: else its row could never   *)
(* be seen again.  A SELECT that fails in GetLeaf, GetLeaves or GetLeavesByKey *)
(* leaves one without a leaf (ReadsFail).                                      *)
KeyHasLeaf == \A k \in DOMAIN favorite : Leaves(k) # {}

(* m_Folders holds no pointer to a node that was deleted. *)
FolderNodesLive == \A f \in DOMAIN index : IF index[f] = 0 THEN root ELSE index[f] \in Nodes

(* The leaves that deleting the row n of the view is about. *)
Doomed(n) ==
    IF IsFolder(n) THEN In({node[n].id} \cup Below(node[n].id)) ELSE {node[n].id}

(* Deleting a row, with all that is below it, deletes no favorite that is also *)
(* in another group, and no statement that fails makes it so.                  *)
KeepsOthers ==
    [][\A k \in DOMAIN favorite \ DOMAIN favorite', n \in Nodes :
          Delete(n) => Leaves(k) \subseteq Doomed(n)]_vars

(* Editing the name of a favorite changes no other favorite: an item's id "is *)
(* the id of tree table", and UpdateFavorite is given it.                     *)
EditsItsOwn ==
    [][\A k \in DOMAIN favorite \cap DOMAIN favorite', n \in Nodes :
          favorite'[k] # favorite[k] /\ Edit(n, "edited") => node[n].id \in Leaves(k)]_vars

(* A row that stands for nothing in the tables, as AddNode shows one when its *)
(* statement fails, deletes nothing.                                          *)
DeletesItsOwn == [][\A n \in Nodes : Delete(n) /\ node[n].id = 0 => UNCHANGED tables]_vars

(* Every node hangs, however deep, from the root: it can be seen, and freed. *)
NodesShown == (Nodes # {} => root) /\ Shown(0) = Nodes
=============================================================================
