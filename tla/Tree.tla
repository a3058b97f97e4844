--------------------------------- MODULE Tree ---------------------------------
(***************************************************************************)
(* The tree of src/ds.c: every node has its parent, its first child and    *)
(* its next sibling.  The user also holds trees that were unlinked, and    *)
(* may link, search, unlink in and clear those.                            *)
(***************************************************************************)
EXTENDS Links, SequencesExt

CONSTANTS Nodes         \* addresses of tree elements

ASSUME NodesAssumption == IsFiniteSet(Nodes) /\ NULL \notin Nodes

VARIABLES
  root,
  parent, child, sibling,   \* the fields of each node
  broke,      \* NULL, or the node whose unlinking has read through NULL
  children,   \* history: the children each node should have, in order
  cleared     \* ... the nodes that _tree_clear has left with their old parent

treeVars == <<root, parent, child, sibling, broke, children, cleared>>

TreeInit ==
  /\ root = NULL /\ broke = NULL
  /\ parent = [n \in Nodes |-> NULL] /\ child = [n \in Nodes |-> NULL]
  /\ sibling = [n \in Nodes |-> NULL]
  /\ children = [n \in Nodes |-> << >>] /\ cleared = {}

(* The nodes that _tree_find visits: it goes to the siblings of the node   *)
(* it starts from, too.                                                    *)
Visited(start) ==
  LET walks == {S \in SUBSET Nodes :
                  start \in S /\ Closed(child, S) /\ Closed(sibling, S)}
  IN IF start = NULL THEN {} ELSE {n \in Nodes : \A S \in walks : n \in S}

(* The top of a tree: the root, or a node that the user holds. *)
Top(n) == \A m \in Nodes : n \notin ToSet(children[m])

(* _tree_link of a tree that the user holds, below a node of another one.  *)
(* The first node is the root whatever parent it is linked below.          *)
TreeLink(above, n) ==
  /\ broke = NULL /\ Top(n) /\ n # root /\ above \notin Visited(n)
  /\ IF root = NULL
     THEN root' = n /\ UNCHANGED <<parent, child, sibling, children, cleared>>
     ELSE /\ above # NULL /\ parent' = [parent EXCEPT ![n] = above]
          /\ IF child[above] = NULL
             THEN child' = [child EXCEPT ![above] = n] /\ UNCHANGED sibling
             ELSE /\ sibling' = [sibling EXCEPT ![EndOf(sibling, child[above])] = n]
                  /\ UNCHANGED child
          /\ children' = [children EXCEPT ![above] = Append(@, n)]
          /\ cleared' = cleared \ {n} /\ UNCHANGED root
  /\ UNCHANGED broke

(* _tree_unlink: the node leaves the chain of its parent's children and    *)
(* keeps its own children.                                                 *)
WrongSiblings(n) == Bypass(sibling, child[parent[n]], n)

Siblings(n) == [Bypass(sibling, child[parent[n]], n) EXCEPT ![n] = NULL]

TreeUnlink(from, n) ==
  /\ broke = NULL /\ n \in Visited(IF from = NULL THEN root ELSE from)
  /\ IF n # root /\ parent[n] = NULL
     THEN broke' = n /\ UNCHANGED <<root, parent, child, sibling, children, cleared>>
     ELSE /\ root' = IF n = root THEN NULL ELSE root
          /\ child' = IF n # root /\ child[parent[n]] = n
                      THEN [child EXCEPT ![parent[n]] = sibling[n]] ELSE child
          /\ sibling' = IF n = root THEN [sibling EXCEPT ![n] = NULL] ELSE Siblings(n)
          /\ parent' = [parent EXCEPT ![n] = NULL]
          /\ children' = [m \in Nodes |-> RemoveFirst(children[m], n)]
          /\ cleared' = cleared \ {n} /\ UNCHANGED broke

(* _tree_clear of the root, or of a tree that the user holds. *)
TreeClear(top) ==
  /\ broke = NULL /\ Top(top)
  /\ LET all == Visited(top) IN
     /\ child' = [n \in Nodes |-> IF n \in all THEN NULL ELSE child[n]]
     /\ sibling' = [n \in Nodes |-> IF n \in all THEN NULL ELSE sibling[n]]
     /\ children' = [n \in Nodes |-> IF n \in all THEN << >> ELSE children[n]]
     /\ cleared' = cleared \cup (all \ {top})
  /\ root' = IF root = top THEN NULL ELSE root
  /\ UNCHANGED <<parent, broke>>

TreeNext ==
  \/ \E above \in Nodes \cup {NULL}, n \in Nodes : TreeLink(above, n)
  \/ \E from \in Nodes \cup {NULL}, n \in Nodes : TreeUnlink(from, n)
  \/ \E top \in Nodes : TreeClear(top)

TreeSpec == TreeInit /\ [][TreeNext]_treeVars
-----------------------------------------------------------------------------
(* Properties *)

(* However trees are linked, taken apart and put together again, a node's  *)
(* children are those that were linked below it and not unlinked since, in *)
(* order, they know their parent, and the top of a tree has no sibling and *)
(* no parent (but the one a clear has left it).  Unlinking crashes for no  *)
(* node but the top of a tree that has been unlinked before.               *)
TreeIsSound ==
  /\ \A n \in Nodes : /\ IsList(sibling, child[n], children[n])
                      /\ \A m \in ToSet(children[n]) : parent[m] = n
  /\ \A n \in Nodes : Top(n) => sibling[n] = NULL /\ (parent[n] = NULL \/ n \in cleared)
  /\ broke # NULL => Top(broke) /\ broke # root
=============================================================================
