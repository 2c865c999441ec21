-------------------------- MODULE AccessibilityTree --------------------------
(***************************************************************************)
(* What of the page's node tree AccessibilityManagerImpl publishes, finds  *)
(* by an id and shows to an inspector.  The tree has frame nodes and nodes *)
(* that only group (UINode); the stage, its pages, internal nodes and      *)
(* groups are looked through; a node may have a virtual tree in place of   *)
(* its children.                                                           *)
(*                                                                         *)
(* A tree is a record [parent, is] of functions on 1 .. N: the parents,    *)
(* each below its child and 0 above the root 1, and what each node is.     *)
(***************************************************************************)
EXTENDS Integers, SequencesExt, FiniteSetsExt

CONSTANT CurrentPage    \* the page id of the tree's last page

IdNone == -2100000      \* INVALID_PARENT_ID

\* A frame node of a component, and what may be different about it.
Component == [frame |-> TRUE, tag |-> "component", active |-> TRUE, internal |-> FALSE,
              levelNo |-> FALSE, group |-> FALSE, virtual |-> FALSE, page |-> CurrentPage]

Nodes(t) == DOMAIN t.is

VirtualOf(t, n) == {c \in Nodes(t) : t.parent[c] = n /\ t.is[c].virtual}
GetChildren(t, n) == SetToSortSeq({c \in Nodes(t) : t.parent[c] = n /\ ~t.is[c].virtual}, <)

IsFrame(t, n) == t.is[n].frame

-----------------------------------------------------------------------------
\* mutant: an inactive node is looked through.
RECURSIVE GetChildrenOfInactive(_, _)
GetChildrenOfInactive(t, n) ==
  LET below == IF VirtualOf(t, n) # {} THEN SetToSeq(VirtualOf(t, n)) ELSE GetChildren(t, n)
  IN  CASE t.is[n].tag = "page" /\ t.is[n].page # CurrentPage -> <<>>
        [] /\ IsFrame(t, n) /\ t.is[n].tag = "component"
           /\ ((t.is[n].active /\ ~t.is[n].internal) \/ t.is[n].virtual) -> <<n>>
        [] OTHER -> FlattenSeq([i \in DOMAIN below |-> GetChildrenOfInactive(t, below[i])])

\* The nodes of components that n stands for.
RECURSIVE GetFrameNodeChildren(_, _)
GetFrameNodeChildren(t, n) ==
  LET below == IF IsFrame(t, n) /\ VirtualOf(t, n) # {} THEN SetToSeq(VirtualOf(t, n))
               ELSE GetChildren(t, n)
  IN  CASE IsFrame(t, n) /\ ~t.is[n].virtual /\ ~t.is[n].active -> <<>>
        [] IsFrame(t, n) /\ t.is[n].tag = "page" /\ t.is[n].page # CurrentPage -> <<>>
        [] /\ IsFrame(t, n) /\ t.is[n].tag = "component"
           /\ (~t.is[n].internal \/ t.is[n].virtual) -> <<n>>
        [] OTHER -> FlattenSeq([i \in DOMAIN below |-> GetFrameNodeChildren(t, below[i])])

\* The ids of the children an element names.
UpdateChildrenOfAccessibilityElementInfo(t, n) ==
  LET below == IF VirtualOf(t, n) # {} THEN SetToSeq(VirtualOf(t, n)) ELSE GetChildren(t, n)
  IN  FlattenSeq([i \in DOMAIN below |-> GetFrameNodeChildren(t, below[i])])

\* The nearest frame node above; a first virtual node has its own parent.
RECURSIVE ParentAbove(_, _)
ParentAbove(t, n) ==
  CASE n = 0 -> IdNone
    [] /\ n # 0 /\ IsFrame(t, n) /\ t.is[n].tag \notin {"page", "stage"} /\ ~t.is[n].levelNo -> n
    [] OTHER -> ParentAbove(t, t.parent[n])

GetParentId(t, n) == IF IsFrame(t, n) /\ t.is[n].virtual THEN t.parent[n]
                     ELSE ParentAbove(t, t.parent[n])

-----------------------------------------------------------------------------
RECURSIVE Below(_, _)
Below(t, n) ==
  LET below == IF VirtualOf(t, n) # {} THEN VirtualOf(t, n) ELSE ToSet(GetChildren(t, n))
  IN  below \cup UNION {Below(t, c) : c \in below}

\* The node a search for id ends at: 0 is none.
GetFramenodeByAccessibilityId(t, id) ==
  IF id = 1 \/ (id \in Below(t, 1) /\ IsFrame(t, id) /\ ~t.is[id].levelNo) THEN id ELSE 0

RECURSIVE RealBelow(_, _)
RealBelow(t, n) == {n} \cup UNION {RealBelow(t, c) : c \in ToSet(GetChildren(t, n))}

GetInspectorById(t, root, id) == IF id \in RealBelow(t, root) /\ IsFrame(t, id) THEN id ELSE 0

UpdateAccessibilityElementInfo(t, n) ==
  [id |-> n, parent |-> GetParentId(t, n),
   children |-> IF t.is[n].group /\ n # 1 THEN <<>>
                ELSE UpdateChildrenOfAccessibilityElementInfo(t, n)]

\* The elements published from id on, each before its children.
RECURSIVE SearchElementInfoByAccessibilityIdNG(_, _)
SearchElementInfoByAccessibilityIdNG(t, id) ==
  LET node == GetFramenodeByAccessibilityId(t, id)
      info == UpdateAccessibilityElementInfo(t, node)
  IN  IF node = 0 THEN <<>>
      ELSE <<info>> \o FlattenSeq([i \in DOMAIN info.children |->
                                     SearchElementInfoByAccessibilityIdNG(t, info.children[i])])

-----------------------------------------------------------------------------
\* The inspector's tree, of real children, inactive nodes left out with their trees.
RECURSIVE GetChildFromNode(_, _)
GetChildFromNode(t, n) ==
  LET below == GetChildren(t, n)
  IN  CASE IsFrame(t, n) /\ t.is[n].tag = "page" /\ t.is[n].page # CurrentPage -> <<>>
        [] IsFrame(t, n) /\ t.is[n].tag = "component" /\ ~t.is[n].internal -> <<n>>
        [] OTHER -> FlattenSeq([i \in DOMAIN below |-> GetChildFromNode(t, below[i])])

RECURSIVE GetComponents(_, _, _)
GetComponents(t, above, n) ==
  LET node == GetInspectorById(t, above, n)
      below == GetChildren(t, n)
      children == FlattenSeq([i \in DOMAIN below |-> GetChildFromNode(t, below[i])])
  IN  IF node = 0 \/ ~t.is[n].active THEN {}
      ELSE {n} \cup UNION {GetComponents(t, n, children[i]) : i \in DOMAIN children}

-----------------------------------------------------------------------------
\* The nodes from n up to the root.
RECURSIVE Up(_, _)
Up(t, n) == IF n = 0 THEN {} ELSE {n} \cup Up(t, t.parent[n])

Above(t, n) == Up(t, n) \ {n}

\* Should a screen reader be told of n?
Presented(t, n) ==
  LET path == Up(t, n)
      frames == {x \in path : IsFrame(t, x)}
      named == {x \in frames : t.is[x].tag = "component" /\ (t.is[x].virtual \/ ~t.is[x].internal)}
  IN  \/ n = 1
      \/ /\ n \in named
         /\ \A x \in frames : t.is[x].active \/ t.is[x].virtual
         /\ \A x \in frames : t.is[x].tag = "page" => t.is[x].page = CurrentPage
         /\ \A x \in named : ~t.is[x].levelNo
         /\ \A x \in named \ {n} : ~t.is[x].group
         /\ \A x \in path \ {1} : t.is[x].virtual \/ VirtualOf(t, t.parent[x]) = {}

\* The search publishes exactly the nodes to be presented, each once, however pages,
\* groups, virtual trees and hidden nodes are nested; what it publishes an inspector
\* sees too, but for virtual trees.
PublishesThePage(t) ==
  LET infos == SearchElementInfoByAccessibilityIdNG(t, 1)
      ids == {infos[i].id : i \in DOMAIN infos}
  IN  /\ ids = {n \in Nodes(t) : Presented(t, n)}
      /\ Len(infos) = Cardinality(ids)
      /\ \A n \in ids : (\A x \in Up(t, n) : ~t.is[x].virtual) => n \in GetComponents(t, 1, 1)

\* An element names as its parent the element that names it as its child, unless an
\* internal node is between them, or it is in a virtual tree.
ParentsAgree(t) ==
  LET infos == SearchElementInfoByAccessibilityIdNG(t, 1) IN
  \A i, j \in DOMAIN infos :
    /\ infos[j].id \in ToSet(infos[i].children)
    /\ \A x \in Above(t, infos[j].id) \ Up(t, infos[i].id) : ~(IsFrame(t, x) /\ t.is[x].internal)
    => infos[j].parent = infos[i].id
=============================================================================
