------------------------------ MODULE BPlusTree -----------------------------
(***************************************************************************)
(* The B+ tree index (storage/index/b_plus_tree.cpp) with its pages        *)
(* (storage/page/b_plus_tree_leaf_page.cpp, _internal_page.cpp) and its    *)
(* iterator.                                                               *)
(*                                                                         *)
(* The tree has no latches and one caller at a time.  Insert and Remove    *)
(* are loops: a call is one step for its descent and the change of the     *)
(* leaf, and one step for each turn of the split or underflow loop, so     *)
(* that the states in which a failing FetchPage or NewPage ends a call by  *)
(* an exception are states of the model.                                   *)
(*                                                                         *)
(* A leaf is its keys: key and RID always move together.  An internal page *)
(* of size n has n kids and n - 1 keys: keys[i] is KeyAt(i) (KeyAt(0) is   *)
(* unused) and kids[i] is ValueAt(i - 1).  Page ids are only compared for  *)
(* equality, so NewPage may reuse a deleted one.                           *)
(***************************************************************************)
EXTENDS Integers, FiniteSets, SequencesExt

CONSTANTS Keys,        \* keys of the index, integers
          Pages,       \* page ids, integers
          LeafMax,     \* leaf_max_size_
          InternalMax  \* internal_max_size_

\* The constructor takes any sizes.  With smaller ones a leaf may stay empty
\* (LeafMax = 1) or lack a sibling to merge with (InternalMax = 2).
ASSUME SizeAssumption ==
  /\ Keys \subseteq Int /\ Pages \subseteq Nat
  /\ LeafMax \in Nat /\ LeafMax >= 2
  /\ InternalMax \in Nat /\ InternalMax >= 3

VARIABLES root,      \* root_page_id_
          nodes,     \* content of the pages of the tree
          op,        \* where the running call is
          stored,    \* history: the keys inserted and not removed since
          misrouted  \* history: BorrowInternalRight has run

treeVars == <<root, nodes, op, stored, misrouted>>

None == -1  \* INVALID_PAGE_ID

\* The content of a page id that is not allocated.
Free == [leaf |-> FALSE, keys |-> <<>>, kids |-> <<>>, parent |-> None, next |-> None]

LeafPage(keys, parent, next) ==
  [leaf |-> TRUE, keys |-> keys, kids |-> <<>>, parent |-> parent, next |-> next]

InternalPage(keys, kids, parent) ==
  [leaf |-> FALSE, keys |-> keys, kids |-> kids, parent |-> parent, next |-> None]

FreePages == {p \in Pages : nodes[p] = Free}

NewPage == CHOOSE p \in FreePages : \A q \in FreePages : p <= q

Idle == [pc |-> "idle"]
Splitting(p) == [pc |-> "split", page |-> p]
Raising(l, k, r) == [pc |-> "raise", left |-> l, key |-> k, right |-> r]
Underflow(p) == [pc |-> "underflow", page |-> p]

TreeInit ==
  /\ root = None
  /\ nodes = [p \in Pages |-> Free]
  /\ op = Idle
  /\ stored = {}
  /\ misrouted = FALSE

Size(n) == IF n.leaf THEN Len(n.keys) ELSE Len(n.kids)

MaxSize(n) == IF n.leaf THEN LeafMax ELSE InternalMax

MinSize(n) == IF n.leaf THEN LeafMax \div 2 ELSE (InternalMax + 1) \div 2

-----------------------------------------------------------------------------
(* Pages.  The Move operations of the code change two pages; here they     *)
(* return the pair of them.                                                *)

\* The binary search for the first position whose key is at least k.
KeyIndex(keys, k) ==
  LET n == Len(keys)
      search[l \in 0..n, r \in 0..n] ==
        IF l >= r THEN l
        ELSE LET mid == l + (r - l) \div 2
             IN  IF keys[mid + 1] < k THEN search[mid + 1, r] ELSE search[l, mid]
  IN  search[0, n]

InLeaf(keys, k) ==
  LET i == KeyIndex(keys, k) IN i < Len(keys) /\ keys[i + 1] = k

LeafInsert(keys, k) == InsertAt(keys, KeyIndex(keys, k) + 1, k)

LeafRemove(keys, k) == RemoveAt(keys, KeyIndex(keys, k) + 1)

LeafMoveHalfTo(from, to) ==
  LET half == Len(from.keys) \div 2
  IN  << [from EXCEPT !.keys = SubSeq(@, 1, half)],
         [to EXCEPT !.keys = SubSeq(from.keys, half + 1, Len(from.keys))] >>

\* Mistake: the recipient keeps its link to the page that goes away.
LeafMoveAllKeepingNext(from, to) ==
  << Free, [to EXCEPT !.keys = @ \o from.keys] >>

\* The page moved from is deleted by the caller in the same step.
LeafMoveAllTo(from, to) ==
  << Free, [to EXCEPT !.keys = @ \o from.keys, !.next = from.next] >>

LeafMoveFirstToEndOf(from, to) ==
  << [from EXCEPT !.keys = Tail(@)], [to EXCEPT !.keys = Append(@, Head(from.keys))] >>

LeafMoveLastToFrontOf(from, to) ==
  << [from EXCEPT !.keys = Front(@)], [to EXCEPT !.keys = <<Last(from.keys)>> \o @] >>

\* Position of page p among the kids; the code's index is one less.
ValueIndex(n, p) == SelectInSeq(n.kids, LAMBDA q : q = p)

\* Mistake: a key equal to a separator goes to the left of it.
InternalLookupLeft(n, k) ==
  n.kids[Min({i \in DOMAIN n.keys : k <= n.keys[i]} \cup {Len(n.kids)})]

\* The kid before the first separator above k, else the last kid.
InternalLookup(n, k) ==
  n.kids[Min({i \in DOMAIN n.keys : k < n.keys[i]} \cup {Len(n.kids)})]

PopulateNewRoot(old, k, new) == InternalPage(<<k>>, <<old, new>>, None)

InsertNodeAfter(n, old, k, new) ==
  LET i == ValueIndex(n, old)
  IN  [n EXCEPT !.keys = InsertAt(@, i, k), !.kids = InsertAt(@, i + 1, new)]

\* Removes the separator in front of kid i, i > 1, together with the kid.
RemoveKid(n, i) == [n EXCEPT !.keys = RemoveAt(@, i - 1), !.kids = RemoveAt(@, i)]

InternalMoveHalfTo(from, to) ==
  LET half == Len(from.kids) \div 2
  IN  << [from EXCEPT !.keys = SubSeq(@, 1, half - 1), !.kids = SubSeq(@, 1, half)],
         [to EXCEPT !.keys = SubSeq(from.keys, half + 1, Len(from.keys)),
                    !.kids = SubSeq(from.kids, half + 1, Len(from.kids))] >>

InternalMoveAllTo(from, to, middle) ==
  << Free, [to EXCEPT !.keys = @ \o <<middle>> \o from.keys, !.kids = @ \o from.kids] >>

InternalMoveFirstToEndOf(from, to, middle) ==
  << [from EXCEPT !.keys = Tail(@), !.kids = Tail(@)],
     [to EXCEPT !.keys = Append(@, middle), !.kids = Append(@, Head(from.kids))] >>

InternalMoveLastToFrontOf(from, to, middle) ==
  << [from EXCEPT !.keys = Front(@), !.kids = Front(@)],
     [to EXCEPT !.keys = <<middle>> \o @, !.kids = <<Last(from.kids)>> \o @] >>

\* Mistake: the moved kids keep the page they came from as their parent.
NoNewParent(pages, p) == pages

\* set_children_parent: every kid of page p names p as its parent.
SetChildrenParent(pages, p) ==
  [q \in Pages |-> IF q \in ToSet(pages[p].kids) THEN [pages[q] EXCEPT !.parent = p]
                   ELSE pages[q]]

-----------------------------------------------------------------------------
(* Search and iteration. *)

FindLeaf(k) ==
  LET down[p \in Pages] == IF nodes[p].leaf THEN p ELSE down[InternalLookup(nodes[p], k)]
  IN  down[root]

GetValue(k) == root # None /\ InLeaf(nodes[FindLeaf(k)].keys, k)

\* What operator++ reads from position i of leaf p to the end: the rest of
\* the leaf, then every following leaf from its position 0.
Scan(p, i) ==
  LET onward[q \in Pages \cup {None}] ==
        IF q = None THEN <<>> ELSE nodes[q].keys \o onward[nodes[q].next]
  IN  SubSeq(nodes[p].keys, i + 1, Len(nodes[p].keys)) \o onward[nodes[p].next]

\* Begin: from position 0 of the leftmost leaf.
ScanAll ==
  LET down[p \in Pages] == IF nodes[p].leaf THEN p ELSE down[Head(nodes[p].kids)]
  IN  IF root = None THEN <<>> ELSE Scan(down[root], 0)

\* Begin(key): from KeyIndex, or from the next leaf if that is past the end.
ScanFrom(k) ==
  IF root = None THEN <<>>
  ELSE LET leaf == FindLeaf(k)
           i == KeyIndex(nodes[leaf].keys, k)
       IN  IF i >= Len(nodes[leaf].keys)
           THEN IF nodes[leaf].next = None THEN <<>> ELSE Scan(nodes[leaf].next, 0)
           ELSE Scan(leaf, i)

-----------------------------------------------------------------------------
(* Insert. *)

\* No call is explored on a tree that BorrowInternalRight has misrouted.
Ready == op = Idle /\ ~misrouted

InsertEmpty(k) ==
  /\ Ready /\ root = None
  /\ root' = NewPage
  /\ nodes' = [nodes EXCEPT ![NewPage] = LeafPage(<<k>>, None, None)]
  /\ stored' = stored \cup {k}
  /\ UNCHANGED <<op, misrouted>>

InsertLeaf(k) ==
  /\ Ready /\ root # None
  /\ LET leaf == FindLeaf(k)
         keys == LeafInsert(nodes[leaf].keys, k)
     IN  /\ ~InLeaf(nodes[leaf].keys, k)
         /\ nodes' = [nodes EXCEPT ![leaf].keys = keys]
         /\ op' = IF Len(keys) > LeafMax THEN Splitting(leaf) ELSE Idle
  /\ stored' = stored \cup {k}
  /\ UNCHANGED <<root, misrouted>>

SplitLeaf ==
  /\ op.pc = "split" /\ nodes[op.page].leaf /\ FreePages # {}
  /\ LET p == op.page
         moved == LeafMoveHalfTo(nodes[p], LeafPage(<<>>, nodes[p].parent, nodes[p].next))
     IN  /\ nodes' = [nodes EXCEPT ![p] = [moved[1] EXCEPT !.next = NewPage],
                                   ![NewPage] = moved[2]]
         /\ op' = Raising(p, Head(moved[2].keys), NewPage)
  /\ UNCHANGED <<root, stored, misrouted>>

NewRoot ==
  /\ op.pc = "raise" /\ nodes[op.left].parent = None /\ FreePages # {}
  /\ nodes' = SetChildrenParent(
       [nodes EXCEPT ![NewPage] = PopulateNewRoot(op.left, op.key, op.right)],
       NewPage)
  /\ root' = NewPage
  /\ op' = Idle
  /\ UNCHANGED <<stored, misrouted>>

InsertIntoParent ==
  /\ op.pc = "raise" /\ nodes[op.left].parent # None
  /\ LET p == nodes[op.left].parent
         parent == InsertNodeAfter(nodes[p], op.left, op.key, op.right)
     IN  /\ nodes' = [nodes EXCEPT ![p] = parent, ![op.right].parent = p]
         /\ op' = IF Size(parent) > InternalMax THEN Splitting(p) ELSE Idle
  /\ UNCHANGED <<root, stored, misrouted>>

SplitInternal ==
  /\ op.pc = "split" /\ ~nodes[op.page].leaf /\ FreePages # {}
  /\ LET p == op.page
         moved == InternalMoveHalfTo(nodes[p], InternalPage(<<>>, <<>>, nodes[p].parent))
     IN  /\ nodes' = SetChildrenParent(
                       [nodes EXCEPT ![p] = moved[1], ![NewPage] = moved[2]], NewPage)
         /\ op' = Raising(p, nodes[p].keys[Len(nodes[p].kids) \div 2], NewPage)
  /\ UNCHANGED <<root, stored, misrouted>>

-----------------------------------------------------------------------------
(* Remove. *)

RemoveLast(k) ==
  /\ Ready /\ root # None
  /\ nodes[root].keys = <<k>> /\ nodes[root].leaf
  /\ nodes' = [nodes EXCEPT ![root] = Free]
  /\ root' = None
  /\ stored' = stored \ {k}
  /\ UNCHANGED <<op, misrouted>>

RemoveLeaf(k) ==
  /\ Ready /\ root # None
  /\ LET leaf == FindLeaf(k)
     IN  /\ InLeaf(nodes[leaf].keys, k)
         /\ leaf = root => Len(nodes[leaf].keys) > 1
         /\ nodes' = [nodes EXCEPT ![leaf].keys = LeafRemove(@, k)]
         /\ op' = IF leaf = root THEN Idle ELSE Underflow(leaf)
  /\ stored' = stored \ {k}
  /\ UNCHANGED <<root, misrouted>>

\* The page that may be too small, its parent, and its position in it.
Under == op.page
Parent == nodes[Under].parent
Position == ValueIndex(nodes[Parent], Under)
LeftSib == nodes[Parent].kids[Position - 1]
RightSib == nodes[Parent].kids[Position + 1]

Rich(p) == Size(nodes[p]) > MinSize(nodes[p])

RichLeft == Position > 1 /\ Rich(LeftSib)
RichRight == Position < Len(nodes[Parent].kids) /\ Rich(RightSib)

TooSmall ==
  /\ op.pc = "underflow"
  /\ Parent # None
  /\ Size(nodes[Under]) < MinSize(nodes[Under])

\* Mistake: the loop goes on with the same page instead of returning.
LargeEnoughLoops ==
  /\ op.pc = "underflow" /\ ~TooSmall
  /\ UNCHANGED treeVars

LargeEnough ==
  /\ op.pc = "underflow" /\ ~TooSmall
  /\ op' = Idle
  /\ UNCHANGED <<root, nodes, stored, misrouted>>

\* The two pages after an entry moved from sibling sib, and the separator
\* at position i of the parent set to key k.
Redistribute(sib, moved, i, k) ==
  [nodes EXCEPT ![sib] = moved[1], ![Under] = moved[2], ![Parent].keys[i] = k]

BorrowLeafLeft ==
  /\ TooSmall /\ nodes[Under].leaf /\ RichLeft
  /\ LET moved == LeafMoveLastToFrontOf(nodes[LeftSib], nodes[Under])
     IN  nodes' = Redistribute(LeftSib, moved, Position - 1, Head(moved[2].keys))
  /\ op' = Idle
  /\ UNCHANGED <<root, stored, misrouted>>

BorrowLeafRight ==
  /\ TooSmall /\ nodes[Under].leaf /\ ~RichLeft /\ RichRight
  /\ LET moved == LeafMoveFirstToEndOf(nodes[RightSib], nodes[Under])
     IN  nodes' = Redistribute(RightSib, moved, Position, Head(moved[1].keys))
  /\ op' = Idle
  /\ UNCHANGED <<root, stored, misrouted>>

BorrowInternalLeft ==
  /\ TooSmall /\ ~nodes[Under].leaf /\ RichLeft
  /\ LET sep == nodes[Parent].keys[Position - 1]
         moved == InternalMoveLastToFrontOf(nodes[LeftSib], nodes[Under], sep)
     IN  nodes' = SetChildrenParent(
           Redistribute(LeftSib, moved, Position - 1, Last(nodes[LeftSib].keys)), Under)
  /\ op' = Idle
  /\ UNCHANGED <<root, stored, misrouted>>

\* The new separator is KeyAt(1) of the sibling after the move, which was
\* KeyAt(2) before it; the separator of the moved kid was KeyAt(1).
BorrowInternalRight ==
  /\ TooSmall /\ ~nodes[Under].leaf /\ ~RichLeft /\ RichRight
  /\ LET sep == nodes[Parent].keys[Position]
         moved == InternalMoveFirstToEndOf(nodes[RightSib], nodes[Under], sep)
     IN  nodes' = SetChildrenParent(
           Redistribute(RightSib, moved, Position, Head(moved[1].keys)), Under)
  /\ op' = Idle
  /\ misrouted' = TRUE
  /\ UNCHANGED <<root, stored>>

\* The end of a merge under page p: a root with one kid gives way to it, a
\* page that became too small is next.
ShrinkRoot(pages, p) ==
  LET kid == Head(pages[p].kids)
  IN  /\ root' = kid
      /\ nodes' = [pages EXCEPT ![p] = Free, ![kid].parent = None]
      /\ op' = Idle

\* Mistake: a parent that became too small is left as it is.
AfterMergeStops(pages, p) ==
  IF pages[p].parent = None /\ Size(pages[p]) = 1
  THEN ShrinkRoot(pages, p)
  ELSE root' = root /\ nodes' = pages /\ op' = Idle

AfterMerge(pages, p) ==
  IF pages[p].parent = None /\ Size(pages[p]) = 1
  THEN ShrinkRoot(pages, p)
  ELSE /\ root' = root
       /\ nodes' = pages
       /\ op' = IF pages[p].parent # None /\ Size(pages[p]) < MinSize(pages[p])
                THEN Underflow(p) ELSE Idle

\* Position of the right one of the two pages that merge.
MergePosition == IF Position = 1 THEN 2 ELSE Position

MergeLeaf ==
  /\ TooSmall /\ nodes[Under].leaf /\ ~RichLeft /\ ~RichRight
  /\ LET i == MergePosition
         l == nodes[Parent].kids[i - 1]
         r == nodes[Parent].kids[i]
         moved == LeafMoveAllTo(nodes[r], nodes[l])
     IN  AfterMerge([nodes EXCEPT ![r] = moved[1], ![l] = moved[2],
                                  ![Parent] = RemoveKid(@, i)], Parent)
  /\ UNCHANGED <<stored, misrouted>>

MergeInternal ==
  /\ TooSmall /\ ~nodes[Under].leaf /\ ~RichLeft /\ ~RichRight
  /\ LET i == MergePosition
         l == nodes[Parent].kids[i - 1]
         r == nodes[Parent].kids[i]
         moved == InternalMoveAllTo(nodes[r], nodes[l], nodes[Parent].keys[i - 1])
     IN  AfterMerge(SetChildrenParent(
           [nodes EXCEPT ![r] = moved[1], ![l] = moved[2],
                         ![Parent] = RemoveKid(@, i)], l), Parent)
  /\ UNCHANGED <<stored, misrouted>>

-----------------------------------------------------------------------------
Continue ==
  \/ SplitLeaf \/ NewRoot \/ InsertIntoParent \/ SplitInternal
  \/ LargeEnough
  \/ BorrowLeafLeft \/ BorrowLeafRight \/ BorrowInternalLeft \/ BorrowInternalRight
  \/ MergeLeaf \/ MergeInternal

\* Insert of a key that is there, and Remove of one that is not, change nothing.
TreeNext ==
  \/ \E k \in Keys : InsertEmpty(k) \/ InsertLeaf(k) \/ RemoveLast(k) \/ RemoveLeaf(k)
  \/ Continue

\* A call runs to its end on its caller's thread; it waits for nobody.
TreeSpec == TreeInit /\ [][TreeNext]_treeVars /\ WF_treeVars(Continue)

-----------------------------------------------------------------------------
(* Properties. *)

PageIds == Pages \cup {None}

\* Every page of the tree is a leaf or an internal page with one key less
\* than kids, and the running call is at a point of its loop.
TreeTypeOK ==
  /\ root \in PageIds
  /\ stored \subseteq Keys
  /\ misrouted \in BOOLEAN
  /\ \/ op = Idle
     \/ op \in [pc : {"split", "underflow"}, page : Pages]
     \/ op \in [pc : {"raise"}, left : Pages, key : Keys, right : Pages]
  /\ \A p \in Pages :
       LET n == nodes[p]
       IN  /\ {n.parent, n.next} \subseteq PageIds
           /\ ToSet(n.keys) \subseteq Keys /\ ToSet(n.kids) \subseteq Pages
           /\ n.leaf => n.kids = <<>>
           /\ ~n.leaf => n = Free \/ Len(n.kids) = Len(n.keys) + 1

\* Between calls GetValue finds a key exactly when it was inserted and not
\* removed since: no sequence of splits, borrows and merges makes a key
\* unreachable (b_plus_tree.cpp, GetValue).
SearchFindsStored == op = Idle => \A k \in Keys : GetValue(k) <=> k \in stored

\* Sequence s lists the keys of set S in ascending order.
Lists(s, S) == ToSet(s) = S /\ \A i \in 1..(Len(s) - 1) : s[i] < s[i + 1]

\* The same on trees that no internal page has borrowed from the right in; and
\* there Begin(key) starts at the first stored key that is not below key, also
\* when that is in another leaf than the search ends in.
SearchExact ==
  ~misrouted =>
    /\ SearchFindsStored
    /\ op = Idle => \A k \in Keys : Lists(ScanFrom(k), {j \in stored : j >= k})

\* At every step of a call, and so also where an exception of the buffer pool
\* ends it, the chain of leaves from Begin() on holds the stored keys in
\* ascending order: iteration loses, repeats and misplaces none.
ChainExact == Lists(ScanAll, stored)

Used == Pages \ FreePages

\* Between calls parent pointers and kids agree, and every page that was
\* allocated and not deleted is reachable from the root: no page leaks and
\* none is used after its deletion.
LinksExact ==
  /\ TreeTypeOK
  /\ op = Idle =>
       /\ root # None => root \in Used /\ nodes[root].parent = None
       /\ \A p \in Used \ {root} :
            LET q == nodes[p].parent IN q \in Used /\ p \in ToSet(nodes[q].kids)
       /\ \A p \in Used : \A i \in DOMAIN nodes[p].kids :
            LET q == nodes[p].kids[i]
            IN  q \in Used /\ nodes[q].parent = p /\ ValueIndex(nodes[p], q) = i

\* Between calls all leaves have the same depth, and every page other than
\* the root has between the minimum and the maximum number of entries.
Balanced ==
  LET depth[p \in Pages] ==
        IF nodes[p].parent = None THEN 0 ELSE 1 + depth[nodes[p].parent]
      leaves == {p \in Used : nodes[p].leaf}
  IN  op = Idle =>
        /\ Cardinality({depth[p] : p \in leaves}) <= 1
        /\ \A p \in Used :
             /\ Size(nodes[p]) <= MaxSize(nodes[p])
             /\ p # root => Size(nodes[p]) >= MinSize(nodes[p])
             /\ p = root => Size(nodes[p]) >= IF nodes[p].leaf THEN 1 ELSE 2

\* Every call comes to an end: the split and the underflow loop climb the
\* tree and stop (b_plus_tree.cpp, the while (true) of Insert and Remove).
CallsEnd == (op # Idle) ~> (op = Idle)
=============================================================================
