--------------------------- MODULE BuddyAllocator ---------------------------
(***************************************************************************)
(* The allocator of emilib's shared memory (src/src/emi_shbuf.c): a binary *)
(* tree of struct emi_buf, one node per block that can be handed out.      *)
(* Node 1 is emi_buf_vector[0], the block of order MaxOrder; the children  *)
(* of node b are 2*b and 2*b + 1 (SON, DAUGHTER).                          *)
(*                                                                         *)
(* The order of a node is the order of the largest free block below it, or *)
(* FLIP_ORDER of its own order when it is allocated or when nothing below  *)
(* it is free.                                                             *)
(*                                                                         *)
(* emi_alloc and emi_free touch the tree under emi_buf_lock only, so each  *)
(* is one action.                                                          *)
(***************************************************************************)
EXTENDS Integers, Sequences, SequencesExt

CONSTANTS
  MaxOrder,  \* EMI_ORDER_NUM
  Unit,      \* 1 << BUDDY_SHIFT, the bytes of a block of order 0
  Header,    \* ADDR_BUF_OFFSET, the bytes in front of an area that name its node
  Sizes,     \* the sizes that are asked for
  Nested     \* whether areas are freed in the reverse order of their allocation

ASSUME SizesAssumption ==
  /\ MaxOrder \in Nat /\ Unit \in Nat \ {0} /\ Header \in Nat
  /\ Sizes \subseteq Nat
ASSUME NestedAssumption == Nested \in BOOLEAN

Nodes == 1 .. 2 ^ (MaxOrder + 1) - 1

\* The order of the block of a node, and the smallest blocks it covers.
Level(b) == CHOOSE l \in 0 .. MaxOrder : b \in 2 ^ (MaxOrder - l) .. 2 ^ (MaxOrder - l + 1) - 1
Covers(b) == LET w == 2 ^ Level(b) IN (b * w) .. (b * w + w - 1)

VARIABLES
  order,   \* order[b], emi_buf.order of every node
  live     \* the areas in use, with their nodes, in the order of allocation

vars == <<order, live>>

\* Mutant: size where the code has size - 1.
size_to_order_plus(size) ==
  LET units == size \div Unit
      bits[n \in 0 .. units] == IF n = 0 THEN 0 ELSE 1 + bits[n \div 2]
  IN  bits[units]

\* size_to_order: the bits of the number of whole units below size - 1.
size_to_order(size) ==
  LET units == (size - 1) \div Unit
      bits[n \in 0 .. units] == IF n = 0 THEN 0 ELSE 1 + bits[n \div 2]
  IN  bits[units]

FLIP_ORDER(o) == -o - 1
Parent(b) == b \div 2
Sibling(b) == IF Parent(b) = Parent(b + 1) THEN b + 1 ELSE b - 1

-----------------------------------------------------------------------------
\* Mutant: the daughter is not tested for a block of order o.
DescendUntested(b, o) ==
  IF order[2 * b] >= o /\ order[2 * b] <= order[2 * b + 1] THEN 2 * b ELSE 2 * b + 1

\* One level of get_emi_buf: of the children that have a block of order o the
\* one whose largest block is smaller, the son first; the daughter if none has.
Descend(b, o) ==
  LET fitting == {c \in {2 * b, 2 * b + 1} : order[c] >= o}
  IN  IF fitting = {} THEN 2 * b + 1
      ELSE CHOOSE c \in fitting : \A d \in fitting \ {c} :
             order[c] < order[d] \/ (order[c] = order[d] /\ c < d)

\* Mutant: the descent stops one level early.
FitEarly(o) ==
  LET down[l \in o .. MaxOrder] == IF l = MaxOrder THEN 1 ELSE Descend(down[l + 1], o)
  IN  IF o >= MaxOrder THEN 1 ELSE down[o + 1]

\* get_emi_buf, once the root is known to have a block of order o.
Fit(o) ==
  LET down[l \in o .. MaxOrder] == IF l = MaxOrder THEN 1 ELSE Descend(down[l + 1], o)
  IN  IF o > MaxOrder THEN 1 ELSE down[o]

\* Mutant: free siblings are not merged.
ParentOrderUnmerged(tree, b, l) ==
  LET mine == tree[b]
      other == tree[Sibling(b)]
  IN  IF other < 0 /\ mine < 0 THEN FLIP_ORDER(l) ELSE Max({other, mine})

\* One level of update_buf_order: the new order of the parent of b, of order l.
ParentOrder(tree, b, l) ==
  LET mine == tree[b]
      other == tree[Sibling(b)]
  IN  IF other < 0 /\ mine < 0 THEN FLIP_ORDER(l)
      ELSE IF other = mine THEN tree[Parent(b)] + 1
      ELSE Max({other, mine})

\* update_buf_order: the tree once the ancestors of b, of order o, are updated.
Updated(tree, b, o) ==
  LET above[l \in o .. MaxOrder] == IF l = o THEN b ELSE Parent(above[l - 1])
      up[l \in o .. MaxOrder] ==
        IF l = o THEN tree
        ELSE [up[l - 1] EXCEPT ![above[l]] = ParentOrder(up[l - 1], above[l - 1], l)]
  IN  IF o > MaxOrder THEN tree ELSE up[MaxOrder]

\* Set the order of a block and of its ancestors.
SetOrder(b, o, new) == order' = Updated([order EXCEPT ![b] = new], b, o)

-----------------------------------------------------------------------------
\* __init_emi_buf
Init ==
  /\ order = [b \in Nodes |-> Level(b)]
  /\ live = <<>>

\* emi_alloc; the size of a block includes the header.
Alloc(size) ==
  LET o == size_to_order(size + Header)
      buf == Fit(o)
  IN  /\ size > 0 /\ order[1] >= o
      /\ live' = Append(live, [buf |-> buf, size |-> size])
      /\ SetOrder(buf, o, FLIP_ORDER(o))

\* emi_alloc returns NULL.
Refuse(size) ==
  /\ size = 0 \/ order[1] < size_to_order(size + Header)
  /\ UNCHANGED vars

\* emi_free; the order of the block is read from its node.
Free(i) ==
  LET buf == live[i].buf
      o == FLIP_ORDER(order[buf])
  IN  /\ Nested => i = Len(live)
      /\ SetOrder(buf, o, o)
      /\ live' = RemoveAt(live, i)

Next ==
  \/ \E size \in Sizes : Alloc(size) \/ Refuse(size)
  \/ \E i \in DOMAIN live : Free(i)

Spec == Init /\ [][Next]_vars

\* Whether all areas that are asked for get blocks of one order, as those do
\* that take a unit at most, with their header.
OneOrder ==
  \A s, t \in Sizes \ {0} : size_to_order(s + Header) = size_to_order(t + Header)

-----------------------------------------------------------------------------
\* The blocks of order 0 that are free, and whether an area of a size fits in them.
FreeLeaves == Covers(1) \ UNION {Covers(live[i].buf) : i \in DOMAIN live}
Fits(size) ==
  \E b \in Nodes : size + Header <= Unit * 2 ^ Level(b) /\ Covers(b) \subseteq FreeLeaves

\* The tree is typed and the node of an area in use is marked with its order.
TypeOK ==
  /\ order \in [Nodes -> Int]
  /\ live \in Seq([buf : Nodes, size : Nat])
  /\ \A i \in DOMAIN live : order[live[i].buf] = FLIP_ORDER(Level(live[i].buf))

\* No two areas in use overlap: memory handed out is not handed out again
\* before it is freed (emi_shbuf.c:25-48, 83-94).
NoOverlap ==
  \A i, j \in DOMAIN live :
    i # j => Covers(live[i].buf) \cap Covers(live[j].buf) = {}

\* An area gets the smallest block that holds it and its header, and with it
\* no byte of another area (emi_shbuf.c:103-114, 163, 170-172).
SmallestBlock ==
  \A i \in DOMAIN live :
    LET l == Level(live[i].buf)
        bytes == live[i].size + Header
    IN  bytes <= Unit * 2 ^ l /\ (l > 0 => bytes > Unit * 2 ^ (l - 1))

\* A request is refused exactly when no free block holds it: the orders of the
\* ancestors neither hide a free block nor promise one that is not there
\* (emi_shbuf.c:27-28, 50-65).
RefusesWhenFull ==
  \A size \in Sizes \ {0} : order[1] < size_to_order(size + Header) <=> ~Fits(size)

\* When every area was freed the tree is the initial one: free blocks are
\* merged again (emi_shbuf.c:56-62, test_buddy_algorithm.cpp:258, 339).
AllMerged == live = <<>> => \A b \in Nodes : order[b] = Level(b)
=============================================================================
