----------------------------- MODULE DeviceTree -----------------------------
(***************************************************************************)
(* How the kernel walks the flattened device tree that the firmware hands  *)
(* over (src/arch/rv64/kernel/arch/dtb.cpp).                               *)
(*                                                                         *)
(* A tree is the sequence of its nodes in the order in which they begin,   *)
(* each with its depth; dtb is the token stream of that tree, possibly     *)
(* with no-op tokens in it, possibly cut off.  A token is one step.  The   *)
(* callback of _parse_dtb_node is the part of a step that appends to       *)
(* handed; what setup_memory_capabilities does with the node is in         *)
(* BootMemory.tla.                                                         *)
(***************************************************************************)
EXTENDS Naturals, Sequences, SequencesExt

CONSTANTS
  Trees,      \* the <<nodes, no-op positions, length kept>> of possible device trees
  PrunedName  \* the node whose children the callback refuses

VARIABLES
  tree,    \* the nodes: what the stream stands for
  dtb,     \* the tokens of the structure block
  src,     \* the position of the next token
  frames,  \* the activations of _parse_dtb_node
  handed,  \* the nodes given to the callback
  walking  \* "yes", "done", or "stopped" by a failed assertion

dtbVars == <<tree, dtb, src, frames, handed, walking>>

-----------------------------------------------------------------------------
(* The format, as the firmware writes it.                                  *)

Token(type, name, cells) == [type |-> type, name |-> name, cells |-> cells]
Nop == Token("nop", "", <<>>)
EndNode == Token("end_node", "", <<>>)

Prop(name, cells) == Token("prop", name, cells)
Node(depth, name, props) == [depth |-> depth, name |-> name, props |-> props]

DepthAfter(nodes, i) == IF i = Len(nodes) THEN 1 ELSE nodes[i + 1].depth

Serialised(nodes) ==
  FlattenSeq([i \in 1..Len(nodes) |->
    <<Token("begin", nodes[i].name, <<>>)>> \o nodes[i].props
      \o [j \in 1..(nodes[i].depth + 1 - DepthAfter(nodes, i)) |-> EndNode]])

WithNops(tokens, at) ==
  FlattenSeq([i \in 1..Len(tokens) |->
    IF i \in at THEN <<Nop, tokens[i]>> ELSE <<tokens[i]>>])

(* The token stream of one of the Trees.                                   *)
Stream(t) == SubSeq(WithNops(Serialised(t[1]), t[2]), 1, t[3])

(* The data of a property are cells, and a count of cells is one.          *)
ASSUME TreesAssumption ==
  \A t \in Trees :
    LET s == Stream(t)
    IN  /\ s \in Seq({s[i] : i \in 1..Len(s)})
        /\ \A i \in 1..Len(s) :
             s[i].type = "prop" =>
               /\ s[i].cells \in Seq(Nat)
               /\ s[i].name \in {"#address-cells", "#size-cells"} => s[i].cells # <<>>

-----------------------------------------------------------------------------
(* dtb.cpp                                                                 *)

Cells(addr, size) == [addr |-> addr, size |-> size]

DefaultCells == Cells(2, 1)

DtbInit ==
  /\ \E t \in Trees : tree = t[1] /\ dtb = Stream(t)
  /\ src = 1
  /\ frames = <<>>
  /\ handed = <<>>
  /\ walking = "yes"

More == src <= Len(dtb)

At(type) == More /\ dtb[src].type = type

Top == Last(frames)

(* for_each_dtb_prop: the properties behind the beginning of a node.       *)
PropsFrom(i) ==
  LET stops == {j \in i..Len(dtb) : dtb[j].type \notin {"prop", "nop"}}
      stop == IF stops = {} THEN Len(dtb) + 1 ELSE CHOOSE j \in stops : \A k \in stops : j <= k
      props[j \in i..stop] ==
        IF j = i THEN <<>>
        ELSE IF dtb[j - 1].type = "prop" THEN Append(props[j - 1], dtb[j - 1]) ELSE props[j - 1]
  IN  props[stop]

SkipNop ==
  /\ At("nop")
  /\ src' = src + 1
  /\ UNCHANGED <<tree, dtb, frames, handed, walking>>

(* The cells a node is read with are those its parent has given so far,    *)
(* and the callback is called unless it refused an ancestor.               *)
OwnCells == IF frames = <<>> THEN DefaultCells ELSE Top.cells
Offered == frames = <<>> \/ Top.go

(* Mutated form of Opened: the children inherit the cells of their parent. *)
OpenedInherits(name) ==
  [cells |-> OwnCells, go |-> Offered /\ name # PrunedName, inProps |-> TRUE]

Opened(name) == [cells |-> DefaultCells, go |-> Offered /\ name # PrunedName, inProps |-> TRUE]

(* A node begins: assert(address_cells > 0), then the callback.            *)
BeginNode ==
  LET name == dtb[src].name
      node == [name |-> name, cells |-> OwnCells, props |-> PropsFrom(src + 1)]
      above == IF frames = <<>> THEN <<>> ELSE Front(frames) \o <<[Top EXCEPT !.inProps = FALSE]>>
  IN  /\ At("begin")
      /\ IF OwnCells.addr > 0
         THEN /\ frames' = Append(above, Opened(name))
              /\ handed' = IF Offered THEN Append(handed, node) ELSE handed
              /\ src' = src + 1
              /\ UNCHANGED walking
         ELSE walking' = "stopped" /\ UNCHANGED <<src, frames, handed>>
      /\ UNCHANGED <<tree, dtb>>

(* What a property says about the cells of the children.                   *)
CellsSeen(c, prop) ==
  CASE prop.name = "#address-cells" -> [c EXCEPT !.addr = prop.cells[1]]
    [] prop.name = "#size-cells" -> [c EXCEPT !.size = prop.cells[1]]
    [] OTHER -> c

ReadProp ==
  /\ At("prop")
  /\ frames # <<>> /\ Top.inProps
  /\ frames' = Front(frames) \o <<[Top EXCEPT !.cells = CellsSeen(@, dtb[src])]>>
  /\ src' = src + 1
  /\ UNCHANGED <<tree, dtb, handed, walking>>

CloseNode ==
  /\ At("end_node")
  /\ frames # <<>>
  /\ frames' = Front(frames)
  /\ src' = src + 1
  /\ walking' = IF Len(frames) = 1 THEN "done" ELSE walking
  /\ UNCHANGED <<tree, dtb, handed>>

(* The stream ends inside a node: every activation reports it and returns. *)
UnexpectedEnd ==
  /\ ~More
  /\ frames' = <<>>
  /\ walking' = "done"
  /\ UNCHANGED <<tree, dtb, src, handed>>

DtbNext ==
  /\ walking = "yes"
  /\ SkipNop \/ BeginNode \/ ReadProp \/ CloseNode \/ UnexpectedEnd

-----------------------------------------------------------------------------
(* Properties.  The reference is the tree itself.                          *)

Parent(i) == CHOOSE j \in 1..(i - 1) :
               /\ tree[j].depth = tree[i].depth - 1
               /\ \A k \in (j + 1)..(i - 1) : tree[k].depth >= tree[i].depth

(* The last property of a parent that gives the cells counts.              *)
Given(props, name, default) ==
  LET said == SelectSeq(props, LAMBDA p : p.name = name)
  IN  IF said = <<>> THEN default ELSE Last(said).cells[1]

TreeCells(i) ==
  IF i = 1 THEN Cells(2, 1)
  ELSE LET above == tree[Parent(i)].props
       IN  Cells(Given(above, "#address-cells", 2), Given(above, "#size-cells", 1))

BelowPruned(i) ==
  \E j \in 1..(i - 1) :
    /\ tree[j].name = PrunedName
    /\ tree[j].depth < tree[i].depth
    /\ \A k \in (j + 1)..(i - 1) : tree[k].depth > tree[j].depth

TreeNodes ==
  LET kept == SelectSeq([i \in 1..Len(tree) |-> i], LAMBDA i : ~BelowPruned(i))
  IN  [n \in 1..Len(kept) |->
         [name |-> tree[kept[n]].name, cells |-> TreeCells(kept[n]), props |-> tree[kept[n]].props]]

(* Some node is read with no cells for its address.                        *)
NoAddressCells == \E i \in 1..Len(tree) : TreeCells(i).addr = 0

(* The walk over the tokens finds the tree: the callback sees every node   *)
(* once, in order, with all its properties and with the cell sizes its own *)
(* parent gives, wherever no-ops are and however deep the levels it has    *)
(* just left; nodes below "partitions" are left out; of a stream that is   *)
(* cut off it sees the first nodes (_parse_dtb_node, for_each_dtb_prop).   *)
WalkFindsTree ==
  /\ Len(handed) <= Len(TreeNodes)
  /\ \A n \in 1..Len(handed) :
       /\ handed[n].name = TreeNodes[n].name
       /\ handed[n].cells = TreeNodes[n].cells
       /\ IF n < Len(handed) THEN handed[n].props = TreeNodes[n].props
          ELSE IsPrefix(handed[n].props, TreeNodes[n].props)
  /\ walking = "done" /\ SelectSeq(dtb, LAMBDA t : t # Nop) = Serialised(tree) =>
       handed = TreeNodes
  /\ walking = "stopped" => NoAddressCells
=============================================================================
