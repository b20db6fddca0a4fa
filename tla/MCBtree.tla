------------------------------ MODULE MCBtree ------------------------------
(* Keys 1 to NKeys, all but one of them of size 1.  Addresses are no more   *)
(* than names: states are told apart by where in the tree a node is.        *)
EXTENDS Btree
CONSTANTS NKeys, Large, LargeSize
MCKeys == 1..NKeys
MCSize == [k \in 1..NKeys |-> IF k = Large THEN LargeSize ELSE 1]

Place(off) == SelectInSeq(Leaves, LAMBDA l : l = off)
Shape == LET down[i \in 0..levels, x \in DOMAIN node] ==
               IF i = levels
               THEN <<node[x].slots, Place(node[x].next), Place(node[x].prev)>>
               ELSE <<KeysOf(node[x].slots), down[i + 1, node[x].last],
                      [j \in DOMAIN node[x].slots |-> down[i + 1, node[x].slots[j].adr]]>>
         IN  down[0, root]
View == <<Shape, levels, nnodes, failed, it.cur, it.fresh,
          IF it.off = NIL THEN -1 ELSE IF it.fresh THEN Place(it.off) ELSE 0>>
=============================================================================
