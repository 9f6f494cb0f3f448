--------------------------- MODULE MCLimbKernels ---------------------------
(***************************************************************************)
(* Instances of LimbKernels for TLC: limbs of two bits, vectors of up to   *)
(* six limbs at three places in memory.                                    *)
(***************************************************************************)
EXTENDS LimbKernels

Place(k) == 6 * k

MCAddresses == 0..17

\* Pairs that stop, pass on and make a carry, and a borrow.
MCLimbPairs == {<<0, 1>>, <<3, 0>>, <<3, 3>>}

MCCalls ==
  {c \in
     \* The result apart from the operands or on either or both of them.
     [op : {"add", "sub"}, left : {Place(1)}, right : {Place(1), Place(2)},
      res : {Place(0), Place(1), Place(2)}, count : 0..6, shift : {0}]
     \* The result apart from the source or up to two limbs away.
     \cup [op : {"lshift", "rshift"}, left : {Place(1)}, right : {Place(1)},
           res : {Place(0)} \cup (Place(1) - 2)..(Place(1) + 2),
           count : 0..5, shift : 0..(W - 1)]
     \cup [op : {"cmp"}, left : {Place(1)}, right : {Place(2)},
           res : {Place(0)}, count : 0..4, shift : {0}]
   : Legal(c)}
=============================================================================
