----------------------------- MODULE MCPhysMem -----------------------------
(***************************************************************************)
(* Memory maps for model-checking the physical allocator.                  *)
(***************************************************************************)
EXTENDS PhysMemInv

\* The map of the blocks b, each <<type, gap before it, length>>, from page 1.
Layout1(a) == <<[type |-> a[1], base |-> 1 + a[2], length |-> a[3]]>>
Put(m, b) ==
  Append(m, [type |-> b[1], base |-> EntryEnd(m[Len(m)]) + b[2], length |-> b[3]])

Blocks(types, gaps, lengths) == types \X gaps \X lengths

One == {Layout1(a) : a \in Blocks({"usable", "other"}, {0}, 1 .. 8)}
Two == {Put(Layout1(a), b) : a \in Blocks({"usable"}, {0, 1}, 1 .. 6),
                             b \in Blocks(EntryTypes, {0, 1}, 1 .. 6)}
Three == {Put(Put(Layout1(a), b), c) :
            a \in Blocks({"usable"}, {0}, {1, 4, 5}),
            b \in Blocks({"usable", "other"}, {0, 1}, {1, 3}),
            c \in Blocks({"usable"}, {0}, {1, 5})}
Four == {Append(Put(Put(Layout1(<<"usable", 0, 2>>), <<"other", 0, 1>>),
                    <<"usable", 0, 2>>),
                [type |-> "usable", base |-> 8, length |-> 2])}

SmallMaps == {<<>>} \cup One \cup Two \cup Three \cup Four

ASSUME \A m \in SmallMaps : Fits32(m)
=============================================================================
