----------------------------- MODULE MCDenoise -----------------------------
(* Picture sizes and sets of bad blocks for TLC.                           *)
EXTENDS Denoise

\* 9 x 9, 12 x 13 and 16 x 16 blocks: four halvings in each direction.
EvenSizes == {<<72, 8>>, <<96, 40>>, <<128, 64>>}

\* 17 x 9 blocks: five halvings across, four down.
WideSizes == {<<136, 8>>}

\* None, one in a corner or near the middle, two in opposite corners, a row, a
\* column, all, or three of every four neighbours.
SomeBad(x, y) ==
  {{}, Cells(x, y), {<<0, 0>>}, {<<0, 0>>, <<x - 1, y - 1>>},
   {<<x \div 2, y \div 2>>}, {<<(x - 1) \div 2, y - 1>>},
   {c \in Cells(x, y) : c[1] % 2 = 0 \/ c[2] % 2 = 0}}
  \cup {(0 .. x - 1) \X {k} : k \in 0 .. y - 1}
  \cup {{k} \X (0 .. y - 1) : k \in 0 .. x - 1}
=============================================================================
