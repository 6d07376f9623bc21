--------------------------- MODULE MCPoseidonHash ---------------------------
(* One hash object (calls on others do not touch it), two elements, arrays   *)
(* of up to two handles that include freed and null ones.                   *)
EXTENDS PoseidonHash

CONSTANTS h1, x, y

MCHashes == {h1}
MCElements == {x, y}
MCArrays == {<<>>, <<x>>, <<x, y>>, <<x, "freed">>, <<y, "null">>}
MCCounts == {-1, 1, 2}
PositiveCounts == {1, 2}

==============================================================================
