------------------------------ MODULE MCEmerge ------------------------------
(* Emerge on a line of blocks: a chunk of two and a chunk of one, each with a block of the *)
(* other in its border; a chunk that is not fully inside the mapgen limits; and a block    *)
(* over the limit of positions.                                                            *)
EXTENDS Emerge

MCChunk(p) == CASE p \in {1, 2} -> "west" [] p = 3 -> "east" [] p = 4 -> "far" [] OTHER -> "over"
MCArea(c) == CASE c = "west" -> {1, 2, 3} [] c = "east" -> {2, 3} [] c = "far" -> {4} [] OTHER -> {5}
=============================================================================
