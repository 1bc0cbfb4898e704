--------------------------- MODULE MCOutputDevice ---------------------------
(* Four requests on two chunks: r1 and r2 write chunk 0 to two files, one  *)
(* without and one with its mask; r3 asks for the file of r2 again, for    *)
(* chunk 1 (a name clash); r4 repeats r1.                                  *)
EXTENDS OutputDevice, TLC
CONSTANTS r1, r2, r3, r4, f1, f2

MCChunkOf  == r1 :> 0 @@ r2 :> 0 @@ r3 :> 1 @@ r4 :> 0
MCFileOf   == r1 :> f1 @@ r2 :> f2 @@ r3 :> f2 @@ r4 :> f1
MCPriority == r1 :> 0 @@ r2 :> 1 @@ r3 :> 1 @@ r4 :> 0
=============================================================================
