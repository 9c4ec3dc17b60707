--------------------------- MODULE MCBufferSampling ---------------------------
(* Instances of BufferSampling: block a has two memory operations, the      *)
(* others have one.                                                         *)
EXTENDS BufferSampling

CONSTANTS a, b

MCMemops == [p \in Points |-> IF p[2] = a THEN 2 ELSE 1]
=============================================================================
