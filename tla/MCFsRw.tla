------------------------------- MODULE MCFsRw -------------------------------
(***************************************************************************)
(* FsRw for TLC: two files of three sectors, the first opened twice.         *)
(***************************************************************************)
EXTENDS FsRw

CONSTANTS d1, d2, d3

\* n bytes that tell their places in the writer's buffer.
Bytes(n) == [j \in 1 .. n |-> j]

MCWriteData == {Bytes(1), Bytes(5)}
MCLongData  == {Bytes(3), Bytes(8)}

MCFileOf == [d \in Descs |-> IF d = d3 THEN 1 ELSE 0]
=============================================================================
