------------------------------ MODULE FileBytes ------------------------------
(***************************************************************************)
(* What reading and writing a file promises: a file is a sequence of bytes, *)
(* a descriptor a position in it (include/fs.h, fd_pos).  A write puts the   *)
(* bytes it is given there and moves on; nothing else changes a byte of any  *)
(* file.  Reading moves the position too; what is between the end of a file  *)
(* and a position that was read beyond it, nobody has promised.              *)
(***************************************************************************)
EXTENDS Naturals, Sequences

CONSTANTS Files, Descs, FileOf

VARIABLES
  content,   \* per file: its bytes
  position,  \* per descriptor
  given      \* the bytes of the last step if it was a write, or <<>>

vars == <<content, position, given>>

Init == /\ content = [f \in Files |-> <<>>]
        /\ position = [d \in Descs |-> 0]
        /\ given = <<>>

Open(d) ==
  /\ position' = [position EXCEPT ![d] = Len(content[FileOf[d]])]
  /\ given' = <<>> /\ UNCHANGED content

\* data replaces what is at the position, and makes the file longer if need be.
Overwrite(s, pos, data) ==
  LET end == pos + Len(data) IN
  SubSeq(s, 1, pos) \o data \o SubSeq(s, end + 1, Len(s))

Write(d, data) ==
  /\ content' = [content EXCEPT ![FileOf[d]] = Overwrite(@, position[d], data)]
  /\ position' = [position EXCEPT ![d] = @ + Len(data)]
  /\ given' = data

\* new is old, made longer if it does not reach to pos.
Reaches(old, new, pos) ==
  /\ Len(new) = IF Len(old) < pos THEN pos ELSE Len(old)
  /\ SubSeq(new, 1, Len(old)) = old

Read(d) ==
  /\ position'[d] >= position[d]
  /\ position' = [position EXCEPT ![d] = position'[d]]
  /\ Reaches(content[FileOf[d]], content'[FileOf[d]], position'[d])
  /\ content' = [content EXCEPT ![FileOf[d]] = content'[FileOf[d]]]
  /\ given' = <<>>

Next == \E d \in Descs : Open(d) \/ Read(d) \/ Write(d, given')

Spec == Init /\ [][Next]_vars
=============================================================================
