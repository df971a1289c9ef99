----------------------------- MODULE BlockDevice -----------------------------
(***************************************************************************)
(* What the disk driver promises the file system: devices that are         *)
(* separate stores of sectors.  A request moves its sectors between the    *)
(* device it names and the caller's buffer, one after the other, and is    *)
(* answered when it has moved them all; DEV_IOCTL is answered with where   *)
(* the device is and how large.  Nothing else changes a sector or a        *)
(* buffer.                                                                 *)
(***************************************************************************)
EXTENDS Naturals

CONSTANTS NoRequest, Buffers

VARIABLES
  part,     \* where the devices are, and their sizes
  content,  \* what they hold
  mem,      \* the caller's buffer
  geo,      \* the answer to DEV_IOCTL
  req,      \* the request: type, device, first sector, sectors
  done      \* sectors moved

vars == <<part, content, mem, geo, req, done>>

Init == /\ \A d \in DOMAIN part : \A s \in DOMAIN content[d] : content[d][s] = 0
        /\ mem \in Buffers
        /\ req = NoRequest /\ done = 0

Ask ==
  /\ req = NoRequest /\ req' # NoRequest /\ done' = 0
  /\ req'.n > 0 => req'.at + req'.n <= part[req'.dev].size
  /\ req'.type = "DEV_IOCTL" => geo' = part[req'.dev]
  /\ mem' \in Buffers
  /\ UNCHANGED <<part, content>>

Move ==
  /\ req # NoRequest /\ done < req.n /\ done' = done + 1
  /\ CASE req.type = "DEV_READ" ->
            /\ mem' = [mem EXCEPT ![done] = content[req.dev][req.at + done]]
            /\ UNCHANGED content
       [] req.type = "DEV_WRITE" ->
            /\ content' = [content EXCEPT ![req.dev][req.at + done] = mem[done]]
            /\ UNCHANGED mem
  /\ UNCHANGED <<part, geo, req>>

Answer ==
  /\ req # NoRequest /\ done = req.n
  /\ req' = NoRequest /\ done' = 0 /\ UNCHANGED <<part, content, mem, geo>>

Next == Ask \/ Move \/ Answer

Spec == Init /\ [][Next]_vars
=============================================================================
