----------------------------- MODULE FileStore -----------------------------
(***************************************************************************)
(* What the file system promises, said without tables, bitmaps and         *)
(* sectors: files have names and identities; a name is given to a file and *)
(* taken from it one at a time, no file has two names, and the name of a   *)
(* file somebody uses is not taken away.  When a request is answered, the  *)
(* name leads where it shall.  Losing power changes no name.               *)
(***************************************************************************)
EXTENDS Functions, FiniteSets

CONSTANTS Names, Ids

VARIABLES
  files,    \* the name of each file: a function from names to identities
  inUse,    \* the files some process has open
  asked,    \* the request that creates or removes a name, if there is one: the name and
            \* the identity it shall lead to, or none of them
  boots     \* how often the machine was started again

vars == <<files, inUse, asked, boots>>

Requests == [name : Names, id : Ids \union {0}]

Init == /\ \E T \in SUBSET Names : files \in Injection(T, Ids)
        /\ inUse = {} /\ asked = {}

\* The request r has been done.
Done(r) ==
  IF r.name \in DOMAIN files THEN files[r.name] = r.id ELSE r.id \notin Ids

\* A request ends where its name leads where it shall.
Answered == asked' = asked \/ (asked' = {} /\ \A r \in asked : Done(r)')

Create(n, id) ==
  /\ asked = {[name |-> n, id |-> id]} /\ n \notin DOMAIN files /\ id \in Ids \ Range(files)
  /\ files' = [m \in DOMAIN files \union {n} |-> IF m = n THEN id ELSE files[m]]
  /\ Answered /\ UNCHANGED <<inUse, boots>>

Unlink(n) ==
  /\ \E r \in asked : r.name = n /\ r.id \notin Ids
  /\ n \in DOMAIN files /\ files[n] \notin inUse
  /\ files' = Restrict(files, DOMAIN files \ {n})
  /\ Answered /\ UNCHANGED <<inUse, boots>>

Answer == asked # {} /\ asked' = {} /\ Answered /\ UNCHANGED <<files, inUse, boots>>

\* Processes open and close files, one at a time, and ask for names.
Use ==
  /\ asked = {} /\ asked' \in SUBSET Requests /\ Cardinality(asked') <= 1
  /\ inUse' \subseteq Ids /\ UNCHANGED <<files, boots>>

\* The machine is started again, whatever was asked.
Restart == boots' # boots /\ asked' = {} /\ inUse' = {} /\ UNCHANGED files

Next == \/ Use \/ Answer \/ Restart
        \/ \E n \in Names, id \in Ids : Create(n, id)
        \/ \E n \in Names : Unlink(n)

Spec == Init /\ [][Next]_vars
=============================================================================
