------------------------------ MODULE FileSet ------------------------------
(***************************************************************************)
(* What a write-once file system promises: files that appear whole, keep   *)
(* their contents and disappear whole, whatever calls and resets come in   *)
(* between.  A file that was not closed after writing is not there yet.    *)
(***************************************************************************)
CONSTANTS Names, Contents, NoFile

VARIABLE files

Init == files = [n \in Names |-> NoFile]

Others(n) == \A o \in Names \ {n} : files'[o] = files[o]

\* A file written under a free name is closed.
Complete(n) == files[n] = NoFile /\ files'[n] \in Contents /\ Others(n)

Remove(n) == files[n] # NoFile /\ files'[n] = NoFile /\ Others(n)

Format == \A n \in Names : files'[n] = NoFile

Next == Format \/ \E n \in Names : Complete(n) \/ Remove(n)

Spec == Init /\ [][Next]_files
=============================================================================
