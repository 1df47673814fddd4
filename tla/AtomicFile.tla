----------------------------- MODULE AtomicFile -----------------------------
(* What a download promises of its destination: it is always one whole      *)
(* file, the old one or that of some download, and changes in one step.     *)
CONSTANTS Writers, Old

VARIABLE file

Init == file = Old

Replace(w) == file' = w

Next == \E w \in Writers : Replace(w)

Spec == Init /\ [][Next]_file
=============================================================================
