----------------------------- MODULE AtomicFile -----------------------------
(***************************************************************************)
(* What the writers of a file promise its readers: at any time, also after *)
(* a power failure, the file is as it was found, absent, or the whole of   *)
(* one content that a writer may install.                                  *)
(***************************************************************************)
CONSTANTS
    Contents,    \* what a file may be found to hold
    Acceptable,  \* what a writer may install
    Absent       \* no file under that name

VARIABLES
    content,     \* what a reader finds
    onDisk       \* what it may find after a power failure

vars == <<content, onDisk>>

Init == content \in Contents /\ onDisk = {content}

Change(new) == content' = new /\ onDisk' = onDisk \cup {new}

Install == \E new \in Acceptable : Change(new)
Withdraw == Change(Absent)

PowerFailure ==
    /\ content' \in onDisk
    /\ onDisk' = {content'}

Next == Install \/ Withdraw \/ PowerFailure

Spec == Init /\ [][Next]_vars
=============================================================================
