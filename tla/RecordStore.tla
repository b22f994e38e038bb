---------------------------- MODULE RecordStore ----------------------------
(***************************************************************************)
(* What the applications rely on when they keep their records in flash,    *)
(* without pages, words, CRCs or threads: a record is stored in one step,  *)
(* and storing one leaves the others as they are.                          *)
(*                                                                         *)
(* Two things are not promised.  A crash while a record is stored loses    *)
(* all of them.  And when two calls overlap, nothing is certain until the  *)
(* next start, not even that something can be stored.                      *)
(***************************************************************************)
CONSTANTS Records, Data,
          Unknown       \* anything may be found of a record

VARIABLES
    disk,       \* what a start finds of a record
    work,       \* what the application works with
    loaded,     \* records that were read since the start
    pending,    \* records that were changed or made anew and not stored yet
    storing,    \* the old contents are gone, the new ones not complete
    sure        \* no two calls overlapped since the start

svars == <<disk, work, loaded, pending, storing, sure>>

Init ==
    /\ disk \in [Records -> Data \cup {Unknown}]
    /\ work \in [Records -> Data]
    /\ loaded = {} /\ pending = {} /\ storing = FALSE /\ sure = TRUE

Fresh(r) == r \notin loaded /\ pending = {}

\* A start reads what was stored last.
Load(r) ==
    /\ Fresh(r) /\ disk[r] # Unknown
    /\ work' = [work EXCEPT ![r] = disk[r]]
    /\ loaded' = loaded \cup {r}
    /\ UNCHANGED <<disk, pending, storing, sure>>

\* It may find something where nothing is promised, or nothing.
Find(r) ==
    /\ Fresh(r) /\ disk[r] = Unknown
    /\ \E d \in Data : /\ work' = [work EXCEPT ![r] = d]
                       /\ disk' = [disk EXCEPT ![r] = d]
    /\ loaded' = loaded \cup {r}
    /\ UNCHANGED <<pending, storing, sure>>

Renew(r) ==
    /\ Fresh(r) /\ disk[r] = Unknown
    /\ \E d \in Data : work' = [work EXCEPT ![r] = d]
    /\ pending' = {r}
    /\ UNCHANGED <<disk, loaded, storing, sure>>

Change(r) ==
    /\ r \in loaded /\ pending = {}
    /\ \E d \in Data : work' = [work EXCEPT ![r] = d]
    /\ pending' = {r}
    /\ UNCHANGED <<disk, loaded, storing, sure>>

Begin ==
    /\ pending # {} /\ ~storing
    /\ storing' = TRUE
    /\ UNCHANGED <<disk, work, loaded, pending, sure>>

Store(r) ==
    /\ storing /\ r \in pending
    /\ disk' = [disk EXCEPT ![r] = work[r]]
    /\ pending' = pending \ {r}
    /\ storing' = FALSE
    /\ UNCHANGED <<work, loaded, sure>>

Crash ==
    /\ disk' = IF storing \/ ~sure THEN [r \in Records |-> Unknown] ELSE disk
    /\ work' \in [Records -> Data]
    /\ loaded' = {} /\ pending' = {} /\ storing' = FALSE /\ sure' = TRUE

\* Of the rest nothing is said.
Overlap == sure' = FALSE

Next ==
    \/ Begin \/ Crash \/ Overlap
    \/ \E r \in Records : Load(r) \/ Find(r) \/ Renew(r) \/ Change(r) \/ Store(r)

Spec == Init /\ [][Next]_svars
=============================================================================
