------------------------------- MODULE RWLock -------------------------------
(***************************************************************************)
(* What every locking protocol of Db/dblock.c promises to the callers of   *)
(* wg_start_read, wg_end_read, wg_start_write and wg_end_write: a shared/  *)
(* exclusive lock on the whole database.  A process holds the lock from    *)
(* the return of the start call with a nonzero value to the call of the    *)
(* end function; a start call may also return 0, and then nothing changed. *)
(***************************************************************************)
CONSTANT Procs

VARIABLE held    \* held[p]: what p holds of the database lock

None  == "none"
Read  == "read"
Write == "write"

Init == held = [p \in Procs |-> None]

\* wg_start_read returns nonzero: nobody writes.
StartRead(p) ==
    /\ held[p] = None
    /\ \A q \in Procs : held[q] # Write
    /\ held' = [held EXCEPT ![p] = Read]

\* wg_start_write returns nonzero: nobody reads or writes.
StartWrite(p) ==
    /\ held[p] = None
    /\ \A q \in Procs : held[q] = None
    /\ held' = [held EXCEPT ![p] = Write]

\* wg_end_read or wg_end_write is called.
End(p) ==
    /\ held[p] # None
    /\ held' = [held EXCEPT ![p] = None]

Next == \E p \in Procs : StartRead(p) \/ StartWrite(p) \/ End(p)

Spec == Init /\ [][Next]_held
=============================================================================
