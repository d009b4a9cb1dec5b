----------------------------- MODULE DurableStore -----------------------------
(***************************************************************************)
(* What LLD::Database promises the code that uses it: a map in memory and  *)
(* a file.  The map is frozen while it is written, a write that completes  *)
(* makes the file equal to the map, and a restart begins with what the     *)
(* file holds.  A process that ends during a write leaves any file behind, *)
(* since the file is truncated first and rewritten in place.               *)
(***************************************************************************)

CONSTANT Blank      \* the map of a process that is not running

VARIABLES
    mem,    \* mapRecords
    saved,  \* what a completed write has made of the file
    mode    \* "up", "saving" (WriteToDisk holds the mutex) or "down"

vars == <<mem, saved, mode>>

Init == mode = "up" /\ saved = mem

\* UpdateRecord
Update == mode = "up" /\ UNCHANGED <<saved, mode>>

\* WriteToDisk takes the mutex ...
BeginSave == mode = "up" /\ mode' = "saving" /\ saved' = mem /\ UNCHANGED mem

\* ... and releases it.
EndSave == mode = "saving" /\ mode' = "up" /\ UNCHANGED <<mem, saved>>

\* The process ends: the file stays as it is, unless it is being written.
Crash ==
    /\ mode # "down"
    /\ mode' = "down"
    /\ mem' = Blank
    /\ mode = "up" => UNCHANGED saved

\* ReadIntoMemory
Load == mode = "down" /\ mode' = "up" /\ mem' = saved /\ UNCHANGED saved

Next == Update \/ BeginSave \/ EndSave \/ Crash \/ Load

Spec == Init /\ [][Next]_vars
=============================================================================
