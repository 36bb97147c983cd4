------------------------------ MODULE MruList ------------------------------
(***************************************************************************)
(* What the trusted device list promises to its callers: the devices, in   *)
(* the order in which they were last used, at most N of them, each once.   *)
(* A step puts one device in front, moves one device, drops one device, or *)
(* gives the place of the last one to a new one. Only a boot may lose the  *)
(* whole list (connectionInitTrustedDeviceList repairs it by emptying it). *)
(***************************************************************************)
EXTENDS Integers, Sequences, SequencesExt

CONSTANTS Device,   \* the remote devices
          N         \* the number of places of the list

VARIABLES mru,      \* the devices, the one used last in front
          running   \* TRUE while the program is up

vars == <<mru, running>>

Holds(d) == \E i \in 1..Len(mru) : mru[i] = d

Init == mru = << >> /\ running = FALSE

(* A device that is not listed becomes the first one. *)
Insert(d) == /\ ~ Holds(d) /\ Len(mru) < N
             /\ mru' = <<d>> \o mru

(* The list is full: the device that was used longest ago makes room. *)
ReplaceLast(d) == /\ ~ Holds(d) /\ Len(mru) = N
                  /\ mru' = [mru EXCEPT ![N] = d]

(* A listed device changes its place. *)
Move(i, j) == mru' = InsertAt(RemoveAt(mru, i), j, mru[i])

(* A listed device is deleted. *)
Delete(i) == mru' = RemoveAt(mru, i)

Change == /\ running
          /\ \/ \E d \in Device : Insert(d) \/ ReplaceLast(d)
             \/ \E i, j \in 1..Len(mru) : Move(i, j)
             \/ \E i \in 1..Len(mru) : Delete(i)
          /\ UNCHANGED running

(* A reset of the processor keeps what is in the persistent store. *)
Reset == running' = FALSE /\ UNCHANGED mru

Boot == /\ ~ running
        /\ \/ running' = TRUE /\ UNCHANGED mru
           \/ mru' = << >> /\ UNCHANGED running

Next == Change \/ Reset \/ Boot

Spec == Init /\ [][Next]_vars
=============================================================================
