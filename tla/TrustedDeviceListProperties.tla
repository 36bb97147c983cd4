-------------------- MODULE TrustedDeviceListProperties --------------------
(***************************************************************************)
(* What makes the trusted device list correct.                             *)
(***************************************************************************)
EXTENDS TrustedDeviceList, SequencesExt

Idle == state = "up" /\ todo = << >>

Listed == {i \in Pos : i < Size}

(* Records, attributes and index entries are what connection_tdl.c stores: *)
(* in particular an entry of the index is a position or TDI_UNUSED, after  *)
(* any number of moves and deletions.                                      *)
TypeOK == /\ mode \in Modes
          /\ records \in [Pos -> Record \cup {NoRecord}]
          /\ attrs \in [Pos -> Device \cup {NoRecord}]
          /\ order \in [Pos -> Pos \cup {Unused}]
          /\ DOMAIN db \subseteq Device /\ \A d \in DOMAIN db : db[d] \in BOOLEAN
          /\ state \in {"boot", "up"}
          /\ crashes \in 0..MaxCrash

(* No two entries of the index name the same record, and no two listed     *)
(* records are of the same device, at any moment, a reset between two      *)
(* writes of connectionAuthAddDevice included: tdl_find_device would       *)
(* otherwise give away a record that is in use, or update one of two.      *)
OneEntryPerDevice ==
  \A i, j \in Listed : i # j =>
    /\ order[i] # order[j]
    /\ Readable(i) /\ Readable(j) => records[order[i]].dev # records[order[j]].dev

(* Between operations the index and the records are in step: the used      *)
(* entries come first and each names a record that can be read. The boot   *)
(* (connectionInitTrustedDeviceList) has repaired what a reset left.       *)
IndexInStep ==
  Idle => /\ \A i \in Listed : Readable(i)
          /\ \A i \in Pos \ Listed : order[i] = Unused

(* Between operations Bluestack knows every listed device, and, as long as *)
(* every store finds room, no debug key is used and Bluestack registers no *)
(* device itself, with the trust of its record.                            *)
Registered ==
  Idle => \A i \in Listed :
            LET rec == records[order[i]] IN
            /\ rec.dev \in DOMAIN db
            /\ {"full", "keys", "debug"} \cap mode = {} => db[rec.dev] = rec.trusted

(* Priority devices come before the others (the comments on the call of    *)
(* ConnectionAuthSetPriorityDevice in connectionAuthAddDevice), so that a   *)
(* new device never takes the record of a priority device while another    *)
(* one is left: where no client calls connectionAuthUpdateMru and no keys   *)
(* arrive from Bluestack, which move a device to the front whatever it is. *)
PriorityFirst ==
  Idle /\ {"mru", "keys", "crash"} \cap mode = {} =>
    \A i, j \in Listed : i < j /\ records[order[j]].priority => records[order[i]].priority

(* The attribute data under the position of a listed device is that        *)
(* device's own, as long as no device takes the place of another one and   *)
(* no reset comes between the writes of a deletion.                        *)
AttributesFollow ==
  Idle /\ {"evict", "crash"} \cap mode = {} =>
    \A i \in Listed : attrs[order[i]] \in {NoRecord, records[order[i]].dev}

(* After a reset at any moment the device boots in the end: the repair of  *)
(* connectionInitTrustedDeviceList, which panics itself, is not repeated   *)
(* for ever ("this can lead to an infinite reset cycle").                  *)
BootCompletes == state = "boot" ~> state = "up"

(* Every write changes the list, as a reader sees it, by one step of an    *)
(* MRU list: a reset loses no device but by way of the repair.             *)
Mru == LET listed == SelectSeq([i \in 1..Size |-> i - 1], Readable)
       IN  [k \in 1..Len(listed) |-> records[order[listed[k]]].dev]

List == INSTANCE MruList WITH mru <- Mru, running <- state = "up"

ImplementsMruList == List!Spec

(* A priority device that is listed stays listed when all devices are      *)
(* deleted (connection_tdl.c, connectionAuthDeleteAllDevice: "Priority     *)
(* devices are not deleted."), and is found by the next operation.         *)
PriorityDevices == {records[order[i]].dev : i \in
                      {j \in Listed : Readable(j) /\ records[order[j]].priority}}

PriorityDevicesKept ==
  [][Write /\ todo' = << >> /\ Head(todo).op = "index" => PriorityDevices \subseteq PriorityDevices']_vars
=============================================================================
