------------------------- MODULE TrustedDeviceList -------------------------
(***************************************************************************)
(* The trusted device list of the connection library                       *)
(* (lib/connection/connection_tdl.c): a record per device in the           *)
(* persistent store, an index that orders the records by their last use,   *)
(* and the security database of Bluestack, which is told of every change.  *)
(*                                                                         *)
(* An operation is a series of separate writes to the persistent store.    *)
(* The first step of an operation reads the store and determines the       *)
(* series (nothing else runs meanwhile), each Write carries one out, and   *)
(* the processor may be reset between any two of them.                     *)
(***************************************************************************)
EXTENDS Integers, Sequences, FiniteSets

CONSTANTS Device,     \* remote devices (typed addresses)
          N,          \* MAX_TRUSTED_DEVICES
          NoRecord,   \* what PsRetrieve finds under a key that was deleted
          Unused,     \* TDI_UNUSED
          Modes,      \* the sets of operations the clients may use together
          MaxCrash    \* bound: resets of the processor

Pos == 0..(N - 1)

Record == [dev : Device, trusted : BOOLEAN, priority : BOOLEAN]

ASSUME PlacesAssumption == N \in Nat \ {0}
ASSUME BoundAssumption == MaxCrash \in Nat
ASSUME SentinelAssumption == NoRecord \notin Device \cup Record /\ Unused \notin 0..N

VARIABLES mode,      \* the operations in use
          records,   \* TRUSTED_DEVICE_LIST + pos
          attrs,     \* PSKEY_TDL_ATTRIBUTE_BASE + pos: whose data it is
          order,     \* TRUSTED_DEVICE_INDEX, unpacked
          db,        \* Bluestack: device -> trust, for the registered ones
          todo,      \* the writes the operation in progress has left
          state,     \* "boot": connectionInitTrustedDeviceList is due; "up"
          crashes

vars == <<mode, records, attrs, order, db, todo, state, crashes>>

(***************************************************************************)
(* Reading the list.                                                       *)
(***************************************************************************)
(* ConnectionTrustedDeviceListSize: the used entries before the first gap. *)
Size == CHOOSE n \in 0..N : /\ \A i \in 0..(n - 1) : order[i] # Unused
                            /\ n = N \/ order[n] = Unused

Readable(i) == records[order[i]] # NoRecord

IsAt(d, i) == Readable(i) /\ records[order[i]].dev = d

(* Mutant: the last entry is not looked at. *)
FoundButLast(d) == \E i \in 0..(Size - 2) : IsAt(d, i)

Found(d) == \E i \in 0..(Size - 1) : IsAt(d, i)

FreePos == CHOOSE p \in Pos :
             LET used == {order[i] : i \in {j \in 0..(Size - 1) : Readable(j)}}
             IN  p \notin used /\ \A q \in 0..(p - 1) : q \in used

(* tdl_find_device: the index of the device, or of the place it would get, *)
(* and the position of the record that goes with it.                       *)
IndexOf(d) ==
  IF Found(d) THEN CHOOSE i \in 0..(Size - 1) :
                     IsAt(d, i) /\ \A j \in 0..(i - 1) : ~ IsAt(d, j)
  ELSE IF Size < N THEN Size ELSE N - 1

PosOf(d) == IF ~ Found(d) /\ Size < N THEN FreePos ELSE order[IndexOf(d)]

RecordOf(d) == IF Found(d) THEN records[PosOf(d)]
               ELSE [dev |-> d, trusted |-> FALSE, priority |-> FALSE]

(***************************************************************************)
(* The contents of the index after a change.                               *)
(***************************************************************************)
(* Mutant: the entry at idx is not moved down. *)
MovedShort(ord, pos, idx) ==
  [i \in Pos |-> IF i = 0 THEN pos ELSE IF i < idx THEN ord[i - 1] ELSE ord[i]]

(* update_trusted_device_index: pos comes in front, up to idx moves down. *)
Moved(ord, pos, idx) ==
  [i \in Pos |-> IF i = 0 THEN pos ELSE IF i <= idx THEN ord[i - 1] ELSE ord[i]]

(* Mutant: the entry that becomes free is marked with the size of the list. *)
RemovedMarksSize(ord, idx) ==
  [i \in Pos |-> IF i < idx THEN ord[i] ELSE IF i < N - 1 THEN ord[i + 1] ELSE N]

(* delete_from_trusted_device_list: what is behind idx moves up. *)
Removed(ord, idx) ==
  [i \in Pos |-> IF i < idx THEN ord[i] ELSE IF i < N - 1 THEN ord[i + 1] ELSE Unused]

(* Mutant: one swap instead of one for every priority device. *)
SunkOnce(ord, recs) ==
  IF N > 1 /\ ord[1] # Unused /\ recs[ord[1]] # NoRecord /\ recs[ord[1]].priority
    THEN [ord EXCEPT ![0] = ord[1], ![1] = ord[0]] ELSE ord

(* ConnectionAuthSetPriorityDevice: the first entry sinks below the       *)
(* priority devices that follow it. A record that cannot be read leaves    *)
(* the one read before it in the buffer: a priority device, except for the *)
(* first one.                                                              *)
Sunk(ord, recs) ==
  LET prio(i)  == IF recs[ord[i]] = NoRecord THEN i > 1 ELSE recs[ord[i]].priority
      depth    == CHOOSE k \in Pos :
                    /\ \A i \in 1..k : ord[i] # Unused /\ prio(i)
                    /\ k = N - 1 \/ ord[k + 1] = Unused \/ ~ prio(k + 1)
  IN  [i \in Pos |-> IF i < depth THEN ord[i + 1] ELSE IF i = depth THEN ord[0] ELSE ord[i]]

(***************************************************************************)
(* The writes an operation is made of.                                     *)
(***************************************************************************)
PutRecord(pos, rec) == [op |-> "record", pos |-> pos, val |-> rec]
PutAttr(pos, dev)   == [op |-> "attr", pos |-> pos, val |-> dev]
PutIndex(ord)       == [op |-> "index", val |-> ord]
SmAdd(d, trust)     == [op |-> "smAdd", dev |-> d, val |-> trust]
SmRemove(d)         == [op |-> "smRemove", dev |-> d]
Nothing             == [op |-> "none"]

(* Mutant: the attribute data stays. *)
DeleteKeepsAttr(pos, idx) == <<PutIndex(Removed(order, idx)), PutRecord(pos, NoRecord)>>

DeleteWrites(pos, idx) == <<PutIndex(Removed(order, idx)),
                            PutRecord(pos, NoRecord), PutAttr(pos, NoRecord)>>

(* ConnectionAuthSetPriorityDevice on the record at pos, at idx of ord. *)
PriorityWrites(ord, pos, idx, rec, priority) ==
  LET now   == [rec EXCEPT !.priority = priority]
      moved == Moved(ord, pos, idx)
      recs  == [records EXCEPT ![pos] = now]
  IN  <<PutRecord(pos, now), PutIndex(moved)>>
        \o (IF priority THEN << >> ELSE <<PutIndex(Sunk(moved, recs))>>)

Ready(op) == state = "up" /\ todo = << >> /\ op \in mode

Begin(writes) == /\ todo' = writes
                 /\ UNCHANGED <<mode, records, attrs, order, db, state, crashes>>

(***************************************************************************)
(* The operations.                                                         *)
(***************************************************************************)
(* connectionAuthAddDevice. A debug key is neither stored nor deletes what *)
(* is stored; PsStore of a new record may find no room.                    *)
AddDevice(d, trusted, key, stored) ==
  LET pos   == PosOf(d)
      idx   == IndexOf(d)
      rec   == [RecordOf(d) EXCEPT !.trusted = trusted]
  IN  /\ Ready("add")
      /\ ~ stored => "full" \in mode /\ key = "bonded"
      /\ trusted => "trust" \in mode
      /\ key = "debug" => "debug" \in mode
      /\ ~ Found(d) /\ Size = N => "evict" \in mode
      /\ Begin((CASE key = "debug" -> << >>
                  [] key = "none" -> IF Found(d) THEN DeleteWrites(pos, idx) ELSE << >>
                  [] key = "bonded" ->
                       IF stored
                         THEN <<PutRecord(pos, rec), PutIndex(Moved(order, pos, idx))>>
                                \o PriorityWrites(Moved(order, pos, idx), pos, 0, rec, FALSE)
                         ELSE << >>)
               \o <<SmAdd(d, trusted)>>)

(* connectionAuthDeleteDevice: priority devices stay. *)
DeleteDevice(d) == /\ Ready("delete") /\ Found(d) /\ ~ RecordOf(d).priority
                   /\ Begin(<<SmRemove(d)>> \o DeleteWrites(PosOf(d), IndexOf(d)))

(* connectionAuthDeleteAllDevice: for each entry of the index three writes, *)
(* or none where the device stays, then one write of the index.            *)
Deletable(i) == order[i] # Unused /\ Readable(i) /\ ~ records[order[i]].priority

DeleteAllWrite(k) ==
  LET i == (k - 1) \div 3
      p == order[i]
  IN  CASE ~ Deletable(i)                -> Nothing
        [] Deletable(i) /\ k = 3 * i + 1 -> PutRecord(p, NoRecord)
        [] Deletable(i) /\ k = 3 * i + 2 -> SmRemove(records[p].dev)
        [] Deletable(i) /\ k = 3 * i + 3 -> PutAttr(p, NoRecord)

DeleteAllWrites == [k \in 1..(3 * N) |-> DeleteAllWrite(k)]

IndexAfterDeleteAll == [i \in Pos |-> IF Deletable(i) THEN Unused ELSE order[i]]

DeleteAllDevice ==
  /\ Ready("deleteAll") /\ \E i \in Pos : Deletable(i)
  /\ Begin(DeleteAllWrites \o <<PutIndex(IndexAfterDeleteAll)>>)

(* connectionAuthSetTrustLevel *)
SetTrustLevel(d, trusted) ==
  /\ Ready("trust") /\ Found(d)
  /\ Begin(<<PutRecord(PosOf(d), [RecordOf(d) EXCEPT !.trusted = trusted]), SmAdd(d, trusted)>>)

(* ConnectionAuthSetPriorityDevice *)
SetPriorityDevice(d, priority) ==
  /\ Ready("priority") /\ Found(d)
  /\ Begin(PriorityWrites(order, PosOf(d), IndexOf(d), RecordOf(d), priority))

(* connectionAuthUpdateMru *)
UpdateMru(d) == /\ Ready("mru") /\ Found(d)
                /\ Begin(<<PutIndex(Moved(order, PosOf(d), IndexOf(d)))>>)

(* connectionAuthPutAttribute *)
PutAttribute(d) == /\ Ready("attr") /\ Found(d)
                   /\ Begin(<<PutAttr(PosOf(d), d)>>)

(* connectionAuthUpdateTdl, on DM_SM_KEYS_IND: Bluestack has registered the *)
(* device itself.                                                           *)
UpdateTdl(d, stored) ==
  /\ Ready("keys")
  /\ ~ stored => "full" \in mode
  /\ ~ Found(d) /\ Size = N => "evict" \in mode
  /\ todo' = IF stored THEN <<PutRecord(PosOf(d), RecordOf(d)),
                              PutIndex(Moved(order, PosOf(d), IndexOf(d)))>>
                       ELSE << >>
  /\ db' = IF d \in DOMAIN db THEN db
           ELSE [e \in DOMAIN db \cup {d} |-> IF e = d THEN FALSE ELSE db[e]]
  /\ UNCHANGED <<mode, records, attrs, order, state, crashes>>

(* connectionAuthDeleteDeviceFromTdl: a device that pairs without bonding *)
(* loses the key it had; Bluestack keeps it registered.                    *)
DeleteDeviceFromTdl(d) == /\ Ready("unbond") /\ Found(d)
                          /\ Begin(DeleteWrites(PosOf(d), IndexOf(d)))

(* One write of the operation in progress. *)
Write ==
  LET w == Head(todo) IN
  /\ state = "up" /\ todo # << >>
  /\ todo' = Tail(todo)
  /\ records' = IF w.op = "record" THEN [records EXCEPT ![w.pos] = w.val] ELSE records
  /\ attrs' = IF w.op = "attr" THEN [attrs EXCEPT ![w.pos] = w.val] ELSE attrs
  /\ order' = IF w.op = "index" THEN w.val ELSE order
  /\ db' = CASE w.op = "smAdd" -> [e \in DOMAIN db \cup {w.dev} |->
                                     IF e = w.dev THEN w.val ELSE db[e]]
             [] w.op = "smRemove" -> [e \in DOMAIN db \ {w.dev} |-> db[e]]
             [] OTHER -> db
  /\ UNCHANGED <<mode, state, crashes>>

(* A reset at any moment: the persistent store survives. *)
Crash == /\ "crash" \in mode /\ crashes < MaxCrash
         /\ crashes' = crashes + 1
         /\ state' = "boot" /\ todo' = << >>
         /\ db' = [e \in {} |-> FALSE]
         /\ UNCHANGED <<mode, records, attrs, order>>

(* Mutant: the records are deleted and the index that names them is not. *)
RepairRecordsOnly == UNCHANGED <<order, db, state>>

(* Mutant: the last listed device is not registered. *)
RegisterButLast ==
  /\ db' = [e \in {records[order[i]].dev : i \in 0..(Size - 2)} |-> RecordOf(e).trusted]
  /\ state' = "up"
  /\ UNCHANGED order

(* Mutant: a record that cannot be read is skipped. *)
BootSkipsMissing ==
  /\ state = "boot"
  /\ db' = [e \in {records[order[i]].dev : i \in {j \in 0..(Size - 1) : Readable(j)}} |->
              RecordOf(e).trusted]
  /\ state' = "up"
  /\ UNCHANGED <<mode, records, attrs, order, todo, crashes>>

(* connectionInitTrustedDeviceList registers the listed devices. A listed  *)
(* record that cannot be read makes it delete the index and Panic; the     *)
(* loop that is meant to delete the records has an empty body and deletes  *)
(* only the key behind the last one.                                       *)
Repair == order' = [i \in Pos |-> Unused] /\ UNCHANGED <<db, state>>

Register ==
  /\ db' = [e \in {records[order[i]].dev : i \in 0..(Size - 1)} |-> RecordOf(e).trusted]
  /\ state' = "up"
  /\ UNCHANGED order

Boot ==
  /\ state = "boot"
  /\ IF \A i \in 0..(Size - 1) : Readable(i) THEN Register ELSE Repair
  /\ UNCHANGED <<mode, records, attrs, todo, crashes>>

Operation ==
  \/ \E d \in Device :
       \/ \E trusted, stored \in BOOLEAN, key \in {"bonded", "debug", "none"} :
            AddDevice(d, trusted, key, stored)
       \/ DeleteDevice(d) \/ UpdateMru(d) \/ PutAttribute(d) \/ DeleteDeviceFromTdl(d)
       \/ \E trusted \in BOOLEAN : SetTrustLevel(d, trusted)
       \/ \E priority \in BOOLEAN : SetPriorityDevice(d, priority)
       \/ \E stored \in BOOLEAN : UpdateTdl(d, stored)
  \/ DeleteAllDevice

Init == /\ mode \in Modes
        /\ records = [p \in Pos |-> NoRecord]
        /\ attrs = [p \in Pos |-> NoRecord]
        /\ order = [i \in Pos |-> Unused]
        /\ db = [e \in {} |-> FALSE]
        /\ todo = << >> /\ state = "boot" /\ crashes = 0

Next == Operation \/ Write \/ Crash \/ Boot

(* The firmware runs a boot to its end, and a handler too. *)
Spec == Init /\ [][Next]_vars /\ WF_vars(Boot) /\ WF_vars(Write)
=============================================================================
