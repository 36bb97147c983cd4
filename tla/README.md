# A verification development for cbps

`cbps` is the Bluetooth audio sink software of a CSR/Qualcomm BlueCore chip
(ADK libraries and the sink application) together with a small replacement of
the chip's operating system, so that the C code can run elsewhere. This
directory holds TLA+ models of its core, TLC configurations for small
instances, and proofs checked by TLAPS.

Modelled so far: the message scheduler everything runs on, the A2DP library,
the trusted device list of the connection library with resets between its
writes, and the links and the AT command channel of the HFP library. All are
model-checked; the safety properties are proved for every size, under
hypotheses named in section 4.

## 1. The system

Everything is event driven and single threaded: a *task* is a handler, a
*message* carries a payload, and `MessageLoop` runs the handler of one message
at a time to its end. Concurrency is therefore between the orders in which
messages arrive: from the Bluetooth stack (through the connection library),
from the remote device, from timers (`MessageSendLater`), from the client
application. A library keeps one record per remote device and changes it in its
handler.

| Part | State | Operations | Hard behaviour | What makes it correct |
|---|---|---|---|---|
| `kernel/task.c`, `panic.c` | linked list `first`/`tail`, heap | `MessageSend`, `MessageSendLater`, `MessageLoop` | handlers post while their own node is unlinked but not freed; stale `tail` | list links exactly the waiting messages; no freed block used; FIFO, each once |
| `lib/a2dp` links | per device: signalling and media channel state, sinks, connection ids, link loss timers | connect, disconnect, respond, link loss, retry; L2CAP and SDP messages | crossing connections, failures, loss indicated channel by channel, late client answers, full table | one record per device; sinks belong to the record's device; no record waits for nothing; losses end |
| `lib/a2dp` streams | AVDTP stream state, pending transactions, watchdog and delay timers | open, start, suspend, reconfigure, close, abort; commands and responses of the remote | command collisions, rejects, timeouts racing answers, aborts from both sides | stream and media channel agree; transient states end; answers match commands |
| `lib/a2dp` endpoints | SEP list, data blocks | reserve, parse capabilities | several links sharing an endpoint | an endpoint in use belongs to one link |
| `lib/connection` trusted devices | persistent records, attributes and MRU index; Bluestack's security database | add, delete, prioritise, trust, update MRU, boot | a reset between two writes of the persistent store, a full store, eviction | index without duplicates, refers to stored records, priority devices first, boot ends |
| `lib/connection` locks | one lock per group of requests | request, confirm, re-send when free | a lock shared by kinds of requests, a missing confirmation | each request confirmed once, to its own task |
| `lib/hfp` links | per link: SLC state, address, RFCOMM sink, priority, service, link loss state and timers | connect, accept, disconnect, recover | calls crossing searches and recoveries, stale timers and search results | one link per device, priorities distinct, services given back, attempts end |
| `lib/hfp` AT channel | command outstanding, RFCOMM buffer, AT timeout, features, volume | SLC set-up, requests of the client, notifications of the gateway | unlabelled responses, timeouts, silent or refusing gateways, full buffer | answers matched, each request confirmed once, set-up ends |
| `lib/aghfp` | one link as the gateway: SLC state, calls, audio | as HFP, from the other side | as HFP | as HFP |
| `lib/avrcp` | channels, transaction labels, notifications, fragments | pass-through, metadata, browsing | label reuse, interim and final responses | a label in use is never chosen again |
| `lib/gatt`, `lib/gatt_manager`, services | pending procedure per link, handle ranges | discovery, read, write, notify | one procedure at a time, registration order | each request answered once |
| `lib/swat`, `spp*`, `obex`, `pbapc`, `mapc` | sessions over L2CAP or RFCOMM | connect, transfer, disconnect | crossing and failing set-ups | as for A2DP, smaller |
| `lib/power`, `usb_device_class`, audio and display plug-ins | device state | readings, transfers, routing | - | mostly outside the C code |
| `apps/sink` | `theSink`: application state, timers, queues | user events, messages of every library | long sequences of user events | managers agree with the libraries |
| `kalimba`, `apps/source`, examples, headers | - | - | - | DSP code, or not in the build |

Interactions: the sink application calls the API of a library, which posts an
internal message to the library's task; the library asks the connection
library for channels and receives confirmations and indications; results go to
the client as messages. `CONNECT_IND`-like indications are *answered by the
client with a pointer to the record*, which is where stale state comes from.

The parts of the repository and the reason why a part is not modelled are in
`PROJECT.json` under `components`; what can go wrong, line by line, under
`hazards`.

## 2. Modules

| Module | Models |
|---|---|
| `MessageQueue` | what the scheduler promises: a FIFO queue, one message handled at a time |
| `KernelTask` | `kernel/task.c` with the heap it uses; its properties, its inductive invariant and the refinement mapping to `MessageQueue` |
| `KernelTaskProofs` | the theorems about `KernelTask` |
| `LeastElement` | induction and least elements for sets of naturals, used by all proofs about loops and tables |
| `A2dpDevice` | the record of one remote device and the operations all handlers share: stream state, sending a command, reset, abort, initiating and completing channels |
| `A2dpStream` | AVDTP: every command, response, reject, watchdog and delay timer, and the client's stream requests and answers (`a2dp_command_handler.c`, `a2dp_packet_handler.c`) |
| `A2dpLink` | signalling and media channels: connect, crossover, disconnect, loss, retry (`a2dp_l2cap_handler.c`, the SDP part) |
| `A2dp` | all records, the L2CAP channels, the client and the remote devices: the next-state relation and the fairness |
| `A2dpProperties` | what is checked of `A2dp` |
| `A2dpMC` | the symmetry used by the runs |
| `A2dpStreamProofs` | what the operators of `A2dpDevice` and `A2dpStream`, those of the AVDTP handlers, keep of one record |
| `A2dpProofs` | the theorems about `A2dp` |
| `MruList` | what the trusted device list promises: a sequence of distinct devices, most recent first, of which a reset loses nothing but by the repair at boot |
| `TrustedDeviceList` | `connection_tdl.c` as series of writes to the persistent store, with a reset between any two |
| `TrustedDeviceListProperties` | what is checked of it, and the refinement mapping to `MruList` |
| `TrustedDeviceListProofs` | the theorems about `TrustedDeviceList` |
| `HfpAt` | the AT command channel of one HFP link, from the RFCOMM connection to its end |
| `HfpAtProperties`, `HfpAtMC` | what is checked of it; the kinds of audio gateway used by the runs |
| `HfpLink` | all HFP links: calls of both sides, SDP searches, RFCOMM channels, services, priorities, link loss |
| `HfpLinkProperties`, `HfpLinkMC` | what is checked of it; which gateway calls which service |
| `HfpAtProofs`, `HfpVolumeProofs` | the theorems about `HfpAt`; the agreement of the volumes has a module of its own |
| `HfpLinkProofs` | the theorems about `HfpLink` |

### KernelTask and the code

`first`, `tail`, `curr` are the C variables; `nextOf`, `idOf`, `payloadOf` the
fields of `struct task_list`, per heap block. A freed block keeps its contents
and may be returned by the next `malloc`, so a use after free is visible.
`MessageSend` is one action (it cannot be interrupted); one turn of the loop is
two, `Dispatch` (unlink, call) and `FreeCurr`, with what the handler posts in
between. `MessageSendLater` logs its delay and posts, as in the port; it keeps
no clock, and neither does the model. Running
out of memory is `PanicUnlessNew`. Payloads are never freed by the code, and
are not freed by the model: the heap runs out in the end, and `panicked` is a
final state. `order`, `sent`, `delivered` are history variables.

### A2dp and the code

A record of `dev` is one `remote_device`. Each handler of the library is an
operator from a record to a record; what it asks of the connection library is
collected in the field `out` and applied to `chan` in the same step, so one
message handled is one step.

Decisions that shape the model:

* A message may be handled at any time after it became due. This allows every
  order of messages of independent senders, and some a particular queue would
  not produce.
* A timer may fire at any time while it is pending; `MessageCancelAll` removes
  it. On the chip the timers are seconds long, and any message may come first;
  in the port they fire at once.
* The client, the remote device and the radio link are the environment. The
  client uses a device once it was told of it, has one connect request per
  address outstanding, and answers each indication at most once, as late as it
  likes. `Events`, `RemoteSignals`, `Versions` choose what the environment does
  in a run.
* L2CAP is external, modelled from its use: an attempt is pending, then
  succeeds or fails; a refused attempt ends in a failure confirmation; a remote
  device sets up one channel at a time; a sink stays valid until the indication
  of its loss has been handled, so the branch "cannot send the abort, reset at
  once" is never taken; a sink never lacks space for a command.
* A connect request queued behind a disconnection (`MessageSendConditionally`
  on the record's address) is a member of `waiting`.
* Labels run from 1 to `MaxLabel` and wrap. A remote device remembers the last
  `MaxSent` commands, and `MaxLabel > MaxSent`, so a label is not reused while
  an answer to it can still arrive; 15 labels and one outstanding command give
  the code the same distance.
* AVDTP queries (discover, capabilities, get configuration, security control,
  reconfigure and unknown commands from the remote) are answered at once and
  change nothing else; they are one command, `query`.
* Left out: codecs and capabilities, the list of local endpoints, MTUs and
  fragmentation, the contents of indications, more than one media channel
  (`A2DP_MAX_MEDIA_CHANNELS` is 1). `reconfig_reading_caps` and
  `remote_aborting` are never assigned in the code and are no states here.
* `findMediaFromConnectionId` compares a sink that was never stored when the
  media channel is in `disconnect_pending`; the model takes the outcome "no
  match", the one a pointer never equal to a connection id gives.

### TrustedDeviceList and the code

`records`, `attrs` and `order` are the keys `TRUSTED_DEVICE_LIST + pos`,
`PSKEY_TDL_ATTRIBUTE_BASE + pos` and `TRUSTED_DEVICE_INDEX`; `db` is Bluestack's
security database, external and modelled from the `dm_sm_...` requests. A
handler reads the store once and then writes it: the first step of an operation
computes the series of writes (`todo`), each `Write` carries one out, and
`Crash` may come between any two, which loses `db` and `todo` and nothing
else. `Boot` is `connectionInitTrustedDeviceList`, which registers the listed
devices or repairs the store and panics (the state stays `boot`).

* Link keys are the presence of a record; of a record the model keeps device,
  trust and priority. Of the attribute data it keeps whose it is.
* `PsStore` of a record fails (`stored = FALSE`) where the code tests it. That
  `store_trusted_device_index` ignores the result of its `PsStore` is noted
  below and not modelled.
* `mode` is the set of operations a client uses, chosen at the start: the
  properties that depend on an operation not being used say so in their premise.
* The list is modelled for the chip, where `memset` and `PsStore` count 16-bit
  words; in the port the store is a stub (`kernel/ps.c`).
* `connectionAuthDeleteAllDevice` is a loop over all positions; a position that
  needs no write contributes a write of nothing (`Nothing`), so that its series
  is a function of the number of places.

### HfpAt, HfpLink and the code

`HfpLink` is about which link a message belongs to, `HfpAt` about what goes
over the channel of one link. They meet at the states `connected` and
`complete` of `hfp_slc_state`: for `HfpLink` the set-up on a connected channel
is one step that succeeds or fails (`AtSetup`), and `HfpAt` starts with the
channel just connected and shows when this step is taken, and when it is not
(`hfp_setup_stuck`).

* `link` of `HfpAt` is the `hfp_link_data` of a link; `buffer` the RFCOMM sink
  with the commands claimed and not flushed, `air` and `back` the lines on their
  way. `hfpSendAtCmd` drops a command the sink has no room for. The AT timeout
  fires while it is pending and no line is on its way, and also before the
  answer where the gateway is slow (`AgKinds`).
* Commands of the client that differ only in their text are one command,
  `user`; `cops` stands for the ones that need another command first. Volume is
  modelled because both sides change it. Calls, call lists, indicators, codec
  selection and audio connections are left out.
* `NumLinks` is 1 or 2: `MAX_HFP_CONNECTIONS` is 2 (`hfp_private.h:71`) and
  `hfp_init.c:89` allocates one link or both; the priorities are named primary
  and secondary for that reason.
* A service of `HfpLink` has one of two profiles, HFP or HSP (`Headset`): an HSP
  link is complete with its channel, an HFP link after the set-up of `HfpAt`,
  and a search that finds nothing goes on with the other profile
  (`hfpSdpRetry`). HFP 1.5 and 1.6 are not told apart: a client that registers
  both and tries three profiles in turn is not modelled. `HfpAt` is about HFP.
* `channel` of `HfpLink` is RFCOMM, one channel per gateway and side, external;
  `searches` the SDP searches; `reconnect`, `lossTimer`, `requests`, `delayed`
  are messages in the queue of the HFP task.
* `LossCrossover` and `StaleSearch` let a gateway call while a recovery searches
  it, and let a search outlive its attempt. Both happen on the chip. With
  either the code breaks properties (`hfp_link_panic` and the list below), so
  the passing run keeps them out: it shows that nothing else breaks them.

## 3. Runs

| Run | Question | Result |
|---|---|---|
| `kernel` | does the list survive whatever handlers post, and is every message delivered? | holds: `ListShape`, `NodesAccountedFor`, `NoUseAfterFree`, `InOrder`, `ImplementsQueue`, `EveryMessageDelivered` (unless the program panics) |
| `a2dp_links` | two devices, two records, crossing set-ups and queued requests | holds: `AddressesUnique` |
| `a2dp_loss` | link loss, retries, reconnection by either side | holds: `SetupUnderWay`, `ManagedLossKept`, `LossResolved` |
| `a2dp_acceptor` | the remote device controls the stream, the client answers late | holds: `StreamHasMedia`, `IdleHasNoMedia`, `AbortEndsInIdle`, `TransientEnds` |
| `a2dp_initiator` | both sides connect; the client controls the stream, the remote answers, rejects, is late or silent | holds: `ChannelsMatch`, `LatestAnswerMatches`, `TypeOK` |
| `a2dp_hang` | does a requested disconnection complete? | violated: an abort of the remote device cancels the watchdog of the wait |
| `tdl` | do index, records and Bluestack agree after any sequence of operations, full stores and a reset between any two writes? | holds: `OneEntryPerDevice`, `IndexInStep`, `Registered`, `PriorityFirst`, `AttributesFollow`, `BootCompletes`, `ImplementsMruList` |
| `tdl_priority` | do priority devices survive the deletion of all devices? | violated: the gaps left in the index hide the ones behind them |
| `hfp_at` | are answers, requests, volumes and the set-up kept straight with gateways that refuse, are silent or slow? | holds: `AnswersMatch`, `ConnectConfirmedOnce`, `ConfirmedAtMostOnce`, `PendingVolumeWins`, `VolumesAgree`, `RequestsConfirmed`, `SetupEnds` |
| `hfp_setup_stuck` | does the set-up end with a gateway that does not answer? | violated: the timeout is ignored before the SLC is complete |
| `hfp_link` | two gateways, two links, calls of both sides, losses and recoveries | holds: `OneLinkPerDevice`, `PrioritiesInOrder`, `ServicesAccountedFor`, `ChannelsOwned`, `ReconnectOnlyLost`, `AttemptsEnd` |
| `hfp_link_panic` | may a gateway call while its lost link is being recovered? | violated: the reconnection scheduled meanwhile resets the link, and the program panics |

### Bounds

* Kernel: 4 blocks and 4 messages give a list of three nodes, an emptied and
  refilled list, a stale `tail` pointing at a block that is in use again as a
  node or a payload, and exhaustion. Two identifiers tell an order from its
  reverse.
* A2DP: one device needs two channels (signalling and media, or two crossing
  set-ups); two devices and two records are needed for collisions of records,
  and three attempts compete for two channels. One packet waiting (`MaxRx`)
  reaches the deferral of a command behind a pending one. Two commands still
  unanswered (`MaxSent = 2`, initiator) let an answer arrive after the abort
  that followed its command.
* Trusted devices: three places (eight on the chip) and four devices give an
  index with a first, an inner and a last entry, and a device to evict one; a
  device sinks below none, one or two priority devices. One reset
  (`MaxCrash = 1`) falls between any two writes of any operation and on any state
  the operations reach; `Boot` itself takes no further fault. The five `Modes`
  keep the operations together that act on the same part of a record: order
  with resets; keys from Bluestack with full stores and resets; priorities with
  debug keys and full stores; attributes; trust.
* HFP, AT: six kinds of gateway (answers all; old; refuses; silent after the
  set-up; slow; mute) instead of every combination. A buffer of three commands
  is filled by the commands of the library itself and overflows with a request.
  Two volumes tell a change from its absence.
* HFP, links: two links of `MAX_HFP_CONNECTIONS`, a service of HFP and one of
  HSP, two gateways that call one each; the client connects to one of them as
  well, for either profile or for both in turn.
* A2DP, HFP: deadlock is not checked: without further events from the environment the
  library is idle, which is a legal final state, and so is a panic.
* Symmetry over channels and addresses is used in safety runs only.

### Fairness

`KernelTask`: the loop runs and handlers return (`EnterLoop`, `Dispatch`,
`FreeCurr`). `A2dp`: the scheduler delivers what is due (the theorem
`ListImplementsQueue` and `kernel_delivery` are the grounds for that) and
timers that are pending fire; the connection library confirms every request
it was given, reports losses and completes disconnections, as its contract
says. Each is weak fairness of one step per channel or per timer. Nothing is
assumed of the client or of the remote device: an answer may never come, an
accepted attempt may fail. `TrustedDeviceList`: a handler that has begun
writes to its end and a boot takes place (`Write`, `Boot`). `HfpAt`: lines that
have arrived and messages are handled, the AT timeout fires, the gateway does
something with the next command (answer, refuse or leave it, as its kind
allows) and a requested disconnection is confirmed. `HfpLink`: per link, its
timers and messages are handled and the set-up on its channel ends (what
`hfp_at` shows and `hfp_setup_stuck` limits); per gateway, the connection
library completes searches and channels, one way or the other.

### Disagreements between the code and its documentation

The four violation runs are described in `PROJECT.json` under `findings`, each
with the comment or the documentation it contradicts. Seen while modelling and
not given a run:

Kernel

* `MessageSendLater` drops its delay (`task.c:50`; `message.h:71`: "delay The
  delay in ms before the message will be sent");
* payloads are not freed after delivery (`task.c:26`), so the heap runs out.

A2DP

* a late answer of the client reaches the next device that uses the record, and
  an indication can be answered twice (`a2dp_api.c:489`);
* a managed link loss is given up at once when the media channel was up
  (`a2dp_l2cap_handler.c:1371` against `:1315`): the premise of
  `ManagedLossKept`;
* a general reject from a device up to AVDTP 1.2 leaves
  `pending_received_transaction` set for ever (`a2dp_packet_handler.c:387`);
* accepting a start after the signalling channel has gone panics
  (`a2dp_command_handler.c:1420`; the invariant `~panicked` added to
  `A2dpAcceptor.cfg` shows it);
* a connect request is never confirmed when the channel goes before the SDP
  search for the version has ended; and it is confirmed as failed when one of
  two crossing attempts fails while the other goes on (the field `owed`);
* `inbound_connection_id`'s identifier is not zeroed when an inbound attempt is
  accepted automatically;
* a media channel in `disconnect_pending` is not recognised when its
  confirmation comes (see above), and its record stays;
* the watchdog survives the clearing of a record by `memset` and fires in the
  next connection; so does the retry timer of a removed record;
* a media open request is not confirmed when the watchdog aborts it;
* a command that was deferred is read again only when something else arrives,
  not when the client's answer makes room for it;
* the table `A2dpSignallingState`, six entries long, is indexed with
  `disconnect_pending`, the seventh state.

Trusted devices

* `dm_security_handler.c` says it deletes a device that pairs without bonding
  "if not a priority device"; `connectionAuthDeleteDeviceFromTdl` deletes it
  whatever it is;
* a device that takes the place of another inherits its attribute data, and so
  does one that is stored after a reset in the middle of a deletion (premise of
  `AttributesFollow`); the evicted device stays registered with Bluestack;
* the loop of the boot repair has an empty body (a stray `;`) and deletes only
  the key behind the last record;
* `connectionAuthUpdateMru` and `connectionAuthUpdateTdl` put devices in front
  of priority devices (premise of `PriorityFirst`);
* a reset in the middle of `connectionAuthDeleteAllDevice` ends in a boot that
  wipes the whole index, priority devices included;
* a failed `PsStore` or a debug key leaves Bluestack's trust different from the
  record's (premise of `Registered`);
* `store_trusted_device_index` ignores a failing `PsStore`;
* where a char has 8 bits the `memset`s of `connection_tdl.c:168` and `:217`
  clear half of what they clear on the chip.

HFP, AT channel

* `hfpCmeeCmdPending` has no case in the switch of `atCmdAckReceived`
  (`hfp_ok.c`), so AT+CSRSF is never sent after AT+CMEE;
* after a timeout the late OK is taken for the next command (premise of
  `AnswersMatch`);
* a request that finds the buffer full is never confirmed, and an AT+VGS
  leaves `at_vol_pending` set;
* a +VGS that crosses an AT+VGS leaves the sides with different volumes;
* `HFP_AT_CMD_CFM` is sent twice on an HSP link;
* the set-up fails with a gateway without AT+BRSF and three-way calling when the
  SDP result comes late;
* a failing SDP registration leaves `busy_channel` set;
* `HFP_CURRENT_CALLS_CFM` is sent to the client for the library's own AT+CLCC;
* a disconnect request for a link without a sink does nothing
  (`hfp_slc_handler.c:576`), and the link comes up.

HFP, links

* `HfpManageLinkLoss` indexes `links` by priority and does not cancel the link
  loss timeout;
* a recovering link that owns a service forgets it when the gateway calls
  another service, which stays busy (premise of `ServicesAccountedFor`);
* the result of a search made for an earlier attempt is taken for the present
  one (`StaleSearch`);
* an AT failure on the channel of a recovery ends the recovery.

AVRCP (read, not modelled)

* the choice of the next transaction label (`avrcp_common.c:37`) truncates the
  registered events to 8 bits and looks up labels one off;
* `registered_events` stays set after a timeout, and a failed registration of
  events 9 to 13 is not confirmed.

## 4. Proofs

`KernelTaskProofs` proves for every heap, every set of identifiers and every
number of messages:

* `TypeCorrect`, `ListAlwaysLinked`, `DeliveryInOrder`, `NodesNeverLost`
  (invariants; the last says that every node in use waits or is being handled,
  so that no node leaks),
* `NoFreedBlockUsed` (an action property: every write goes to a node in use and
  the loop reads a node in use),
* `ListImplementsQueue` (`KernelTask` implements `MessageQueue`).

All rest on `Invariance`: `IInv` holds in `Init` (`InitIInv`) and is preserved
by each action (`LinkStep`, `DispatchStep`, `FreeCurrStep`, `OtherStep`).
`IInv` is the conjunction of

* `ListShape`: `first`, `next` and `tail` link exactly the nodes of `order`;
* `NodesAccountedFor`: the blocks in use as nodes are the waiting ones and the
  one being handled, all different. Without it `LinkStep` could be handed a
  block that is still in the list, or write through a `tail` that was freed;
* nodes in use carry an identifier, `curr` is set exactly in a handler;
* `InOrder`: what was posted is what was delivered followed by what waits.

`ListShape` alone is not inductive: that the block `malloc` returns is none of
the list's needs `NodesAccountedFor`, and that freeing `curr` leaves the list
alone needs `curr \notin Nodes`. The step of `Link` splits on an empty and a
nonempty list, that of `Dispatch` on a list of one and of more nodes. The
assumptions are those of `KernelTask`: `NULL` is no block, `NoId` no
identifier, the bounds are natural numbers.

### Trusted devices

`TrustedDeviceListProofs` proves, for any number of places and any devices,
`TypeCorrect`, `OneEntryForADevice`, `IndexStaysInStep`,
`RegistrationsAgree`, `PriorityDevicesFirst` and `AttributesStayWithDevice`
(the invariants of the run `tdl`), all from `Invariance`.

Its invariant `IInv` is about the future of an operation rather than its past:
*what is left in `todo` is a series of writes of which every prefix leaves the
store safe (`Safe`), and which ends in a final state of the operation
(`Final`)*. The store alone cannot tell whether it is between two operations
or in the middle of one, and `todo` alone says nothing of what is stored, so
neither would be inductive; together, `Write` consumes the first of the series,
`Crash` finds a safe store because every prefix is, and each operation has one
lemma saying that the series it begins is of this kind. `Safe` gives what a boot
relies on (distinct entries, one record per device, types); `Final` gives what
holds between operations (entries readable, priorities first, registrations,
attributes). The lemmas about the operators say what `Moved`, `Removed` and
`Sunk` keep: entries distinct, used entries first, and exactly the entry they
are about moved or gone.

Hypothesis `SafeModes`: a client that deletes all devices and uses priority
devices does not use what puts a device in front of a priority one (MRU
updates, keys of Bluestack) nor meets a reset. `connectionAuthDeleteAllDevice`
leaves gaps in the index, and a priority device behind a gap is lost; the run
`tdl_priority` shows it. All modes of the run `tdl` satisfy it.

### A2DP

`A2dpProofs` proves, for any number of records, channels and addresses, any
`Events` and `Versions` and any bounds, `TypeCorrect`, `OneRecordPerDevice`,
`SinksOfItsOwn`, `NeverWaitsForNothing`, `StreamsHaveMedia`,
`NoMediaBehindIdle`, `LabelsInStep` (the invariants of the four A2DP runs),
`LossIsManaged` and `AbortIsFinal` (their action properties). All rest on
`Invariance`: `IInv` says that

* each record is `Sound` in itself: its sinks are two different channels to its
  device (`SinksOwned`), stream state and media channel fit (`StreamAndMedia`),
  a record without an address is idle (`Unused`), no loss is noted where
  signalling is up (`NoLoss`), and the label expected is that of the last
  command sent (`LabelInStep`);
* each record is `Placed` among the channels: a media channel outlives the
  signalling channel only while the loss of both is being indicated; a record
  that is being set up has a channel on the way, or the retry timer; one with
  two crossing attempts has another besides the inbound one;
* addresses are `Distinct`;
* `ChannelsOK`: the link of a lost channel has none that is up, and a channel
  requested for a record that was removed never comes up.

None of the invariants is inductive alone. That `ChannelsMatch` survives the
closing of a channel needs the closed one to be found by `OwnsAsSignalling` or
`OwnsAsMedia`, hence two different sinks of one record and of no other
(`Distinct`). `SetupUnderWay` loses the failing channel of two that cross,
and needs to know that there was another. `StreamHasMedia` needs to know what a
media channel without signalling is: lost.

The proof follows the code. Handlers of an established link never change
which device a record is for or what connects to it: `Keeps` says so, and
`A2dpStreamProofs` shows that each of them turns a sound record into a sound one
that keeps it (`Outcome`). `A2dpProofs` adds the handlers that do change it
(connect, crossover, failure, disconnection, loss, retry), each with the channel
event that calls it; what the connection library does with the output of a step
(`EmitRecords`); and that an event on the channels of one device is none of the
business of other records (`Follows`). Two action properties are carried along in the same
case split (`Allowed`), so that no handler is treated twice. The packets read in
one step are a recursive function of their number, and the outcome of reading
them is an induction over it (`ReadsExist` and the lemmas after it).

Hypothesis of `AbortIsFinal`: `MaxRx <= 1`. `a2dpHandleSignalPacket` reads on
while it can; of two packets that waited, the first can end the abort and the
second begin the next stream within one step, so that with `MaxRx = 2` TLC finds
a step from `local_aborting` to `configured` that passes through `idle`. The
property speaks of steps and is meant for one packet at a time. The other
theorems have no hypothesis.

### HFP links

`HfpLinkProofs` proves, for any gateways, services and one link or two,
`OneLinkForADevice`, `PrioritiesStayInOrder`, `TypeCorrect`,
`ChannelsHaveLinks`, `ReconnectsOnlyLost`, `ServicesAreAccountedFor` (the
invariants of the run `hfp_link`) and `NoPanicWithoutCrossover`.

* `LinksInOrder` needs no hypothesis: the records by themselves (`LinksOK`:
  an idle link is as reset left it, links in use have different devices and
  priorities, a secondary link has a primary one) are kept by every handler,
  also by those that take stale search results.
* `LinksMatchChannels` relates them to what is outside (`Matching`): for a link
  in use, `Fits` says which searches, channels and timers its state allows;
  a device without a link has none. It is needed for the panics and for
  `ReconnectOnlyLost`: that `hfpSendAtCmd` has a sink is known only from what
  the channel was when the link became connected. Hypothesis `Regular`:
  `LossCrossover` and `StaleSearch` are off. `hfp_link_panic` shows that the
  first is needed; section 3 says what the second breaks.
* `ServicesAreAccountedFor` needs `OneService` instead: a gateway calls one
  service. A recovering link that is called for another service forgets the one
  it has marked busy (section 3). Its invariant is `Owning`: an owned service
  is busy, was called by the link's device, and belongs to one link, which is
  not searching: a search for the other profile changes the link's service.

### HFP AT channel

`HfpAtProofs` proves for all kinds of gateways, features, capacities and volumes
`TypeCorrect`, `ClientVolumeWins`, `AnswersComeInTurn`, `ClientHearsOnce` and
`RequestsConfirmedOnce`, without hypotheses:

* `Turns`: of the command pending in the link, the command on the air and the
  answers on their way back, exactly one carries the turn (or the gateway
  ignored it). `AnswersMatch` is the case in which it is an answer, and is not
  inductive for want of the other two;
* `Once`: while the set-up runs, the pending command determines what waits
  in the buffer and on the lines (`SettingUp`); once it is complete, no command
  and no line that could complete it again is left anywhere (`SetUp`). So just
  one of the three handlers that confirm a connection does;
* `Owing`: for each kind of request, confirmations owed are at least the
  commands of the kind pending or buffered and the messages queued for it. The
  confirmation of a handler takes one of them away; commands a full buffer
  drops stay owed, which is why it is no equation.

`HfpVolumeProofs` proves `VolumesConverge`. Its invariant `Converging` says of
the volume reports and settings on their way that they cross, or that the last
of them is what the other side already has. Hypothesis `TakesVgs`: no gateway
refuses AT+VGS, as the library does not learn what a gateway makes of a
setting it refuses. The agreement is not tied to `Turns`: settings queue in
the buffer while other commands have the turn.

### Induction

`LeastElement` states least elements and induction for *sets* of naturals, so
that they can be cited without an operator parameter: a property P of n is the
set `{n \in Nat : P}`. Loops over tables (find the first link, the last entry,
sink a device) are proved with it, and so are the recursive functions of the
models (the packets of a source, one after the other).

### Only model-checked

Liveness (`EveryMessageDelivered`, `BootCompletes`, `AttemptsEnd`,
`RequestsConfirmed`, `SetupEnds`, `LossResolved`, `TransientEnds`): fairness and
`ENABLED` are out of TLAPS' reach here. `ImplementsMruList`: the mapping is a
selection from the index by a recursive definition of the library whose
parameter is an operator.

## 5. Plan

In this order; each step ends with its runs and, where named, its theorem.

1. `A2dpClient`: an abstract specification of one A2DP link as its client sees
   it (down, connecting, up, lost), with `A2dp` as its implementation under the
   confirmations owed. What is said above of `owed`, stale timers and deferred
   commands belongs to it.
2. `A2dpSep`: reservation of endpoints and of data blocks.
3. `ConnectionLock`: one lock, requests re-sent conditionally; abstract
   specification: each request is confirmed once, to its sender.
4. AVRCP transaction labels and notifications; SWAT's device table; SPP.
5. The managers of the sink application as clients: link loss and multipoint.

### Not modelled

Audio connections and calls of HFP, the gateway side (AGHFP), AVRCP, GATT, SWAT,
OBEX and its clients, SPP and the sink application are message-driven code like
the modelled parts and are in the plan or left for want of it: they are large
(the application alone is several times the libraries) and repeat the patterns
of the modelled ones. Generated parsers, byte-level codecs, DSP code, audio
routing, display and USB classes, and the headers of the firmware hold no
protocol state that TLC could explore with profit.

Runs are kept to a dozen: related questions share one, and the violation runs
are merged or retired as the code or its documentation changes.
