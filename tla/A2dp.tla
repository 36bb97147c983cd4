-------------------------------- MODULE A2dp --------------------------------
(***************************************************************************)
(* The A2DP library as a whole: the records of the remote devices, the     *)
(* L2CAP channels of the connection library they use, the client that      *)
(* makes requests and answers indications, and the remote devices.         *)
(*                                                                         *)
(* All the library's code runs in the handler of one task, so one message  *)
(* is one step.  The messages themselves are not queued here: a message    *)
(* may be handled at any time after it became due, which allows every      *)
(* order the queue of the scheduler can produce between independent        *)
(* senders.  A channel that was lost keeps its sink until the indication   *)
(* of the loss has been handled.                                           *)
(***************************************************************************)
EXTENDS A2dpLink, FiniteSets

CONSTANTS
    Slot,           \* device ids: 0 .. A2DP_MAX_REMOTE_DEVICES - 1
    Events,         \* what happens besides the library's own steps (see EventKind)
    RemoteSignals,  \* commands remote devices send: a subset of Command, and "corrupt"
    Versions,       \* AVDTP versions of remote devices
    MaxRx           \* bound: packets waiting in the source of a channel

ASSUME SlotAssumption == Slot \subseteq Nat /\ Slot # {} /\ IsFiniteSet(Slot)

(* The client connects, disconnects, manages link losses, controls         *)
(* streams; remote devices set up channels and take them down; the setup   *)
(* of a channel fails; a radio link is lost.                               *)
EventKind == {"connect", "disconnect", "manage", "stream", "inbound", "hangup", "failure", "loss"}

ASSUME EnvironmentAssumption ==
    /\ Events \subseteq EventKind
    /\ RemoteSignals \subseteq Command \cup {"corrupt"}
    /\ Versions \subseteq Version \ {"not_requested"}
    /\ MaxRx \in Nat

VARIABLES
    dev,        \* a2dp->remote_conn: one record per device id
    chan,       \* the L2CAP channels, as the connection library sees them
    sdp,        \* addresses with an SDP search for the A2DP version under way
    waiting,    \* connect requests sent again when the record of a device is cleared
    panicked    \* PanicFalse was called with FALSE

vars == <<dev, chan, sdp, waiting, panicked>>

(* A channel is requested, then calling once its cid is known, or ringing  *)
(* and accepted or refused; up; closing at our request, or lost with the   *)
(* link.                                                                   *)
ChanState == {"free", "requested", "calling", "ringing", "accepted", "refused", "up", "closing", "lost"}

FreeChan == [st |-> "free", addr |-> NoAddr]

Init ==
    /\ dev = [s \in Slot |-> FreshDevice]
    /\ chan = [c \in Chan |-> FreeChan]
    /\ sdp = {}
    /\ waiting = {}
    /\ panicked = FALSE

-----------------------------------------------------------------------------
Free(ch) == {c \in Chan : ch[c].st = "free"}

(* findDeviceFromBdaddr, and a search that overlooks devices being set up. *)
SlotsConnectedTo(a) == {s \in Slot : dev[s].addr = a /\ (a # NoAddr => dev[s].sig \in Joined)}

SlotsOf(a) == {s \in Slot : dev[s].addr = a}

EmptySlots == SlotsOf(NoAddr)

FirstEmptySlot == CHOOSE s \in EmptySlots : \A t \in EmptySlots : s <= t

(* What the connection library does with a step's output: it answers a     *)
(* ringing channel and takes down one that is up.                          *)
Applied(ch, out) ==
    [c \in Chan |->
        LET st == ch[c].st
        IN  CASE st = "ringing" /\ c \in out.yes          -> [ch[c] EXCEPT !.st = "accepted"]
              [] st = "ringing" /\ c \in out.no \ out.yes -> [ch[c] EXCEPT !.st = "refused"]
              [] st = "up" /\ c \in out.drop              -> [ch[c] EXCEPT !.st = "closing"]
              [] OTHER                                    -> ch[c]]

(* A step leaves device s with record d, ch being the channels after the   *)
(* event that caused it; the connection library does what it was asked to. *)
Emit(s, d, ch) ==
    LET applied == Applied(ch, d.out)
    IN  /\ dev' = [dev EXCEPT ![s] = [d EXCEPT !.out = NoOutput]]
        /\ IF d.out.call
           THEN \E c \in Free(applied) :
                   chan' = [applied EXCEPT ![c] = [st |-> "requested", addr |-> d.addr]]
           ELSE chan' = applied

Commit(s, d, ch) ==
    /\ Emit(s, d, ch)
    /\ sdp' = IF d.out.sdp THEN sdp \cup {d.addr} ELSE sdp

Step(s, d) == Commit(s, d, chan) /\ UNCHANGED <<waiting, panicked>>

(* An event of channel c is handled by the device found by its address.    *)
ChannelStep(c, st, Handle(_, _)) ==
    LET ch == [chan EXCEPT ![c] = IF st = "free" THEN FreeChan ELSE [@ EXCEPT !.st = st]]
        a == chan[c].addr
    IN  /\ \/ \E s \in SlotsOf(a) : Commit(s, Handle(dev[s], c), ch)
           \/ SlotsOf(a) = {} /\ chan' = ch /\ UNCHANGED <<dev, sdp>>
        /\ UNCHANGED <<waiting, panicked>>

-----------------------------------------------------------------------------
(* Requests of the client on signalling channels.                          *)
HandleSignallingConnectReq(a, queue) ==
    \/ /\ SlotsOf(a) = {} /\ EmptySlots # {}
       /\ Commit(FirstEmptySlot, ConnectOut(dev[FirstEmptySlot], a), chan)
       /\ waiting' = queue
    \/ /\ SlotsOf(a) = {} => EmptySlots = {}
       /\ LET s == CHOOSE s \in SlotsOf(a) : TRUE
          IN  waiting' = IF SlotsOf(a) # {} /\ dev[s].sig \in {"disconnecting", "disconnect_pending"}
                         THEN queue \cup {<<s, a>>} ELSE queue
       /\ UNCHANGED <<dev, chan, sdp>>

(* The client has one connect request for an address outstanding at most.  *)
SignallingConnectRequest(a) ==
    /\ "connect" \in Events
    /\ \A s \in SlotsOf(a) : "connect" \notin dev[s].owed
    /\ \A w \in waiting : w[2] # a
    /\ HandleSignallingConnectReq(a, waiting)
    /\ UNCHANGED panicked

(* MessageSendConditionally: delivered once the record's address is zero.  *)
ConnectRequestAgain(w) ==
    /\ w \in waiting
    /\ dev[w[1]].addr = NoAddr
    /\ HandleSignallingConnectReq(w[2], waiting \ {w})
    /\ UNCHANGED panicked

SignallingConnectResponse(s, a, accept) ==
    /\ <<"connect", a>> \in dev[s].ask
    /\ Step(s, SignallingConnectRes([dev[s] EXCEPT !.ask = @ \ {<<"connect", a>>}], accept))

SignallingDisconnectRequest(s) ==
    "disconnect" \in Events /\ dev[s].addr # NoAddr /\ Step(s, SignallingDisconnectReq(dev[s]))

(* The client has been told that the signalling channel is up, which is    *)
(* when it starts to use the device.                                       *)
Introduced(s) == dev[s].sig = "connected" /\ dev[s].version # "not_requested"

DeviceManageLinkloss(s, enable) ==
    /\ "manage" \in Events /\ Introduced(s) /\ dev[s].manage # enable
    /\ Step(s, [dev[s] EXCEPT !.manage = enable])

-----------------------------------------------------------------------------
(* Messages of the connection library.                                     *)
L2capConnectPending(c) == chan[c].st = "requested" /\ ChannelStep(c, "calling", ConnectPending)

(* No new channel comes up before the loss of the old link was indicated.  *)
LinkSettled(a) == \A c \in Chan : chan[c].addr = a => chan[c].st # "lost"

L2capConnectSuccess(c) ==
    /\ chan[c].st \in {"calling", "accepted"} /\ chan[c].addr # NoAddr /\ LinkSettled(chan[c].addr)
    /\ ChannelStep(c, "up", ConnectSuccess)

L2capConnectFailure(c) ==
    /\ \/ chan[c].st = "refused"
       \/ chan[c].st \in {"calling", "ringing", "accepted"} /\ ("failure" \in Events \/ chan[c].addr = NoAddr)
    /\ ChannelStep(c, "free", ConnectFailure)

(* A remote device sets up one channel at a time.                          *)
L2capConnectInd(a) ==
    /\ "inbound" \in Events /\ LinkSettled(a)
    /\ \A c \in Chan : chan[c].addr = a => chan[c].st \notin {"ringing", "accepted", "refused"}
    /\ \E c \in Free(chan) :
          LET ch == [chan EXCEPT ![c] = [st |-> "ringing", addr |-> a]]
          IN  CASE SlotsOf(a) # {} -> \E s \in SlotsOf(a) : Commit(s, ConnectInd(dev[s], c), ch)
                [] SlotsOf(a) = {} /\ EmptySlots # {} ->
                       Commit(FirstEmptySlot, ConnectIndNew(dev[FirstEmptySlot], a, c), ch)
                [] OTHER -> chan' = Applied(ch, [NoOutput EXCEPT !.no = {c}]) /\ UNCHANGED <<dev, sdp>>
    /\ UNCHANGED <<waiting, panicked>>

(* The remote device, or the library, took the channel down.               *)
L2capDisconnect(c) ==
    /\ chan[c].st = "closing" \/ (chan[c].st = "up" /\ "hangup" \in Events)
    /\ ChannelStep(c, "free", LAMBDA d, x : Disconnected(d, x, FALSE))

(* The radio link to a is lost, with every channel on it.                  *)
LinkLost(a) ==
    /\ "loss" \in Events
    /\ \E c \in Chan : chan[c].addr = a /\ chan[c].st = "up"
    /\ chan' = [c \in Chan |-> IF chan[c].addr = a /\ chan[c].st = "up"
                               THEN [chan[c] EXCEPT !.st = "lost"] ELSE chan[c]]
    /\ UNCHANGED <<dev, sdp, waiting, panicked>>

L2capLinklossInd(c) ==
    chan[c].st = "lost" /\ ChannelStep(c, "free", LAMBDA d, x : Disconnected(d, x, TRUE))

SdpSearchCfm(a, v) ==
    /\ a \in sdp
    /\ sdp' = sdp \ {a}
    /\ \/ SlotsOf(a) = {} /\ UNCHANGED <<dev, chan>>
       \/ \E s \in SlotsOf(a) : Emit(s, VersionFound(dev[s], v), chan)
    /\ UNCHANGED <<waiting, panicked>>

-----------------------------------------------------------------------------
(* AVDTP packets: MESSAGE_MORE_DATA is sent when a packet arrives.         *)
Arrives(s, p, d) ==
    /\ d.sig \in Joined /\ chan[d.sink].st = "up" /\ Len(d.rx) < MaxRx
    /\ Step(s, HandleSignalPacket([d EXCEPT !.rx = Append(@, p)]))

RemoteCommand(s, p) ==
    /\ p \in CommandPacket /\ p.sig \in RemoteSignals
    /\ Arrives(s, p, dev[s])

RemoteCorruptPacket(s) == "corrupt" \in RemoteSignals /\ Arrives(s, CorruptPacket, dev[s])

(* Commands are answered in order; one that is passed over never is.       *)
RemoteAnswer(s) ==
    \E i \in 1..Len(dev[s].sent) : \E p \in Answers(dev[s].version, dev[s].sent[i]) :
        Arrives(s, p, [dev[s] EXCEPT !.sent = SubSeq(@, i + 1, Len(@))])

-----------------------------------------------------------------------------
(* Requests and answers of the client on streams.                          *)
StreamRequest(s) ==
    /\ "stream" \in Events /\ Introduced(s)
    /\ \/ "open" \notin dev[s].owed /\ \E known \in BOOLEAN : Step(s, StreamEstablish(dev[s], known))
       \/ Step(s, StreamStart(dev[s]))
       \/ Step(s, StreamSuspend(dev[s]))
       \/ Step(s, StreamReconfigure(dev[s]))
       \/ Step(s, StreamRelease(dev[s]))
       \/ Step(s, StreamDelayReport(dev[s]))

Answered(s, q) == [dev[s] EXCEPT !.ask = {x \in @ : x[1] # q}]

Asked(s, q) == \E x \in dev[s].ask : x[1] = q

MediaOpenResponse(s, accept) == Asked(s, "open") /\ Step(s, StreamOpenResponse(Answered(s, "open"), accept))

MediaStartResponse(s, accept) ==
    /\ Asked(s, "start")
    /\ Commit(s, StreamStartResponse(Answered(s, "start"), accept), chan)
    /\ panicked' = StartResponsePanics(dev[s], accept)
    /\ UNCHANGED waiting

CodecResponse(s, accept, pick) ==
    Asked(s, "configure") /\ Step(s, CodecConfigureResponse(Answered(s, "configure"), accept, pick))

-----------------------------------------------------------------------------
(* Timers: any of them may fire while it is pending.                       *)
Expired(s, t) == [dev[s] EXCEPT !.timers = @ \ {t}]

Fires(s, t, Handle(_)) == t \in dev[s].timers /\ Step(s, Handle(Expired(s, t)))

Timeout(s) ==
    \/ Fires(s, "linkloss", LinklossTimeout)
    \/ Fires(s, "retry", RetryTimeout)
    \/ Fires(s, "watchdog", WatchdogTimeout)
    \/ Fires(s, "clientRsp", ClientRspTimeout)
    \/ Fires(s, "remoteCmd", RemoteCmdTimeout)

-----------------------------------------------------------------------------
Running ==
    \/ \E a \in Addr :
          \/ SignallingConnectRequest(a)
          \/ L2capConnectInd(a)
          \/ LinkLost(a)
          \/ \E v \in Versions : SdpSearchCfm(a, v)
    \/ \E w \in waiting : ConnectRequestAgain(w)
    \/ \E c \in Chan :
          \/ L2capConnectPending(c)
          \/ L2capConnectSuccess(c)
          \/ L2capConnectFailure(c)
          \/ L2capDisconnect(c)
          \/ L2capLinklossInd(c)
    \/ \E s \in Slot :
          \/ SignallingDisconnectRequest(s)
          \/ \E enable \in BOOLEAN : DeviceManageLinkloss(s, enable)
          \/ \E p \in CommandPacket : RemoteCommand(s, p)
          \/ RemoteCorruptPacket(s)
          \/ RemoteAnswer(s)
          \/ StreamRequest(s)
          \/ \E accept \in BOOLEAN :
                \/ \E a \in Addr : SignallingConnectResponse(s, a, accept)
                \/ MediaOpenResponse(s, accept)
                \/ MediaStartResponse(s, accept)
                \/ \E pick \in EndpointPick : CodecResponse(s, accept, pick)
          \/ Timeout(s)

Next == ~panicked /\ Running

Spec == Init /\ [][Next]_vars

(* The scheduler delivers every message and every timer in the end, and    *)
(* the connection library answers every request it was given.  Nothing is  *)
(* assumed of the client and of the remote devices.                        *)
Completes(c) == ~panicked /\ chan[c].st # "ringing" /\ (L2capConnectSuccess(c) \/ L2capConnectFailure(c))
Pends(c)     == ~panicked /\ L2capConnectPending(c)
Closes(c)    == ~panicked /\ chan[c].st = "closing" /\ L2capDisconnect(c)
ReportsLoss(c) == ~panicked /\ L2capLinklossInd(c)

LinklossFires(s) == ~panicked /\ Fires(s, "linkloss", LinklossTimeout)
RetryFires(s)    == ~panicked /\ Fires(s, "retry", RetryTimeout)
WatchdogFires(s) == ~panicked /\ Fires(s, "watchdog", WatchdogTimeout)

Fairness ==
    /\ \A c \in Chan : WF_vars(Pends(c)) /\ WF_vars(Completes(c)) /\ WF_vars(Closes(c)) /\ WF_vars(ReportsLoss(c))
    /\ \A s \in Slot : WF_vars(LinklossFires(s)) /\ WF_vars(RetryFires(s)) /\ WF_vars(WatchdogFires(s))

FairSpec == Spec /\ Fairness
=============================================================================
