----------------------------- MODULE A2dpDevice -----------------------------
(***************************************************************************)
(* The record the A2DP library keeps for one remote device (remote_device  *)
(* in a2dp_private.h) and the operations on it that every handler of the   *)
(* library is put together from: setting the stream state, sending an      *)
(* AVDTP command, aborting and resetting a stream, starting and completing *)
(* the signalling and the media channel.                                   *)
(*                                                                         *)
(* Every operator takes a device record and returns the new one.  What a   *)
(* handler asks of the connection library is collected in the field "out", *)
(* which the module A2dp applies to the L2CAP channels in the same step.   *)
(*                                                                         *)
(* Left out: MTUs, codecs and service capabilities, the list of local      *)
(* stream endpoints, and the contents of indications to the client.        *)
(***************************************************************************)
EXTENDS Naturals, Sequences

CONSTANTS
    Addr,       \* Bluetooth addresses of the remote devices
    NoAddr,     \* the zero address of a record that is not in use
    Chan,       \* L2CAP channels: a channel stands for its cid and its sink
    NoChan,     \* AVDTP_OUTGOING_CONNECTION_ID, and a sink never stored
    MaxLabel,   \* transaction labels run from 1 to MaxLabel (15 in the code)
    MaxSent     \* bound: commands a remote device may still answer

ASSUME AddrAssumption == NoAddr \notin Addr
ASSUME ChanAssumption == NoChan \notin Chan
ASSUME LabelAssumption == MaxSent \in Nat \ {0} /\ MaxLabel \in Nat /\ MaxLabel > MaxSent

LinkState == {"idle", "paging", "paged", "crossover", "connected", "disconnecting", "disconnect_pending"}

(* isSignallingConnected, isMediaConnected: still so while disconnecting.  *)
Joined == {"connected", "disconnecting", "disconnect_pending"}

Stable == {"idle", "configured", "open", "streaming"}

(* reconfig_reading_caps and remote_aborting are never assigned.           *)
StreamState == Stable \cup
    {"discovering", "reading_caps", "processing_caps", "configuring", "local_opening", "remote_opening",
     "local_starting", "remote_starting", "local_suspending", "local_closing", "remote_closing",
     "reconfiguring", "local_aborting"}

(* Messages the library sends itself with MessageSendLater, by device_id.  *)
Timer == {"linkloss", "retry", "watchdog", "clientRsp", "remoteCmd"}

(* Indications that the client answers, by device_id.                      *)
Question == {"connect", "configure", "open", "start"}

Version == {"not_requested", "pre13", "v13"}

NoOutput == [drop |-> {}, yes |-> {}, no |-> {}, call |-> FALSE, sdp |-> FALSE]

(* a2dpInitialiseRemoteDevice                                              *)
FreshDevice ==
    [ addr |-> NoAddr, version |-> "not_requested",
      sig |-> "idle", sink |-> NoChan, outCid |-> NoChan, inCid |-> NoChan, inId |-> FALSE,
      media |-> "idle", mSink |-> NoChan, mOutCid |-> NoChan, mInCid |-> NoChan, delayPending |-> FALSE,
      stream |-> "idle", issued |-> FALSE, received |-> FALSE, label |-> 0, localSep |-> FALSE,
      manage |-> FALSE, linkloss |-> FALSE, expired |-> FALSE,
      timers |-> {}, ask |-> {}, owed |-> {}, sent |-> <<>>, rx |-> <<>>, out |-> NoOutput ]

-----------------------------------------------------------------------------
(* Messages to the client: an indication it answers, a confirmation.       *)
Ask(d, q) == [d EXCEPT !.ask = @ \cup {<<q, d.addr>>}]

Confirm(d, req) == [d EXCEPT !.owed = @ \ {req}]

(* a2dpSetStreamState: the watchdog runs in every state that is not stable, *)
(* and the delay timers never outlive the state they were started in.      *)
SetStreamState(d, state) ==
    [d EXCEPT !.stream = state,
              !.timers = (@ \ {"clientRsp", "remoteCmd", "watchdog"})
                            \cup (IF state \in Stable THEN {} ELSE {"watchdog"})]

-----------------------------------------------------------------------------
(* a2dpSendCommand: one command at a time, except AVDTP_CLOSE and          *)
(* AVDTP_ABORT.  The remote device answers in order, or not at all.        *)
SinkValid(d) == d.sig \in Joined

CanSend(d, cmd) == SinkValid(d) /\ (d.issued => cmd \in {"close", "abort"})

NextLabelUnwrapped(l) == l + 1   \* a bug: label 0 and the width forgotten

NextLabel(l) == IF l = MaxLabel THEN 1 ELSE l + 1

LastSent(seq) == IF Len(seq) > MaxSent THEN SubSeq(seq, 2, Len(seq)) ELSE seq

Send(d, cmd) ==
    [d EXCEPT !.issued = TRUE,
              !.label = NextLabel(@),
              !.sent = LastSent(Append(@, [cmd |-> cmd, label |-> NextLabel(d.label)]))]

(* a2dpStreamReset, and a reset that forgets the pending transaction.      *)
StreamResetKeepsIssued(d) ==
    SetStreamState([d EXCEPT !.received = FALSE, !.label = 0], "idle")

StreamReset(d) ==
    SetStreamState([d EXCEPT !.issued = FALSE, !.received = FALSE, !.label = 0], "idle")

(* a2dpStreamAbort: AVDTP_ABORT can be sent whenever the signalling        *)
(* channel is connected, and nothing is done when it is not.               *)
StreamAbort(d) ==
    IF d.stream # "local_aborting" /\ d.sig = "connected"
    THEN SetStreamState(Send(d, "abort"), "local_aborting")
    ELSE d

(* The common tail of issueDiscover, issueGetCapabilities,                 *)
(* issueSetConfiguration and issueOpen.                                    *)
Issue(d, cmd, state) ==
    IF CanSend(d, cmd) THEN SetStreamState(Send(d, cmd), state)
                       ELSE Confirm(StreamAbort(d), "open")

-----------------------------------------------------------------------------
(* The media channel.                                                      *)
InitiateMediaOut(d) ==
    [d EXCEPT !.media = "paging", !.mOutCid = NoChan, !.mInCid = NoChan, !.mSink = NoChan,
              !.delayPending = FALSE, !.out.call = TRUE]

InitiateMediaIn(d, c) ==
    [d EXCEPT !.media = "paged", !.mOutCid = NoChan, !.mInCid = c, !.mSink = NoChan,
              !.delayPending = FALSE, !.out.yes = @ \cup {c}]

RemoveMedia(d) ==
    [d EXCEPT !.media = "idle", !.mOutCid = NoChan, !.mInCid = NoChan, !.mSink = NoChan, !.delayPending = FALSE]

(* a2dpMediaConnectReq                                                     *)
MediaConnectReq(d) ==
    IF d.sig = "connected" /\ d.media = "idle" THEN InitiateMediaOut(d) ELSE Confirm(d, "open")

DisconnectMediaSink(d) == [d EXCEPT !.media = "disconnecting", !.out.drop = @ \cup {d.mSink}]

(* a2dpMediaDisconnectReq on the stored sink                               *)
MediaDisconnectReq(d) == IF d.media = "connected" THEN DisconnectMediaSink(d) ELSE d

(* The value a2dpDisconnectAllMedia returns, and what it does.             *)
AnyMediaToDisconnect(d) == d.media \in {"paging", "paged", "connected", "disconnecting"}

DisconnectAllMedia(d) ==
    CASE d.media \in {"paging", "paged"} -> [d EXCEPT !.media = "disconnect_pending"]
      [] d.media = "connected"           -> DisconnectMediaSink(d)
      [] OTHER                           -> d

-----------------------------------------------------------------------------
(* The signalling channel.                                                 *)
DisconnectSignalling(d) == [d EXCEPT !.sig = "disconnecting", !.out.drop = @ \cup {d.sink}]

SignallingDisconnectPending(d) ==
    IF d.sig = "disconnect_pending" THEN DisconnectSignalling(d) ELSE d

(* The end of an abort: the stream is reset, then the media channel is     *)
(* taken down, or with none the signalling channel that waited for it.     *)
FinishAbort(d) ==
    LET r == StreamReset(d)
    IN  IF AnyMediaToDisconnect(r) THEN DisconnectAllMedia(r) ELSE SignallingDisconnectPending(r)

(* The memset of initiateSignalling clears the stream state with the       *)
(* signalling channel, and leaves the timers running.                      *)
ClearSignalling(d) ==
    [d EXCEPT !.sink = NoChan, !.outCid = NoChan, !.inCid = NoChan, !.inId = FALSE,
              !.stream = "idle", !.issued = FALSE, !.received = FALSE, !.label = 0,
              !.sent = <<>>, !.rx = <<>>]

InitiateSignallingOut(d) == [ClearSignalling(d) EXCEPT !.sig = "paging"]

InitiateSignallingIn(d, c) ==
    IF d.sig = "paging"
    THEN [d EXCEPT !.sig = "crossover", !.inCid = c, !.inId = TRUE]
    ELSE [ClearSignalling(d) EXCEPT !.sig = "paged", !.inCid = c, !.inId = TRUE]

CompleteSignalling(d, c) == [d EXCEPT !.sig = "connected", !.sink = c]

(* The signalling channel is gone, and with its sink what was in it.       *)
LeaveSignalling(d) == [d EXCEPT !.sig = "idle", !.sent = <<>>, !.rx = <<>>]

(* addDevice and removeDevice: the memset does not reach the timers, which *)
(* are keyed by device_id, nor the questions put to the client.            *)
AddDevice(d, a) == [FreshDevice EXCEPT !.addr = a, !.timers = d.timers, !.ask = d.ask]

RemoveDevice(d) == [FreshDevice EXCEPT !.timers = d.timers, !.ask = d.ask, !.owed = d.owed, !.out = d.out]

RequestVersion(d) == [d EXCEPT !.out.sdp = (d.version = "not_requested")]

StartLinklossTimer(d) == [d EXCEPT !.timers = @ \cup {"linkloss"}, !.linkloss = TRUE, !.expired = FALSE]

StopLinklossTimer(d) == [d EXCEPT !.timers = @ \ {"linkloss"}, !.linkloss = FALSE, !.expired = FALSE]
=============================================================================
