--------------------------- MODULE A2dpProperties ---------------------------
(***************************************************************************)
(* What the A2DP library promises of its channels, of the AVDTP stream     *)
(* state machine and of its answers to the client.                         *)
(***************************************************************************)
EXTENDS A2dp

(* The type of the record of one device: remote_device, signalling_channel *)
(* and media_channel of a2dp_private.h.                                    *)
DeviceRecord(d) ==
    /\ d.addr \in Addr \cup {NoAddr} /\ d.version \in Version
    /\ d.sig \in LinkState /\ d.media \in LinkState \ {"crossover"} /\ d.stream \in StreamState
    /\ {d.sink, d.outCid, d.inCid, d.mSink, d.mOutCid, d.mInCid} \subseteq Chan \cup {NoChan}
    /\ {d.inId, d.issued, d.received, d.localSep, d.manage, d.linkloss, d.expired, d.delayPending} \subseteq BOOLEAN
    /\ d.timers \subseteq Timer
    /\ d.ask \subseteq Question \X (Addr \cup {NoAddr})
    /\ d.owed \subseteq {"connect", "open"}
    /\ d.label \in 0..MaxLabel
    /\ d.sent \in Seq([cmd : Issued, label : 1..MaxLabel]) /\ Len(d.sent) <= MaxSent
    /\ d.rx \in Seq(Packet) /\ Len(d.rx) <= MaxRx
    /\ d.out = NoOutput

(* Every field holds a value of its type; in particular a media channel is *)
(* never in the crossover state (a2dpHandleL2capConnectCfm says so), and   *)
(* labels stay within their 4 bits.                                        *)
TypeOK ==
    /\ \A s \in Slot : DeviceRecord(dev[s])
    /\ chan \in [Chan -> [st : ChanState, addr : Addr \cup {NoAddr}]]
    /\ sdp \subseteq Addr
    /\ waiting \subseteq Slot \X Addr
    /\ panicked \in BOOLEAN

-----------------------------------------------------------------------------
(* Channels and records.                                                   *)

Live(d, c) == c \in Chan /\ chan[c].addr = d.addr /\ chan[c].st \in {"up", "lost", "closing"}

(* a2dp.h: "Only one Signalling channel per device is allowed."  No two    *)
(* records are ever for the same remote device, whichever side started the *)
(* connection and however requests are sent again (addDevice).             *)
AddressesUnique ==
    \A s, t \in Slot : s # t /\ dev[s].addr # NoAddr => dev[s].addr # dev[t].addr

(* A sink that the record counts as connected is that of a channel to its  *)
(* own remote device which is not yet gone, and the signalling and the     *)
(* media channel are two different ones: what arrives is never handled as  *)
(* the other kind (completeSignalling, completeMedia, removeDevice).       *)
ChannelsMatch ==
    \A s \in Slot : LET d == dev[s] IN
        /\ d.sig \in Joined => Live(d, d.sink)
        /\ d.media \in {"connected", "disconnecting"} => Live(d, d.mSink)
        /\ d.sig \in Joined /\ d.media \in {"connected", "disconnecting"} => d.sink # d.mSink

(* A record that waits for a signalling channel waits for something: the   *)
(* connection library is working on a channel to that device, or the retry *)
(* timer is running.  Otherwise the record would never be freed.           *)
SetupUnderWay ==
    \A s \in Slot : SettingUp(dev[s]) =>
        \/ "retry" \in dev[s].timers
        \/ \E c \in Chan : chan[c].addr = dev[s].addr
                           /\ chan[c].st \in {"requested", "calling", "ringing", "accepted", "refused"}

(* "Timer has expired, inform app of disconnect due to linkloss": a device *)
(* under link loss management keeps its record until the link loss timer   *)
(* has expired, however the attempts of both sides to reconnect cross and  *)
(* fail.  A media channel that is still connected at the loss must be gone *)
(* first (a2dpHandleL2capDisconnect gives up when it goes).                *)
ManagedLossKept ==
    [][ \A s \in Slot : dev[s].linkloss /\ dev[s].manage /\ ~dev[s].expired /\ dev[s].media \notin Joined
                            => dev'[s].addr = dev[s].addr ]_vars

(* A link loss is over in the end: the library reconnects, or gives up and *)
(* removes the record once the link loss timer has expired                 *)
(* (a2dpHandleL2capLinklossTimeout).                                       *)
LossResolved == \A s \in Slot : dev[s].linkloss ~> ~dev[s].linkloss

-----------------------------------------------------------------------------
(* The AVDTP stream.                                                       *)

(* Every state in which the library waits for the remote device or for the *)
(* client is left after a time, even if nobody ever answers                *)
(* (a2dp_private.h: "we still need a timeout to prevent our device         *)
(* hanging").                                                              *)
TransientEnds ==
    \A s \in Slot : dev[s].sig = "connected" /\ dev[s].stream \notin Stable
                        ~> dev[s].sig # "connected" \/ dev[s].stream \in Stable

MediaStreams == {"open", "local_starting", "remote_starting", "streaming", "local_suspending", "reconfiguring"}

(* An open or streaming stream has its media channel: whatever order the   *)
(* responses, the channel's confirmation, its loss and a reset come in.    *)
StreamHasMedia ==
    \A s \in Slot : dev[s].sig \in Joined /\ dev[s].stream \in MediaStreams => dev[s].media = "connected"

(* A stream that was reset takes its media channel down with it: none is   *)
(* left connected behind an idle stream, where no procedure would close it *)
(* (a2dpHandleAbortResponse, a2dpHandleAbortCommand, the watchdog).        *)
IdleHasNoMedia ==
    \A s \in Slot : dev[s].sig \in Joined /\ dev[s].stream = "idle" => dev[s].media # "connected"

(* An abort is final: whatever arrives meanwhile (a late response, a       *)
(* command, the confirmation of the media channel), the stream goes from   *)
(* aborting to idle (a2dpHandleL2capConnectCfm: "Only update Stream state  *)
(* ... if we are not in the process of aborting").                         *)
AbortEndsInIdle ==
    [][ \A s \in Slot : dev[s].stream = "local_aborting" /\ dev[s].sig = "connected"
                            => dev'[s].stream \in {"local_aborting", "idle"} ]_vars

(* While a command is pending, the answer to the latest command sent is    *)
(* one the library will take for it: resets and retries keep the labels in *)
(* step (a2dpSendCommand, a2dpStreamReset).                                *)
LatestAnswerMatches ==
    \A s \in Slot : dev[s].issued /\ dev[s].sent # <<>> => Last(dev[s].sent).label = dev[s].label

-----------------------------------------------------------------------------
(* What a comment of the library says, and the code does not keep.         *)

(* "we still need a timeout to prevent our device hanging": a requested    *)
(* disconnection of a signalling channel completes.                        *)
DisconnectCompletes == \A s \in Slot : dev[s].sig = "disconnect_pending" ~> dev[s].sig # "disconnect_pending"
=============================================================================
