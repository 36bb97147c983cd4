------------------------------ MODULE A2dpLink ------------------------------
(***************************************************************************)
(* The link manager of a2dp_l2cap_handler.c: the handlers of the           *)
(* connection library's messages and of the client's signalling requests,  *)
(* as operators on the record of one remote device.                        *)
(***************************************************************************)
EXTENDS A2dpStream

SignallingConnectCfm(d) == Confirm(d, "connect")

RetryLater(d) == [d EXCEPT !.timers = @ \cup {"retry"}]

(* A new attempt after a link loss, made after a random delay.             *)
ReconnectForgotten(d) == InitiateSignallingOut(d)   \* a bug: the request is not made

Reconnect(d) == RetryLater(InitiateSignallingOut(d))

(* Client messages are not sent and AVDTP packets not read before the      *)
(* version of the remote device is known.                                  *)
SignallingUp(d) ==
    IF d.version = "not_requested" THEN d ELSE HandleSignalPacket(SignallingConnectCfm(d))

-----------------------------------------------------------------------------
(* a2dpHandleSignallingConnectReq for a remote device without a record.    *)
ConnectOut(d, a) ==
    LET new == [InitiateSignallingOut(AddDevice(d, a)) EXCEPT !.owed = {"connect"}, !.out.call = TRUE]
    IN  RequestVersion(new)

(* a2dpHandleSignallingConnectRes                                          *)
SignallingConnectRes(d, accept) ==
    IF d.sig \notin {"paged", "crossover"}
    THEN d
    ELSE RequestVersion(
            [d EXCEPT !.sig = IF @ = "crossover" /\ ~accept THEN "paging" ELSE @,
                      !.inId = FALSE,
                      !.out.yes = IF accept THEN @ \cup {d.inCid} ELSE @,
                      !.out.no = IF accept THEN @ ELSE @ \cup {d.inCid}])

(* a2dpHandleSignallingDisconnectReq                                       *)
SignallingDisconnectReq(d) ==
    LET r == [d EXCEPT !.manage = FALSE]
        Pending(e) == [e EXCEPT !.sig = "disconnect_pending"]
    IN  CASE r.sig # "connected"   -> r
          [] StreamClosable(r)     -> Pending(StreamClose(r))
          [] r.sig = "connected" /\ ~StreamClosable(r) /\ r.stream # "idle" -> Pending(StreamAbort(r))
          [] OTHER                 -> DisconnectSignalling(r)

-----------------------------------------------------------------------------
(* a2dpHandleL2capConnectInd for a remote device with a record, and for a  *)
(* new one.                                                                *)
Refuse(d, c) == [d EXCEPT !.out.no = @ \cup {c}]

ConnectInd(d, c) ==
    CASE d.sig = "idle" \/ (d.sig = "paging" /\ d.linkloss) ->
             [InitiateSignallingIn(d, c) EXCEPT !.out.yes = @ \cup {c}]
      [] d.sig = "paging" /\ ~d.linkloss -> Ask(InitiateSignallingIn(d, c), "connect")
      [] d.sig = "connected" /\ d.stream = "remote_opening" /\ d.media = "idle" -> InitiateMediaIn(d, c)
      [] OTHER -> Refuse(d, c)

ConnectIndNew(d, a, c) == Ask(InitiateSignallingIn(AddDevice(d, a), c), "connect")

-----------------------------------------------------------------------------
(* a2dpHandleL2capConnectCfm, by the status of the confirmation.           *)
SettingUp(d) == d.sig \in {"paging", "paged", "crossover"}

(* findMediaFromConnectionId: once it is no longer being set up, only the  *)
(* stored sink tells the cid of a media channel.                           *)
IsMedia(d, c) ==
    CASE d.media = "idle"                -> FALSE
      [] d.media \in {"paging", "paged"} -> c \in {d.mInCid, d.mOutCid} \/ d.mOutCid = NoChan
      [] d.media \in Joined              -> c = d.mSink

MediaPending(d, c) ==
    IF d.media \in {"paging", "paged"} /\ d.mInCid # c THEN [d EXCEPT !.mOutCid = c] ELSE d

ConnectPending(d, c) ==
    CASE SettingUp(d) /\ d.inCid # c        -> [d EXCEPT !.outCid = c]
      [] d.sig \in Joined /\ IsMedia(d, c) -> MediaPending(d, c)
      [] OTHER -> d

(* An inbound attempt that still waits for the client is refused when the  *)
(* outbound one succeeds.                                                  *)
RefuseCrossing(d, c) ==
    IF d.sig = "crossover" /\ c = d.outCid /\ d.inCid # NoChan /\ d.inId THEN Refuse(d, d.inCid) ELSE d

SignallingConnected(d, c) ==
    LET r == StopLinklossTimer(CompleteSignalling(RefuseCrossing(d, c), c))
    IN  SignallingUp([r EXCEPT !.timers = @ \ {"retry"}])

(* A bug: an abort under way is forgotten.                                 *)
MediaConnectedOpens(d, c) ==
    HandleSignalPacket(SetStreamState(Confirm([d EXCEPT !.media = "connected", !.mSink = c], "open"), "open"))

MediaConnected(d, c) ==
    LET r == Confirm([d EXCEPT !.media = "connected", !.mSink = c], "open")
    IN  HandleSignalPacket(IF d.stream = "local_aborting" THEN r ELSE SetStreamState(r, "open"))

DropChannel(d, c) == [d EXCEPT !.out.drop = @ \cup {c}]

ConnectSuccess(d, c) ==
    CASE SettingUp(d) -> SignallingConnected(d, c)
      [] d.sig \in Joined /\ IsMedia(d, c) -> MediaConnected(d, c)
      [] OTHER -> DropChannel(d, c)

CrossoverFailed(d, c) ==
    SignallingConnectCfm(IF d.inCid = c
                         THEN [d EXCEPT !.inCid = NoChan, !.inId = FALSE, !.sig = "paging"]
                         ELSE [d EXCEPT !.outCid = NoChan, !.sig = "paged"])

(* A bug: the first failed attempt to reconnect is the last one.           *)
SetupFailedGivesUp(d) == RemoveDevice(SignallingConnectCfm(d))

SetupFailed(d) ==
    CASE d.linkloss /\ d.manage /\ ~d.expired -> Reconnect(d)
      [] d.linkloss /\ (d.expired \/ ~d.manage) -> RemoveDevice(d)
      [] OTHER -> RemoveDevice(SignallingConnectCfm(d))

ConnectFailure(d, c) ==
    CASE d.sig = "crossover" -> CrossoverFailed(d, c)
      [] d.sig \in {"paging", "paged"} -> SetupFailed(d)
      [] d.sig \in Joined /\ IsMedia(d, c) -> StreamAbort(RemoveMedia(Confirm(d, "open")))
      [] OTHER -> d

-----------------------------------------------------------------------------
(* a2dpHandleL2capDisconnect.  The branch of a media channel for a link    *)
(* loss (sig "idle") is behind a test that is false in that state.         *)
SignallingDisconnected(d, linkloss) ==
    LET r == IF linkloss THEN StartLinklossTimer(d) ELSE d
    IN  CASE linkloss /\ d.manage /\ d.media \in Joined    -> LeaveSignalling(r)
          [] linkloss /\ d.manage /\ d.media \notin Joined -> Reconnect(r)
          [] ~(linkloss /\ d.manage) /\ AnyMediaToDisconnect(d) -> LeaveSignalling(DisconnectAllMedia(r))
          [] OTHER -> RemoveDevice(StreamReset(r))

(* A bug: the stream outlives its media channel.                           *)
MediaDisconnectedKeepsStream(d) ==
    LET r == RemoveMedia(d)
    IN  CASE d.sig = "disconnect_pending" -> DisconnectSignalling(r)
          [] d.sig \notin Joined          -> RemoveDevice(r)
          [] OTHER                        -> r

MediaDisconnected(d) ==
    LET r == StreamReset(RemoveMedia(d))
    IN  CASE d.sig = "disconnect_pending" -> DisconnectSignalling(r)
          [] d.sig \notin Joined          -> RemoveDevice(r)
          [] OTHER                        -> r

OwnsWhileConnected(d, c) == d.sig = "connected" /\ d.sink = c   \* a bug: disconnecting forgotten

OwnsAsSignalling(d, c) == d.sig \in Joined /\ d.sink = c

OwnsAsMedia(d, c) == d.media \in Joined /\ d.mSink = c

Disconnected(d, c, linkloss) ==
    CASE OwnsAsSignalling(d, c) -> SignallingDisconnected(d, linkloss)
      [] ~OwnsAsSignalling(d, c) /\ OwnsAsMedia(d, c) -> MediaDisconnected(d)
      [] OTHER -> d

-----------------------------------------------------------------------------
(* a2dpHandleL2capLinklossTimeout                                          *)
LinklossTimeoutLost(d) == d   \* a bug

LinklossTimeout(d) == [d EXCEPT !.expired = (@ \/ d.linkloss)]

(* a2dpHandleL2capConnectReq                                               *)
RetryTimeout(d) == [d EXCEPT !.out.call = TRUE]

(* a2dpHandleSdpServiceSearchAttributeCfm                                  *)
VersionFound(d, v) ==
    LET r == [d EXCEPT !.version = v]
    IN  IF d.version # "not_requested" THEN d
        ELSE IF d.sig = "connected" THEN SignallingUp(r)
        ELSE r
=============================================================================
