----------------------------- MODULE A2dpStream -----------------------------
(***************************************************************************)
(* The AVDTP stream state machine of a2dp_command_handler.c and            *)
(* a2dp_packet_handler.c: the commands and responses of the remote device, *)
(* the requests and answers of the client and the watchdogs, as operators  *)
(* on the record of one remote device.                                     *)
(*                                                                         *)
(* The bytes of a packet are abstracted to its type, its signal, its       *)
(* transaction label and "pick": what its contents lead the handler to     *)
(* choose (a command that passes a2dpProcess..., the next endpoint to try, *)
(* whether delay reporting was configured).  Commands that are answered at *)
(* once and change nothing (discover, get_capabilities, reconfigure,       *)
(* security_control, an unknown signal...) are the one command "query".    *)
(***************************************************************************)
EXTENDS A2dpDevice, SequencesExt

(* The outcome of looking for the next endpoint (continueStreamConnect and *)
(* selectNextSeid): ask its capabilities, configure it with settings the   *)
(* library selected, let the client select them, or none is left.          *)
EndpointPick == {"ask_caps", "select", "client", "none"}

(* After AVDTP_SET_CONFIGURATION was accepted: open at once, or wait for   *)
(* the client's or for the remote device's delay report first.             *)
ConfiguredPick == {"open", "client_delay", "remote_delay"}

CommandPick == {"good", "bad"}

Command == {"query", "set_configuration", "open", "start", "close", "suspend", "abort", "delayreport"}

(* The commands this library issues.                                       *)
Issued == {"discover", "get_capabilities", "set_configuration", "reconfigure", "open", "start",
           "close", "suspend", "abort", "delayreport"}

CommandPacket == [type : {"command"}, sig : Command, label : {0}, pick : CommandPick]

(* A packet of message type 1, which AVDTP 1.2 does not define.            *)
CorruptPacket == [type |-> "general", sig |-> "query", label |-> 0, pick |-> "none"]

ResponsePicks(type, sig) ==
    CASE sig = "get_capabilities"                            -> EndpointPick
      [] sig = "set_configuration" /\ type = "accept"        -> ConfiguredPick
      [] sig = "set_configuration" /\ type = "reject"        -> EndpointPick
      [] OTHER                                               -> {"none"}

(* What a remote device may answer to a command it was sent.  Up to AVDTP  *)
(* 1.2 a general reject is a command of signal 0 (avdtp_null).             *)
GeneralReject(version, m) ==
    IF version = "v13" THEN [type |-> "general", sig |-> m.cmd, label |-> m.label, pick |-> "none"]
                       ELSE [type |-> "command", sig |-> "null", label |-> m.label, pick |-> "none"]

Answers(version, m) ==
    {GeneralReject(version, m)}
      \cup UNION { {[type |-> t, sig |-> m.cmd, label |-> m.label, pick |-> p] : p \in ResponsePicks(t, m.cmd)}
                     : t \in {"accept", "reject"} }

Packet == [type : {"command", "accept", "reject", "general"}, sig : Command \cup Issued \cup {"null"},
           label : 0..MaxLabel, pick : EndpointPick \cup ConfiguredPick \cup CommandPick]

-----------------------------------------------------------------------------
(* Stream establishment by the local device.                               *)
NextEndpoint(d, pick) ==
    CASE pick = "ask_caps" -> Issue(d, "get_capabilities", "reading_caps")
      [] pick = "select"   -> Issue(d, "set_configuration", "configuring")
      [] pick = "client"   -> Ask(SetStreamState(d, "processing_caps"), "configure")
      [] OTHER             -> Confirm(StreamReset(d), "open")

IssueOpen(d) == Issue(d, "open", "local_opening")

WaitWithTimer(d, timer) ==
    LET c == SetStreamState(d, "configured") IN [c EXCEPT !.timers = @ \cup {timer}]

ContinueConfigured(d, pick) ==
    CASE pick = "client_delay" -> WaitWithTimer(d, "clientRsp")
      [] pick = "remote_delay" -> WaitWithTimer(d, "remoteCmd")
      [] OTHER                 -> IssueOpen(d)

DelayStates == {"configured", "local_opening", "remote_opening", "open", "streaming", "local_starting", "remote_starting"}

(* a2dpStreamDelayReport                                                   *)
StreamDelayReport(d) ==
    IF d.stream \notin DelayStates \/ d.sig # "connected" THEN d
    ELSE IF CanSend(d, "delayreport") THEN Send(d, "delayreport")
    ELSE [d EXCEPT !.delayPending = TRUE]

-----------------------------------------------------------------------------
(* Responses (a2dpHandle...Response).                                      *)
DiscoverResponse(d, p) ==
    IF d.stream # "discovering" THEN d
    ELSE IF p.type = "accept" THEN Issue(d, "get_capabilities", "reading_caps")
    ELSE Confirm(StreamReset(d), "open")

GetCapabilitiesResponse(d, p) == IF d.stream = "reading_caps" THEN NextEndpoint(d, p.pick) ELSE d

SetConfigurationResponse(d, p) ==
    IF d.stream # "configuring" THEN d
    ELSE IF p.type = "accept" THEN ContinueConfigured([d EXCEPT !.localSep = TRUE], p.pick)
    ELSE NextEndpoint(d, p.pick)

ReconfigureResponse(d) == IF d.stream = "reconfiguring" THEN SetStreamState(d, "open") ELSE d

OpenResponse(d, p) ==
    IF d.stream # "local_opening" THEN d
    ELSE IF p.type = "accept" THEN MediaConnectReq(d)
    ELSE Confirm(StreamAbort(d), "open")

StartResponse(d, p) ==
    IF d.stream \notin {"open", "local_starting", "streaming"} THEN d
    ELSE SetStreamState(d, IF p.type = "accept" \/ d.stream = "streaming" THEN "streaming" ELSE "open")

SuspendResponse(d, p) ==
    IF d.stream \notin {"local_suspending", "open"} THEN d
    ELSE SetStreamState(d, IF p.type = "accept" \/ d.stream = "open" THEN "open" ELSE "streaming")

CloseStates == {"open", "local_starting", "remote_starting", "local_suspending", "streaming",
                "reconfiguring", "remote_closing", "local_closing"}

CloseResponse(d, p) ==
    IF d.stream \notin CloseStates THEN d
    ELSE IF p.type = "accept" THEN MediaDisconnectReq(SetStreamState(d, "local_closing"))
    ELSE StreamAbort(d)

DelayReportResponse(d, p) ==
    CASE d.stream = "configured" /\ p.type = "accept" -> (IF d.localSep THEN IssueOpen(d) ELSE d)
      [] d.stream = "configured" /\ p.type # "accept" -> Confirm(StreamAbort(d), "open")
      [] d.stream = "streaming" /\ d.delayPending     -> StreamDelayReport([d EXCEPT !.delayPending = FALSE])
      [] OTHER                                        -> d

ResponseTo(d, p) ==
    CASE p.sig = "discover"          -> DiscoverResponse(d, p)
      [] p.sig = "get_capabilities"  -> GetCapabilitiesResponse(d, p)
      [] p.sig = "set_configuration" -> SetConfigurationResponse(d, p)
      [] p.sig = "reconfigure"       -> ReconfigureResponse(d)
      [] p.sig = "open"              -> OpenResponse(d, p)
      [] p.sig = "start"             -> StartResponse(d, p)
      [] p.sig = "suspend"           -> SuspendResponse(d, p)
      [] p.sig = "close"             -> CloseResponse(d, p)
      [] p.sig = "abort"             -> FinishAbort(d)
      [] p.sig = "delayreport"       -> DelayReportResponse(d, p)

(* The label is compared only while a transaction is pending.              *)
Mismatch(d, p) == d.issued /\ p.label # d.label

HandleReceiveResponse(d, p) ==
    IF Mismatch(d, p) THEN d ELSE ResponseTo([d EXCEPT !.issued = FALSE], p)

(* processGeneralRejectResponse: it leaves the transaction pending.        *)
ProcessGeneralReject(d, p) ==
    IF Mismatch(d, p) THEN d
    ELSE IF d.stream = "local_suspending" THEN SetStreamState(d, "open")
    ELSE StreamAbort(d)

(* handleBadHeader: the header is rejected, which ends whatever command    *)
(* was still waiting for its reply.                                        *)
HandleBadHeader(d, p) == IF p.sig = "discover" THEN d ELSE [d EXCEPT !.received = FALSE]

-----------------------------------------------------------------------------
(* Commands (a2dpHandle...Command), entered with d.received set.           *)
Reply(d) == [d EXCEPT !.received = FALSE]

(* a2dpSendReject gives up when it cannot claim space in the sink.         *)
Reject(d) == IF SinkValid(d) THEN Reply(d) ELSE d

Configurable == {"idle", "discovering", "reading_caps", "processing_caps", "configuring", "configured"}

SetConfigurationCommand(d, p) ==
    IF d.stream \in Configurable /\ p.pick = "good"
    THEN Reply(SetStreamState([d EXCEPT !.localSep = FALSE], "configured"))
    ELSE Reply(d)

OpenCommand(d, p) ==
    IF d.stream = "configured" /\ p.pick = "good"
    THEN Ask(SetStreamState(d, "remote_opening"), "open")
    ELSE Reply(d)

StartCommand(d, p) ==
    IF d.stream \in {"open", "local_starting", "remote_starting"} /\ p.pick = "good"
    THEN Ask(SetStreamState(d, "remote_starting"), "start")
    ELSE Reply(d)

CloseCommand(d, p) ==
    IF d.stream \in CloseStates \ {"remote_closing", "local_closing"} /\ p.pick = "good"
    THEN Reply(SetStreamState(d, "remote_closing"))
    ELSE Reply(d)

SuspendCommand(d, p) ==
    IF d.stream \in {"streaming", "local_suspending"} /\ p.pick = "good"
    THEN Reply(SetStreamState(d, "open"))
    ELSE Reply(d)

(* An AVDTP_ABORT for another endpoint than the current one is ignored.    *)
AbortCommandKeepsMedia(d, p) == IF p.pick = "good" THEN StreamReset(Reply(d)) ELSE d   \* a bug

AbortCommand(d, p) ==
    IF p.pick = "good" THEN StreamReset(DisconnectAllMedia(Reply(d))) ELSE d

DelayReportCommand(d) ==
    IF d.stream = "configured" /\ d.localSep THEN IssueOpen(Reply(d)) ELSE Reply(d)

(* handleReceiveCommand returns FALSE: the packet stays in the source.     *)
Opening == {"remote_opening", "local_opening"}

Deferred(d, p) ==
    p.type = "command" /\ (d.received \/ (p.sig \in {"start", "close"} /\ d.stream \in Opening))

HandleReceiveCommand(d, p) ==
    LET r == [d EXCEPT !.received = TRUE]
    IN  CASE p.sig = "null"              -> ProcessGeneralReject(r, p)
          [] p.sig = "set_configuration" -> SetConfigurationCommand(r, p)
          [] p.sig = "open"              -> OpenCommand(r, p)
          [] p.sig = "start"             -> StartCommand(r, p)
          [] p.sig = "close"             -> CloseCommand(r, p)
          [] p.sig = "suspend"           -> SuspendCommand(r, p)
          [] p.sig = "abort"             -> AbortCommand(r, p)
          [] p.sig = "delayreport"       -> DelayReportCommand(r)
          [] OTHER                       -> Reply(r)

ProcessSignalPacket(d, p) ==
    CASE p.type = "command"                           -> HandleReceiveCommand(d, p)
      [] p.type = "general" /\ d.version = "v13"      -> ProcessGeneralReject(d, p)
      [] p.type = "general" /\ d.version # "v13"      -> HandleBadHeader(d, p)
      [] OTHER                                        -> HandleReceiveResponse(d, p)

(* a2dpHandleSignalPacket: packets are taken from the source until one is  *)
(* deferred; that one and those behind it stay.  Nothing is read before    *)
(* the version of the remote device is known.                              *)
TakePacket(d, p) ==
    IF d.rx # <<>> \/ Deferred(d, p) THEN [d EXCEPT !.rx = Append(@, p)]
                                     ELSE ProcessSignalPacket(d, p)

HandleSignalPacket(d) ==
    IF d.version = "not_requested" \/ ~SinkValid(d)
    THEN d
    ELSE LET after[n \in 0..Len(d.rx)] ==   \* the record after n packets
                 IF n = 0 THEN [d EXCEPT !.rx = <<>>] ELSE TakePacket(after[n - 1], d.rx[n])
         IN  after[Len(d.rx)]

-----------------------------------------------------------------------------
(* Requests and answers of the client.                                     *)

(* a2dpStreamClose: FALSE when there is no stream to close gracefully.     *)
StreamClosable(d) ==
    /\ d.sig = "connected" /\ d.media = "connected"
    /\ d.stream \in {"open", "streaming", "local_starting", "remote_starting", "local_suspending"}

StreamClose(d) == SetStreamState(Send(d, "close"), "local_closing")

(* a2dpStreamEstablish: "open" is owed until MEDIA_OPEN_CFM is sent.       *)
StreamEstablish(d, known) ==
    IF d.sig # "connected" \/ d.stream # "idle" THEN d
    ELSE IF known THEN Issue([d EXCEPT !.owed = @ \cup {"open"}], "discover", "discovering")
    ELSE StreamAbort(d)

StreamOpenResponse(d, accept) ==
    IF d.sig # "connected" \/ d.stream # "remote_opening" THEN d
    ELSE IF accept THEN Reply(d)
    ELSE StreamReset(Reply(d))

(* a2dpStreamStart, a2dpStreamSuspend and a2dpStreamReconfigure            *)
RequestInState(d, from, cmd, state) ==
    IF d.sig # "connected" \/ d.media # "connected" \/ d.stream # from THEN d
    ELSE IF CanSend(d, cmd) THEN SetStreamState(Send(d, cmd), state)
    ELSE StreamAbort(d)

StreamStart(d)       == RequestInState(d, "open", "start", "local_starting")
StreamSuspend(d)     == RequestInState(d, "streaming", "suspend", "local_suspending")
StreamReconfigure(d) == RequestInState(d, "open", "reconfigure", "reconfiguring")

Startable == {"open", "remote_starting", "streaming"}

StreamStartResponse(d, accept) ==
    IF d.stream \notin Startable THEN Reject(d)
    ELSE IF accept \/ d.stream = "streaming" THEN Reply(SetStreamState(d, "streaming"))
    ELSE Reject(SetStreamState(d, "open"))

(* a2dpSendAccept panics when the packet cannot be put into the sink.      *)
StartResponsePanics(d, accept) ==
    d.stream \in Startable /\ (accept \/ d.stream = "streaming") /\ ~SinkValid(d)

StreamRelease(d) ==
    IF d.sig = "connected" /\ d.media = "connected" /\ d.stream \in CloseStates \ {"remote_closing", "local_closing"}
    THEN StreamClose(d)
    ELSE d

CodecConfigureResponse(d, accept, pick) ==
    IF d.stream # "processing_caps" THEN d
    ELSE IF accept THEN Issue(d, "set_configuration", "configuring")
    ELSE NextEndpoint(d, pick)

-----------------------------------------------------------------------------
(* Timeouts.                                                               *)
WatchdogNeverGivesUp(d) == StreamAbort(d)   \* a bug: the abort itself may be lost

WatchdogTimeout(d) == IF d.stream = "local_aborting" THEN FinishAbort(d) ELSE StreamAbort(d)

(* A delay of zero is reported for a client that did not answer.           *)
ClientRspTimeout(d) ==
    IF d.stream = "configured" /\ CanSend(d, "delayreport") THEN Send(d, "delayreport") ELSE d

RemoteCmdTimeout(d) == IF d.stream = "configured" THEN IssueOpen(d) ELSE d
=============================================================================
