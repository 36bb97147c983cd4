------------------------------- MODULE HfpAt -------------------------------
(***************************************************************************)
(* The AT command channel of one HFP link (lib/hfp): from the RFCOMM       *)
(* connection to its end, the commands that set up the service level       *)
(* connection (SLC), the ones the library sends by itself afterwards, and  *)
(* the requests of the client.                                             *)
(*                                                                         *)
(* hfpSendAtCmd puts a command into the RFCOMM buffer; one command at a    *)
(* time is flushed to the audio gateway (AG), and the next one when OK,    *)
(* ERROR or a timeout has closed the one before. Nothing in an answer says *)
(* which command it is for.                                                *)
(***************************************************************************)
EXTENDS Integers, Sequences

CONSTANTS Hf,           \* what the hands-free unit supports and asks for
          AgKinds,      \* AGs: their features, the commands they may refuse or not
                        \* answer, the ones whose answer may be late, and the bound
                        \* on the requests the client makes with such an AG
          None,         \* hfpNoCmdPending
          MaxGain,      \* HFP_MAX_GAIN
          Capacity,     \* bound: commands the RFCOMM buffer holds
          MaxAgVolume   \* bound: volume changes made at the AG

ASSUME AgAssumption == \A k \in AgKinds :
                         DOMAIN k = {"features", "refuses", "ignores", "slow", "requests"}
ASSUME BoundsAssumption == /\ MaxGain \in Nat /\ Capacity \in Nat \ {0}
                           /\ MaxAgVolume \in Nat

VARIABLES link,       \* hfp_link_data, with its RFCOMM sink and its AT timer
          inbox,      \* messages of the HFP task: internal requests, disconnection
          sdp,        \* an SDP search for the AG's features is running
          closing,    \* the connection library was asked to disconnect
          air,        \* commands on their way to the AG
          back,       \* lines on their way from the AG
          ag,         \* the AG: its kind and its speaker volume
          requests,   \* requests the client has made so far
          agChanges,  \* volume changes made at the AG so far
          owed,       \* per kind of request: made and not confirmed
          connects,   \* HFP_SLC_CONNECT_CFMs sent
          ignored,    \* the AG has left a command without an answer
          late,       \* a timeout has closed a command
          crossed,    \* a +VGS has met an AT+VGS under way
          wanted      \* the volume of the client's last request

vars == <<link, inbox, sdp, closing, air, back, ag, requests, agChanges,
          owed, connects, ignored, late, crossed, wanted>>

Request == {"user", "cops"}
SetupCommand == {"brsf", "bac", "cindTest", "cindRead", "cmer", "chld"}
Command == SetupCommand \cup
           {"nrec", "btrh", "clcc", "bia", "cmee", "csrsf", "vgs", "copsFormat"} \cup Request

ASSUME NoneAssumption == None \notin Command

Volume == 0..MaxGain
Status == {"success", "fail", "timeout"}

Supported(l, f) == f \in Hf /\ f \in l.features

(***************************************************************************)
(* Sending (hfp_send_data.c).                                              *)
(***************************************************************************)
(* Mutant: sends the next command whether or not one is unanswered. *)
SendsAtOnce(l) == l.open /\ l.buffer # << >>

CanSend(l) == l.open /\ l.buffer # << >> /\ l.pending = None

(* Mutant: the flag outlives the command. *)
FlushedKeepsPending(l) ==
  [l EXCEPT !.pending = Head(l.buffer), !.buffer = Tail(@), !.timer = TRUE]

(* getBytesToFlush and the restarted timeout of hfpSendNextAtCmd. *)
Flushed(l) ==
  [l EXCEPT !.pending = Head(l.buffer), !.buffer = Tail(@), !.timer = TRUE,
            !.volPending = @ /\ Head(l.buffer) # "vgs"]

(* The volume is written into AT+VGS when it is sent. *)
OnAir(l) == [cmd |-> Head(l.buffer), vol |-> l.vol]

(* hfpSendNextAtCmd, for a link in the state l the handler has made. *)
hfpSendNextAtCmd(l) ==
  IF CanSend(l) THEN link' = Flushed(l) /\ air' = Append(air, OnAir(l))
                ELSE link' = l /\ UNCHANGED air

(* hfpSendAtCmd, up to its call of hfpSendNextAtCmd: a command that does   *)
(* not fit is dropped, and nobody is told.                                 *)
Queued(l, c) ==
  CASE ~l.open -> l
    [] l.open /\ Len(l.buffer) < Capacity -> [l EXCEPT !.buffer = Append(@, c)]
    [] OTHER -> [l EXCEPT !.dropped[c] = @ + 1]

hfpSendAtCmd(l, c) == hfpSendNextAtCmd(Queued(l, c))

Post(ms) == inbox' = inbox \o ms

Confirmed(k) == owed' = [owed EXCEPT ![k] = @ - 1]

(***************************************************************************)
(* Answers (hfp_ok.c and the handlers it calls). They depend on the        *)
(* command that is pending, whatever command the AG has answered.          *)
(***************************************************************************)
(* Commands that a handler queues while the answered one is still pending. *)
AckQueues(l, status) ==
  CASE l.pending = "brsf" -> Queued(Queued(l, "cindTest"), "cindRead")
    [] l.pending = "cindTest" /\ status = "success" -> Queued(l, "cmer")
    [] l.pending = "cindRead" /\ status = "success" /\ Supported(l, "twc") -> Queued(l, "chld")
    [] l.pending = "copsFormat" /\ status = "success" -> Queued(l, "cops")
    [] OTHER -> l

(* Mutant: only the first command of the set-up may fail. *)
FirstFails(l, status) == /\ l.pending = "cindTest"
                         /\ status # "success" /\ l.slc = "connected" /\ l.open

(* hfpSlcCheckAtAck: a command of the set-up has failed. *)
SetupFails(l, status) == /\ l.pending \in {"cindTest", "cindRead", "cmer", "chld"}
                         /\ status # "success" /\ l.slc = "connected" /\ l.open

(* Mutant: the SLC is complete when event reporting is on. *)
CompletesAtCmer(l, status) == l.pending = "cmer" /\ status = "success"

(* hfpHandleCmerAtAck *)
AckCompletes(l, status) == /\ l.pending = "cmer" /\ status = "success"
                           /\ ~Supported(l, "twc")

(* Internal requests that a handler sends; hfpCmeeCmdPending has no case,  *)
(* so hfpHandleCmeeAtAck, which would go on with AT+CSRSF, is not called.  *)
AckPosts(l, status) ==
  CASE SetupFails(l, status) -> <<"disconnect">>
    [] AckCompletes(l, status) -> <<"nrec">>
    [] l.pending = "nrec" -> <<"btrh">>
    [] l.pending = "btrh" -> <<"clcc", "bia">>
    [] l.pending = "bia" -> <<"cmee">>
    [] OTHER -> << >>

(* Mutant: the format of the operator's name is confirmed by itself. *)
AckConfirmsFormat(l, status) ==
  CASE l.pending \in Request -> l.pending
    [] l.pending = "copsFormat" -> "cops"
    [] OTHER -> None

(* The request a confirmation is sent for, if any. *)
AckConfirms(l, status) ==
  CASE l.pending \in Request -> l.pending
    [] l.pending = "copsFormat" /\ status # "success" -> "cops"
    [] OTHER -> None

Acked(l, status) ==
  [l EXCEPT !.timer = FALSE,
            !.slc = IF AckCompletes(l, status) THEN "complete" ELSE @,
            !.features = IF l.pending = "bac" /\ l.slc = "connected" /\ status # "success"
                         THEN @ \ {"codec"} ELSE @,
            !.copsSet = @ \/ (l.pending = "copsFormat" /\ status = "success")]

(* What an answer makes the library do besides sending. *)
AckEffects(status) ==
  /\ Post(AckPosts(link, status))
  /\ IF AckConfirms(link, status) = None THEN UNCHANGED owed
                                         ELSE Confirmed(AckConfirms(link, status))
  /\ connects' = connects + (IF AckCompletes(link, status) THEN 1 ELSE 0)
  /\ sdp' = (sdp \/ (link.pending = "brsf" /\ status # "success"))

AckedLink(status) ==
  [AckQueues(Acked(link, status), status) EXCEPT !.pending = None]

(* Mutant: after a timeout the next command is not sent. *)
AckWithoutNext(status) ==
  /\ IF status = "timeout" THEN link' = AckedLink(status) /\ UNCHANGED air
                           ELSE hfpSendNextAtCmd(AckedLink(status))
  /\ AckEffects(status)

atCmdAckReceived(status) == hfpSendNextAtCmd(AckedLink(status)) /\ AckEffects(status)

(* The parser has read OK or ERROR. *)
HandleAck ==
  /\ link.slc # "idle" /\ back # << >> /\ Head(back).line \in {"success", "fail"}
  /\ atCmdAckReceived(Head(back).line)
  /\ back' = Tail(back)
  /\ UNCHANGED <<closing, ag, requests, agChanges, ignored, late, crossed, wanted>>

(* HFP_INTERNAL_WAIT_AT_TIMEOUT: hfpProfileHandler gives it to             *)
(* hfpHandleWaitAtTimeout only once the SLC is complete, and otherwise     *)
(* ignores it. It comes before the answer where the AG is slow.            *)
HandleTimeout ==
  /\ link.timer
  /\ link.pending \in ag.kind.slow \/ (air = << >> /\ back = << >>)
  /\ IF link.slc = "complete"
     THEN atCmdAckReceived("timeout") /\ late' = TRUE
     ELSE /\ link' = [link EXCEPT !.timer = FALSE]
          /\ UNCHANGED <<inbox, sdp, air, owed, connects, late>>
  /\ UNCHANGED <<closing, back, ag, requests, agChanges, ignored, crossed, wanted>>

(***************************************************************************)
(* Lines of the AG that are no answers.                                    *)
(***************************************************************************)
(* hfpHandleSupportedFeaturesInd: +BRSF, and AT+BAC where both sides       *)
(* negotiate codecs.                                                       *)
HandleBrsf ==
  LET l == [link EXCEPT !.features = ag.kind.features] IN
  /\ link.slc # "idle" /\ back # << >> /\ Head(back).line = "+BRSF"
  /\ IF Supported(l, "codec") THEN hfpSendAtCmd(l, "bac") ELSE link' = l /\ UNCHANGED air
  /\ back' = Tail(back)
  /\ UNCHANGED <<inbox, sdp, closing, ag, requests, agChanges, owed, connects, ignored, late, crossed, wanted>>

(* hfpHandleCallHoldSupportInd: +CHLD completes the SLC. *)
HandleChld ==
  /\ link.slc # "idle" /\ back # << >> /\ Head(back).line = "+CHLD"
  /\ link' = [link EXCEPT !.slc = "complete"]
  /\ connects' = connects + 1
  /\ Post(<<"nrec">>)
  /\ back' = Tail(back)
  /\ UNCHANGED <<sdp, closing, air, ag, requests, agChanges, owed, ignored, late, crossed, wanted>>

(* Mutant: the volume of the AG is taken whatever is pending here. *)
TakesAnyVolume(l) == l.slc = "complete"

TakesVolume(l) == l.slc = "complete" /\ ~l.volPending

VgsUnderWay == \/ \E i \in DOMAIN air : air[i].cmd = "vgs"
               \/ \E i \in DOMAIN back : back[i].of = "vgs"

(* hfpHandleSpeakerGain: +VGS. *)
HandleSpeakerGain ==
  /\ link.slc # "idle" /\ back # << >> /\ Head(back).line = "+VGS"
  /\ link' = IF TakesVolume(link) THEN [link EXCEPT !.vol = Head(back).vol] ELSE link
  /\ crossed' = (crossed \/ VgsUnderWay)
  /\ back' = Tail(back)
  /\ UNCHANGED <<inbox, sdp, closing, air, ag, requests, agChanges, owed, connects, ignored, late, wanted>>

(***************************************************************************)
(* Requests of the client.                                                 *)
(***************************************************************************)
(* A request that is confirmed: HfpAtCmdRequest (and the others whose      *)
(* command is confirmed when it is answered), HfpNetworkOperatorRequest.   *)
ClientRequest(k) ==
  /\ requests < ag.kind.requests
  /\ requests' = requests + 1
  /\ owed' = [owed EXCEPT ![k] = @ + 1]
  /\ Post(<<k>>)
  /\ UNCHANGED <<link, sdp, closing, air, back, ag, agChanges, connects, ignored, late, crossed, wanted>>

(* HfpSlcDisconnectRequest *)
ClientDisconnect ==
  /\ requests < ag.kind.requests /\ link.slc # "idle"
  /\ requests' = requests + 1
  /\ Post(<<"disconnect">>)
  /\ UNCHANGED <<link, sdp, closing, air, back, ag, agChanges, owed, connects, ignored, late, crossed, wanted>>

Clamped(gain) == IF gain > MaxGain THEN MaxGain ELSE gain

(* HfpVolumeSyncSpeakerGainRequest and hfpHandleVgsRequest, called by the  *)
(* client without a message: an AT+VGS that waits in the buffer will take  *)
(* the new volume.                                                         *)
VolumeRequest(gain) ==
  LET l == [link EXCEPT !.vol = Clamped(gain), !.volPending = TRUE] IN
  /\ requests < ag.kind.requests /\ link.slc = "complete" /\ link.vol # gain
  /\ requests' = requests + 1
  /\ wanted' = Clamped(gain)
  /\ IF link.volPending THEN link' = l /\ UNCHANGED air ELSE hfpSendAtCmd(l, "vgs")
  /\ UNCHANGED <<inbox, sdp, closing, back, ag, agChanges, owed, connects, ignored, late, crossed>>

(***************************************************************************)
(* Internal requests (hfpProfileHandler): the first message of the task.   *)
(***************************************************************************)
(* What a message makes the library do once the SLC is complete: the       *)
(* command it sends or, where that is not called for, the next message.    *)
Sends(l, m) ==
  CASE m \in {"nrec", "cmee"} -> IF Supported(l, m) THEN m ELSE None
    [] m = "clcc" -> IF Supported(l, "ecs") THEN m ELSE None
    [] m \in {"bia", "csrsf"} -> IF m \in Hf THEN m ELSE None
    [] m = "cops" -> IF l.copsSet THEN m ELSE "copsFormat"
    [] OTHER -> m

Skips(m) == CASE m = "nrec" -> <<"btrh">>
              [] m = "bia"  -> <<"cmee">>
              [] m = "cmee" -> <<"csrsf">>
              [] OTHER -> << >>

Deliver(m) == inbox # << >> /\ Head(inbox) = m

HandleRequest(m) ==
  /\ Deliver(m) /\ link.slc = "complete"
  /\ IF Sends(link, m) # None
     THEN hfpSendAtCmd(link, Sends(link, m)) /\ inbox' = Tail(inbox)
     ELSE inbox' = Tail(inbox) \o Skips(m) /\ UNCHANGED <<link, air>>
  /\ UNCHANGED <<sdp, closing, back, ag, requests, agChanges, owed, connects, ignored, late, crossed, wanted>>

(* A request for a link whose SLC is not complete fails. *)
RejectRequest(m) ==
  /\ Deliver(m) /\ link.slc # "complete"
  /\ inbox' = Tail(inbox)
  /\ IF m \in Request THEN Confirmed(m) ELSE UNCHANGED owed
  /\ UNCHANGED <<link, sdp, closing, air, back, ag, requests, agChanges, connects, ignored, late, crossed, wanted>>

(* hfpHandleDisconnectRequest: without audio and link loss the connection  *)
(* library is asked; for an idle link the client is told there is no SLC.  *)
HandleDisconnectRequest ==
  /\ Deliver("disconnect")
  /\ inbox' = Tail(inbox)
  /\ closing' = (closing \/ (link.slc # "idle" /\ link.open))
  /\ UNCHANGED <<link, sdp, air, back, ag, requests, agChanges, owed, connects, ignored, late, crossed, wanted>>

Reset(l) == [slc |-> "idle", open |-> FALSE, pending |-> None, buffer |-> << >>,
             features |-> {"twc"}, vol |-> 0, volPending |-> FALSE,
             copsSet |-> FALSE, timer |-> FALSE, dropped |-> l.dropped]

(* hfpHandleRfcommDisconnect: during the set-up the connection attempt has *)
(* failed (hfpSendSlcConnectCfmToApp), afterwards the client is told of    *)
(* the disconnection (hfpSendSlcDisconnectIndToApp).                       *)
HandleDisconnected ==
  /\ Deliver("gone")
  /\ inbox' = Tail(inbox)
  /\ link' = Reset(link)
  /\ connects' = connects + (IF link.slc = "connected" THEN 1 ELSE 0)
  /\ back' = << >>
  /\ UNCHANGED <<sdp, closing, air, ag, requests, agChanges, owed, ignored, late, crossed, wanted>>

(* hfpHandleServiceSearchAttributeCfm: the features of an AG that does not *)
(* answer AT+BRSF, used while the set-up is not complete.                  *)
SdpFeatures(found) ==
  /\ sdp
  /\ sdp' = FALSE
  /\ link' = IF found /\ link.slc = "connected" THEN [link EXCEPT !.features = ag.kind.features]
                                                ELSE link
  /\ UNCHANGED <<inbox, closing, air, back, ag, requests, agChanges, owed, connects, ignored, late, crossed, wanted>>

(***************************************************************************)
(* The environment: the AG, and the RFCOMM channel.                        *)
(***************************************************************************)
Line(l, c) == [line |-> l, of |-> c, vol |-> 0]

(* What an AG says before the OK to a command. *)
Info(c) == CASE c = "brsf" -> <<Line("+BRSF", c)>>
             [] c = "chld" -> <<Line("+CHLD", c)>>
             [] OTHER -> << >>

AgAccepts ==
  LET c == Head(air).cmd IN
  /\ link.open /\ air # << >>
  /\ c = "chld" => "twc" \in ag.kind.features
  /\ back' = back \o Append(Info(c), Line("success", c))
  /\ ag' = IF c = "vgs" THEN [ag EXCEPT !.vol = Head(air).vol] ELSE ag
  /\ air' = Tail(air)
  /\ UNCHANGED <<link, inbox, sdp, closing, requests, agChanges, owed, connects, ignored, late, crossed, wanted>>

AgRefuses ==
  LET c == Head(air).cmd IN
  /\ link.open /\ air # << >>
  /\ c \in ag.kind.refuses \/ (c = "chld" /\ "twc" \notin ag.kind.features)
  /\ back' = Append(back, Line("fail", c))
  /\ air' = Tail(air)
  /\ UNCHANGED <<link, inbox, sdp, closing, ag, requests, agChanges, owed, connects, ignored, late, crossed, wanted>>

AgIgnores ==
  /\ link.open /\ air # << >> /\ Head(air).cmd \in ag.kind.ignores
  /\ air' = Tail(air)
  /\ ignored' = TRUE
  /\ UNCHANGED <<link, inbox, sdp, closing, back, ag, requests, agChanges, owed, connects, late, crossed, wanted>>

(* The user turns the volume at the AG, once the SLC is complete. *)
AgVolume(v) ==
  /\ link.open /\ link.slc = "complete" /\ agChanges < MaxAgVolume /\ v # ag.vol
  /\ agChanges' = agChanges + 1
  /\ ag' = [ag EXCEPT !.vol = v]
  /\ back' = Append(back, [line |-> "+VGS", of |-> None, vol |-> v])
  /\ UNCHANGED <<link, inbox, sdp, closing, air, requests, owed, connects, ignored, late, crossed, wanted>>

(* The channel goes down; what was received stays readable until           *)
(* CL_RFCOMM_DISCONNECT_IND/CFM is handled.                                *)
Closes ==
  /\ link.open
  /\ link' = [link EXCEPT !.open = FALSE, !.buffer = << >>]
  /\ air' = << >>
  /\ Post(<<"gone">>)
  /\ UNCHANGED <<sdp, closing, back, ag, requests, agChanges, owed, connects, ignored, late, crossed, wanted>>

Disconnected == closing /\ Closes
Dropped == ~closing /\ Closes

----------------------------------------------------------------------------
(* hfpHandleRfcommConnectCfm: the channel is up and AT+BRSF is sent.       *)
Init ==
  /\ link = [Reset([dropped |-> [c \in Command |-> 0]]) EXCEPT
               !.slc = "connected", !.open = TRUE, !.pending = "brsf", !.timer = TRUE]
  /\ air = <<[cmd |-> "brsf", vol |-> 0]>>
  /\ inbox = << >> /\ back = << >>
  /\ sdp = FALSE /\ closing = FALSE
  /\ \E k \in AgKinds : ag = [kind |-> k, vol |-> 0]
  /\ requests = 0 /\ agChanges = 0
  /\ owed = [k \in Request |-> 0]
  /\ connects = 0
  /\ ignored = FALSE /\ late = FALSE /\ crossed = FALSE
  /\ wanted = 0

InternalRequest == {"nrec", "btrh", "clcc", "bia", "cmee", "csrsf"} \cup Request

Lines == HandleAck \/ HandleBrsf \/ HandleChld \/ HandleSpeakerGain

Messages == \/ \E m \in InternalRequest : HandleRequest(m) \/ RejectRequest(m)
            \/ HandleDisconnectRequest
            \/ HandleDisconnected

Client == \/ \E k \in Request : ClientRequest(k)
          \/ \E g \in 0..(MaxGain + 1) : VolumeRequest(g)
          \/ ClientDisconnect

AgStep == AgAccepts \/ AgRefuses \/ AgIgnores

Next == \/ Lines \/ Messages \/ HandleTimeout \/ Client
        \/ \E found \in BOOLEAN : SdpFeatures(found)
        \/ AgStep
        \/ \E v \in Volume : AgVolume(v)
        \/ Disconnected \/ Dropped

(* The scheduler delivers every message and runs every timer, a requested  *)
(* disconnection happens, and the AG deals with every command: by leaving  *)
(* it without an answer, if it likes.                                      *)
Fairness == /\ WF_vars(Lines) /\ WF_vars(Messages) /\ WF_vars(HandleTimeout)
            /\ WF_vars(AgStep) /\ WF_vars(Disconnected)

Spec == Init /\ [][Next]_vars /\ Fairness

============================================================================
