-------------------------- MODULE HfpAtProperties --------------------------
(***************************************************************************)
(* What makes the AT command channel of an HFP link correct.               *)
(***************************************************************************)
EXTENDS HfpAt

(* Where the answers are among the lines that are on their way. *)
Answers == {i \in DOMAIN back : back[i].line \in {"success", "fail"}}

(* An answer is taken for the command the AG has answered: as long as no   *)
(* timeout has closed a command, at most one is unanswered and the next    *)
(* answer to come is for at_cmd_resp_pending (hfpHandleOk: "Handle this    *)
(* response in the context of the AT cmd it relates to").                  *)
AnswersMatch ==
  link.open /\ ~late /\ ~ignored =>
    IF link.pending = None
    THEN air = << >> /\ Answers = {}
    ELSE \/ Len(air) = 1 /\ air[1].cmd = link.pending /\ Answers = {}
         \/ air = << >> /\ \E i \in Answers : Answers = {i} /\ back[i].of = link.pending

(* The client hears of the connection exactly once, whichever of the ways  *)
(* the set-up ends: at AT+CMER, at +CHLD, or with the channel gone; also   *)
(* when the features come from SDP while the commands are on their way.    *)
ConnectConfirmedOnce == connects = (IF link.slc = "connected" THEN 0 ELSE 1)

Lost(k) == link.dropped[k] + (IF k = "cops" THEN link.dropped["copsFormat"] ELSE 0)

(* No request is confirmed twice, whatever answers come late: a kind of    *)
(* request has never more confirmations than requests whose command was    *)
(* not dropped at a full buffer.                                           *)
ConfirmedAtMostOnce == \A k \in Request : owed[k] >= Lost(k)

(* A volume the client has set and that is not sent yet is what AT+VGS     *)
(* will carry, whatever the AG reports meanwhile (hfpHandleSpeakerGain:    *)
(* "If we have a pending volume setting we want that to win").             *)
PendingVolumeWins == link.volPending => link.vol = wanted

(* When nothing is under way the two sides have the same volume, unless a  *)
(* +VGS and an AT+VGS have crossed, the AG has not answered, or AT+VGS     *)
(* found no room.                                                          *)
VolumesAgree ==
  /\ link.slc = "complete" /\ link.open
  /\ link.buffer = << >> /\ air = << >> /\ back = << >>
  /\ ~crossed /\ ~ignored /\ link.dropped["vgs"] = 0
  => link.vol = ag.vol

(* Every request is confirmed in the end, or its command was dropped at a  *)
(* full buffer, or the link has gone: an AG that leaves commands without   *)
(* an answer delays the others by a timeout each (hfpHandleWaitAtTimeout:  *)
(* "So we don't get completely stuck, send out the next cmd anyway").      *)
RequestsConfirmed ==
  \A k \in Request :
    link.slc = "complete" /\ owed[k] > Lost(k)
      ~> (owed[k] = Lost(k) \/ link.slc = "idle")

(* The set-up ends, with an SLC or with a failure, with every AG that      *)
(* answers the commands: with OK or ERROR, and whenever the SDP search     *)
(* brings its features.                                                    *)
SetupEnds == link.slc = "connected" ~> (link.slc # "connected" \/ ignored)

(* The set-up ends with every AG, as hfpHandleWaitAtTimeout promises: "So  *)
(* we don't get completely stuck, send out the next cmd anyway".           *)
NotStuck == link.slc = "connected" ~> link.slc # "connected"

============================================================================
