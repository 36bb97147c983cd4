------------------------------ MODULE HfpLink ------------------------------
(***************************************************************************)
(* The links of the HFP library (lib/hfp): connections made and accepted,  *)
(* crossing attempts, disconnection, and the recovery of lost links, over  *)
(* the RFCOMM channels and SDP searches of the connection library. What    *)
(* happens on the channel between "connected" and "complete" is HfpAt.     *)
(*                                                                         *)
(* Audio connections are left out. Every message of the connection library *)
(* is handled when it happens; what the library sends itself, and the      *)
(* timers, wait in the queue of its task.                                  *)
(***************************************************************************)
EXTENDS Integers, FiniteSets

CONSTANTS Device,         \* audio gateways (bdaddr)
          NumLinks,       \* MAX_HFP_CONNECTIONS, or 1 without multipoint
          Service,        \* local server channels
          Headset,        \* those of them whose profile is HSP; the others have HFP
          Calls,          \* which AG may call which of them
          Asked,          \* AGs that the client connects to
          None,           \* no device, sink or service
          LossCrossover,  \* an AG may call while a recovery searches it
          StaleSearch,    \* an SDP search may outlive the attempt it was made for
          MaxSearches     \* bound: SDP searches of one device under way

ASSUME LinksAssumption == NumLinks \in {1, 2} /\ MaxSearches \in Nat \ {0}
ASSUME OverlapAssumption == LossCrossover \in BOOLEAN /\ StaleSearch \in BOOLEAN
ASSUME ServiceAssumption ==
  /\ Service # {} /\ Service \subseteq Nat /\ Headset \subseteq Service
  /\ Calls \subseteq Device \X Service
ASSUME AskedAssumption == Asked \subseteq Device
ASSUME NoneAssumption == None \notin Device \cup Service \cup (Device \X {"out", "in"})

VARIABLES links,      \* theHfp->links
          busy,       \* services in use (service->busy)
          reconnect,  \* links with HFP_RFCOMM_LINK_LOSS_RECONNECT pending
          lossTimer,  \* links with HFP_RFCOMM_LINK_LOSS_TIMEOUT pending
          requests,   \* HFP_INTERNAL_SLC_DISCONNECT_REQ messages per link
          delayed,    \* CL_RFCOMM_CONNECT_INDs to look at again in 500 ms
          searches,   \* SDP searches under way per device
          channel,    \* RFCOMM: state of the channels, by device and side
          panic

vars == <<links, busy, reconnect, lossTimer, requests, delayed, searches, channel, panic>>

Link == 0..(NumLinks - 1)
Channel == Device \X {"out", "in"}
SlcState == {"idle", "searching", "outgoing", "incoming", "connected", "complete"}
Attempting == {"searching", "outgoing", "incoming", "connected"}

NoLink == [slc |-> "idle", dev |-> None, sink |-> None, loss |-> "none",
           prio |-> "invalid", svc |-> None, owns |-> FALSE, retry |-> FALSE]

(***************************************************************************)
(* Finding a link (hfp_link_manager.c). NumLinks stands for NULL.          *)
(***************************************************************************)
Null == NumLinks

First(P(_)) == IF \E l \in Link : P(l)
               THEN CHOOSE l \in Link : P(l) /\ \A k \in Link : k < l => ~P(k)
               ELSE Null

(* Mutant: a link is found once it has a channel. *)
LinkWithChannel(d) ==
  LET P(l) == links[l].slc \notin {"idle", "searching"} /\ links[l].dev = d IN First(P)

hfpGetLinkFromBdaddr(d) ==
  LET P(l) == links[l].slc # "idle" /\ links[l].dev = d IN First(P)

hfpGetIdleLink ==
  LET P(l) == links[l].slc = "idle" /\ links[l].loss # "recovery" IN First(P)

(* A link that searches is known by its address, later by its sink. *)
hfpGetLinkFromSink(c) ==
  LET P(l) == \/ links[l].slc = "searching" /\ links[l].dev = c[1]
              \/ links[l].slc \notin {"idle", "searching"} /\ links[l].sink = c
  IN  First(P)

(***************************************************************************)
(* Setting up and resetting a link.                                        *)
(***************************************************************************)
NewPriority(ls, l) ==
  CASE ls[l].prio # "invalid" -> ls[l].prio
    [] ls[l].prio = "invalid" /\ \E k \in Link : ls[k].prio = "primary" -> "secondary"
    [] OTHER -> "primary"

(* hfpLinkSetup *)
Setup(ls, l, s, d, sink, slc) ==
  [ls EXCEPT ![l] = [ls[l] EXCEPT !.prio = NewPriority(ls, l), !.svc = s, !.dev = d,
                                  !.sink = sink, !.slc = slc,
                                  !.owns = ls[l].owns \/ slc = "incoming"]]

(* Mutant: the other link stays the secondary one. *)
ResetOnly(ls, l) == [ls EXCEPT ![l] = NoLink]

(* Mutant: the reset leaves the state of the recovery alone. *)
ResetKeepsLoss(ls, l) == [k \in Link |->
                            CASE k = l -> [NoLink EXCEPT !.loss = ls[l].loss]
                              [] k # l /\ ls[k].prio = "secondary" -> [ls[k] EXCEPT !.prio = "primary"]
                              [] OTHER -> ls[k]]

(* hfpLinkReset with promotion of the secondary link. *)
Reset(ls, l) == [k \in Link |->
                   CASE k = l -> NoLink
                     [] k # l /\ ls[k].prio = "secondary" -> [ls[k] EXCEPT !.prio = "primary"]
                     [] OTHER -> ls[k]]

(* Mutant: the service is given up by a connection, not by an attempt. *)
ReleasedWhenComplete(ls, l) ==
  IF ls[l].owns /\ ls[l].slc = "complete" THEN {ls[l].svc} ELSE {}

(* The service a link gives up when it is reset. *)
Released(ls, l) == IF ls[l].owns THEN {ls[l].svc} ELSE {}

(* hfpGetProfileServerChannel: an SDP search for the AG's channel. *)
hfpGetProfileServerChannel(ls, l, s, d) ==
  /\ links' = Setup(ls, l, s, d, None, "searching")
  /\ searches' = [searches EXCEPT ![d] = @ + 1]

SameProfile(s, t) == s \in Headset <=> t \in Headset

(* hfpGetServiceFromProfile: the first service of a profile, busy or not.  *)
FirstOfProfile == {s \in Service : \A t \in Service : SameProfile(s, t) => s <= t}

IsHsp(l) == links[l].svc \in Headset

(* hfpSendSlcConnectCfmToApp with a failure: in a recovery the next        *)
(* attempt is scheduled (hfpHandleRfcommLinkLossComplete), at once if the  *)
(* recovery has timed out or been aborted.                                 *)
ConnectFails(l) ==
  IF links[l].loss # "none"
  THEN reconnect' = reconnect \cup {l} /\ UNCHANGED <<links, busy>>
  ELSE /\ links' = Reset(links, l)
       /\ busy' = busy \ Released(links, l)
       /\ UNCHANGED reconnect

(* hfpSendSlcDisconnectIndToApp, without what it tells the client. *)
DisconnectInd(l) == links' = Reset(links, l) /\ busy' = busy \ Released(links, l)

Panics == panic' = TRUE /\ UNCHANGED <<links, busy, reconnect, lossTimer, requests,
                                       delayed, searches, channel>>

(***************************************************************************)
(* Requests of the client.                                                 *)
(***************************************************************************)
(* HfpSlcConnectRequest, for one profile or for two to try in turn, the    *)
(* one of s first; a device that has a link, or no idle link, is confirmed *)
(* as busy.                                                                *)
SlcConnectRequest(d, s, two) ==
  LET l == hfpGetIdleLink IN
  /\ hfpGetLinkFromBdaddr(d) = Null /\ l # Null
  /\ searches[d] < MaxSearches /\ (StaleSearch \/ searches[d] = 0)
  /\ hfpGetProfileServerChannel([links EXCEPT ![l].retry = two], l, s, d)
  /\ UNCHANGED <<busy, reconnect, lossTimer, requests, delayed, channel, panic>>

(* HfpSlcDisconnectRequest *)
SlcDisconnectRequest(l) ==
  /\ links[l].prio # "invalid" /\ requests[l] = 0
  /\ requests' = [requests EXCEPT ![l] = 1]
  /\ UNCHANGED <<links, busy, reconnect, lossTimer, delayed, searches, channel, panic>>

(***************************************************************************)
(* Recovery of a lost link (hfp_rfc.c).                                    *)
(***************************************************************************)
(* hfpHandleRfcommLinkLossReconnect: the link is reset, keeps its priority *)
(* and searches again; or, when the recovery is over, the client is told.  *)
LinkLossReconnect(ls, l) ==
  LET fresh == [NoLink EXCEPT !.loss = "recovery", !.prio = ls[l].prio] IN
  IF ls[l].loss = "recovery"
  THEN /\ hfpGetProfileServerChannel([ls EXCEPT ![l] = fresh], l, ls[l].svc, ls[l].dev)
       /\ busy' = busy \ Released(ls, l)
  ELSE /\ links' = Reset(ls, l)
       /\ busy' = busy \ Released(ls, l)
       /\ UNCHANGED searches

(* HFP_RFCOMM_LINK_LOSS_RECONNECT, which is ignored in the other states.   *)
HandleReconnect(l) ==
  /\ l \in reconnect
  /\ links[l].dev \in Device => searches[links[l].dev] < MaxSearches
  /\ reconnect' = reconnect \ {l}
  /\ IF links[l].slc \in Attempting THEN LinkLossReconnect(links, l)
                                    ELSE UNCHANGED <<links, busy, searches>>
  /\ UNCHANGED <<lossTimer, requests, delayed, channel, panic>>

(* Mutant: an attempt in progress is waited for, but not marked. *)
LossTimeoutForgotten(l) ==
  /\ l \in lossTimer
  /\ lossTimer' = lossTimer \ {l}
  /\ IF links[l].slc \in Attempting /\ l \in reconnect
     THEN reconnect' = reconnect \ {l} /\ DisconnectInd(l)
     ELSE UNCHANGED <<links, busy, reconnect>>
  /\ UNCHANGED <<requests, delayed, searches, channel, panic>>

(* HFP_RFCOMM_LINK_LOSS_TIMEOUT: hfpHandleRfcommLinkLossTimeout gives up   *)
(* between two attempts, or lets the one in progress be the last.          *)
HandleLossTimeout(l) ==
  /\ l \in lossTimer
  /\ lossTimer' = lossTimer \ {l}
  /\ CASE links[l].slc \in Attempting /\ l \in reconnect ->
            reconnect' = reconnect \ {l} /\ DisconnectInd(l)
       [] links[l].slc \in Attempting /\ l \notin reconnect ->
            links' = [links EXCEPT ![l].loss = "timeout"] /\ UNCHANGED <<busy, reconnect>>
       [] OTHER -> UNCHANGED <<links, busy, reconnect>>
  /\ UNCHANGED <<requests, delayed, searches, channel, panic>>

(* HFP_INTERNAL_SLC_DISCONNECT_REQ in a recovery: the client, or a failed  *)
(* AT command, ends it (hfpHandleRfcommLinkLossAbort). With an attempt in  *)
(* progress the request is sent again, for the state that is now "abort".  *)
AbortRecovery(l) ==
  /\ requests[l] > 0 /\ links[l].slc # "idle" /\ links[l].loss \in {"recovery", "timeout"}
  /\ lossTimer' = lossTimer \ {l}
  /\ IF l \in reconnect
     THEN /\ reconnect' = reconnect \ {l}
          /\ DisconnectInd(l)
          /\ requests' = [requests EXCEPT ![l] = @ - 1]
     ELSE /\ links' = [links EXCEPT ![l].loss = "abort"]
          /\ UNCHANGED <<busy, reconnect, requests>>
  /\ UNCHANGED <<delayed, searches, channel, panic>>

(* hfpHandleDisconnectRequest otherwise: a search is given up, a channel   *)
(* is closed; without a sink, or when the channel has gone, the connection *)
(* library does not know it and nothing happens.                           *)
HandleDisconnectRequest(l) ==
  LET c == links[l].sink IN
  /\ requests[l] > 0
  /\ links[l].slc = "idle" \/ links[l].loss \in {"none", "abort"}
  /\ requests' = [requests EXCEPT ![l] = @ - 1]
  /\ IF links[l].slc = "searching" THEN ConnectFails(l)
                                   ELSE UNCHANGED <<links, busy, reconnect>>
  /\ IF links[l].slc \notin {"idle", "searching"} /\ c # None /\ channel[c] # "none"
     THEN channel' = [channel EXCEPT ![c] = "closing"]
     ELSE UNCHANGED channel
  /\ UNCHANGED <<lossTimer, delayed, searches, panic>>

(***************************************************************************)
(* SDP and outgoing channels.                                              *)
(***************************************************************************)
(* hfpHandleServiceSearchAttributeCfm: the AG's channel is known, and the  *)
(* profiles left to try are not looked at again. The connection library    *)
(* would refuse a second channel to the same AG.                           *)
SdpFound(d) ==
  LET l == hfpGetLinkFromBdaddr(d)
      connect == l # Null /\ links[l].slc = "searching"
  IN
  /\ searches[d] > 0 /\ (connect => channel[<<d, "out">>] = "none")
  /\ searches' = [searches EXCEPT ![d] = @ - 1]
  /\ IF connect THEN /\ links' = [links EXCEPT ![l].slc = "outgoing", ![l].retry = FALSE]
                     /\ channel' = [channel EXCEPT ![<<d, "out">>] = "asked"]
                ELSE UNCHANGED <<links, channel>>
  /\ UNCHANGED <<busy, reconnect, lossTimer, requests, delayed, panic>>

(* hfpSdpRetry: a service of the profile that is left to try, if any. *)
Left(l) == {s \in FirstOfProfile : links[l].retry /\ ~SameProfile(s, links[l].svc)}

(* ... or not: another search is started for the other profile.            *)
SdpFails(d, noData) ==
  LET l == hfpGetLinkFromBdaddr(d) IN
  /\ searches[d] > 0
  /\ CASE l # Null /\ links[l].slc = "searching" /\ noData /\ Left(l) # {} ->
            /\ \E s \in Left(l) :
                 links' = Setup([links EXCEPT ![l].retry = FALSE], l, s, d, None, "searching")
            /\ UNCHANGED <<busy, reconnect, searches>>
       [] l # Null /\ links[l].slc = "searching" /\ ~(noData /\ Left(l) # {}) ->
            ConnectFails(l) /\ searches' = [searches EXCEPT ![d] = @ - 1]
       [] OTHER ->
            searches' = [searches EXCEPT ![d] = @ - 1] /\ UNCHANGED <<links, busy, reconnect>>
  /\ UNCHANGED <<lossTimer, requests, delayed, channel, panic>>

(* CL_RFCOMM_CLIENT_CONNECT_CFM, pending: there is a sink. *)
OutgoingPending(d) ==
  LET l == hfpGetLinkFromBdaddr(d) IN
  /\ channel[<<d, "out">>] = "asked"
  /\ channel' = [channel EXCEPT ![<<d, "out">>] = "opening"]
  /\ links' = IF l = Null THEN links ELSE [links EXCEPT ![l].sink = <<d, "out">>]
  /\ UNCHANGED <<busy, reconnect, lossTimer, requests, delayed, searches, panic>>

(* The SLC is complete, and a recovery has succeeded (hfpSlcConnectTidy,   *)
(* hfpHandleRfcommLinkLossComplete).                                       *)
Completes(l) ==
  /\ StaleSearch \/ searches[links[l].dev] = 0
  /\ links' = [links EXCEPT ![l].slc = "complete", ![l].loss = "none"]
  /\ lossTimer' = IF links[l].loss = "none" THEN lossTimer ELSE lossTimer \ {l}

(* hfpHandleRfcommConnectCfm with success: with HSP that is all; with HFP  *)
(* AT+BRSF is sent, and hfpSendAtCmd panics when the link has no sink.     *)
ChannelOpens(c) ==
  LET l == hfpGetLinkFromBdaddr(c[1]) IN
  /\ channel[c] = "opening"
  /\ IF l # Null /\ ~IsHsp(l) /\ links[l].sink = None THEN Panics
     ELSE /\ channel' = [channel EXCEPT ![c] = "up"]
          /\ CASE l = Null -> UNCHANGED <<links, lossTimer>>
               [] l # Null /\ IsHsp(l) -> Completes(l)
               [] l # Null /\ ~IsHsp(l) -> /\ links' = [links EXCEPT ![l].slc = "connected"]
                                          /\ UNCHANGED lossTimer
          /\ UNCHANGED <<busy, reconnect, requests, delayed, searches, panic>>

(* hfpHandleRfcommConnectCfm with a failure. *)
ChannelFails(c) ==
  LET l == hfpGetLinkFromBdaddr(c[1]) IN
  /\ channel[c] \in {"asked", "opening"}
  /\ channel' = [channel EXCEPT ![c] = "none"]
  /\ IF l = Null THEN UNCHANGED <<links, busy, reconnect>> ELSE ConnectFails(l)
  /\ UNCHANGED <<lossTimer, requests, delayed, searches, panic>>

(***************************************************************************)
(* Incoming channels: hfpHandleRfcommConnectInd.                           *)
(***************************************************************************)
(* The next attempt of a recovery is due: it is cancelled in favour of the *)
(* call.                                                                   *)
AwaitsReconnect(l) == links[l].loss = "recovery" /\ l \in reconnect

(* Mutant: an outgoing channel under way is given up as well. *)
YieldsAnyAttempt(l) == links[l].slc \in {"searching", "outgoing"}

(* An outgoing attempt that has only searched gives way to the call. *)
Yields(l) == links[l].slc = "searching"

Accepts(l, s, d, ls, freed) ==
  /\ links' = Setup(ls, l, s, d, <<d, "in">>, "incoming")
  /\ busy' = (busy \ freed) \cup {s}
  /\ channel' = [channel EXCEPT ![<<d, "in">>] = "opening"]
  /\ delayed' = delayed \ {<<d, s>>}

AcceptIdle(d, s) ==
  /\ s \notin busy /\ hfpGetLinkFromBdaddr(d) = Null /\ hfpGetIdleLink # Null
  /\ Accepts(hfpGetIdleLink, s, d, links, {})
  /\ UNCHANGED reconnect

(* Mutant: the next attempt is left pending. *)
AcceptLostKeepsTimer(d, s) ==
  LET l == hfpGetLinkFromBdaddr(d) IN
  /\ s \notin busy /\ l # Null /\ AwaitsReconnect(l)
  /\ Accepts(l, s, d, links, {})
  /\ UNCHANGED reconnect

AcceptLost(d, s) ==
  LET l == hfpGetLinkFromBdaddr(d) IN
  /\ s \notin busy /\ l # Null /\ AwaitsReconnect(l)
  /\ reconnect' = reconnect \ {l}
  /\ Accepts(l, s, d, links, {})

(* The outgoing attempt fails, "crossover". *)
AcceptCrossover(d, s) ==
  LET l == hfpGetLinkFromBdaddr(d) IN
  /\ s \notin busy /\ l # Null /\ ~AwaitsReconnect(l) /\ Yields(l)
  /\ IF links[l].loss = "none"
     THEN Accepts(l, s, d, Reset(links, l), Released(links, l)) /\ UNCHANGED reconnect
     ELSE /\ LossCrossover
          /\ reconnect' = reconnect \cup {l}
          /\ Accepts(l, s, d, links, {})

Delay(d, s) ==
  LET l == hfpGetLinkFromBdaddr(d) IN
  /\ s \notin busy /\ l # Null /\ ~AwaitsReconnect(l) /\ ~Yields(l) /\ links[l].slc = "outgoing"
  /\ delayed' = delayed \cup {<<d, s>>}
  /\ channel' = [channel EXCEPT ![<<d, "in">>] = "offered"]
  /\ UNCHANGED <<links, busy, reconnect>>

Reject(d, s) ==
  LET l == hfpGetLinkFromBdaddr(d) IN
  /\ \/ s \in busy
     \/ l = Null /\ hfpGetIdleLink = Null
     \/ l # Null /\ ~AwaitsReconnect(l) /\ links[l].slc \notin {"searching", "outgoing"}
  /\ channel' = [channel EXCEPT ![<<d, "in">>] = "none"]
  /\ delayed' = delayed \ {<<d, s>>}
  /\ UNCHANGED <<links, busy, reconnect>>

HandleConnectInd(d, s) ==
  /\ \/ AcceptIdle(d, s) \/ AcceptLost(d, s) \/ AcceptCrossover(d, s)
     \/ Delay(d, s) \/ Reject(d, s)
  /\ UNCHANGED <<lossTimer, requests, searches, panic>>

RemoteConnects(d, s) == channel[<<d, "in">>] = "none" /\ HandleConnectInd(d, s)

(* After 500 ms; a call that has been given up has no sink any more.       *)
LookAgain(d, s) ==
  /\ <<d, s>> \in delayed
  /\ IF channel[<<d, "in">>] = "offered" THEN HandleConnectInd(d, s)
     ELSE /\ delayed' = delayed \ {<<d, s>>}
          /\ UNCHANGED <<links, busy, reconnect, lossTimer, requests, searches, channel, panic>>

RemoteGivesUp(d) ==
  /\ channel[<<d, "in">>] = "offered"
  /\ channel' = [channel EXCEPT ![<<d, "in">>] = "none"]
  /\ UNCHANGED <<links, busy, reconnect, lossTimer, requests, delayed, searches, panic>>

(***************************************************************************)
(* The channel in use and its end.                                         *)
(***************************************************************************)
(* The AT commands of HFP have been exchanged (hfpSendSlcConnectCfmToApp). *)
SetupDone(l) ==
  /\ links[l].slc = "connected" /\ channel[links[l].sink] = "up"
  /\ Completes(l)
  /\ UNCHANGED <<busy, reconnect, requests, delayed, searches, channel, panic>>

(* A command of the set-up has failed (hfpSlcCheckAtAck). *)
SetupFails(l) ==
  /\ links[l].slc = "connected" /\ channel[links[l].sink] = "up" /\ requests[l] = 0
  /\ requests' = [requests EXCEPT ![l] = 1]
  /\ UNCHANGED <<links, busy, reconnect, lossTimer, delayed, searches, channel, panic>>

(* hfpHandleRfcommLinkLoss *)
LinkLoss(l) ==
  /\ LinkLossReconnect([links EXCEPT ![l].loss = "recovery"], l)
  /\ lossTimer' = lossTimer \cup {l}
  /\ UNCHANGED reconnect

(* hfpHandleRfcommDisconnect: "panic if this fails". *)
Disconnected(c, linkLoss) ==
  LET l == hfpGetLinkFromSink(c) IN
  IF l = Null THEN Panics
  ELSE /\ channel' = [channel EXCEPT ![c] = "none"]
       /\ IF links[l].slc = "complete" /\ linkLoss THEN LinkLoss(l)
          ELSE /\ IF links[l].slc = "complete" THEN DisconnectInd(l) /\ UNCHANGED reconnect
                                               ELSE ConnectFails(l)
               /\ UNCHANGED <<lossTimer, searches>>
       /\ UNCHANGED <<requests, delayed, panic>>

ChannelDrops(c, linkLoss) == channel[c] = "up" /\ Disconnected(c, linkLoss)

ChannelCloses(c) == channel[c] = "closing" /\ Disconnected(c, FALSE)

----------------------------------------------------------------------------
Init ==
  /\ links = [l \in Link |-> NoLink]
  /\ busy = {} /\ reconnect = {} /\ lossTimer = {} /\ delayed = {}
  /\ requests = [l \in Link |-> 0]
  /\ searches = [d \in Device |-> 0]
  /\ channel = [c \in Channel |-> "none"]
  /\ panic = FALSE

(* The attempt is over and its link is about to be reset. *)
GivenUp(l) == l \in Link \cap reconnect /\ links[l].loss \in {"abort", "timeout"}

Sdp(d) == /\ StaleSearch \/ ~GivenUp(hfpGetLinkFromBdaddr(d))
          /\ SdpFound(d) \/ \E noData \in BOOLEAN : SdpFails(d, noData)

Opening(c) == ChannelOpens(c) \/ ChannelFails(c)

Rfcomm(d) == OutgoingPending(d) \/ \E c \in {d} \X {"out", "in"} : Opening(c) \/ ChannelCloses(c)

Timers(l) == HandleReconnect(l) \/ HandleLossTimeout(l)

Requests(l) == AbortRecovery(l) \/ HandleDisconnectRequest(l)

AtSetup(l) == SetupDone(l) \/ SetupFails(l)

Client == \/ \E d \in Asked, s \in FirstOfProfile, two \in BOOLEAN : SlcConnectRequest(d, s, two)
          \/ \E l \in Link : SlcDisconnectRequest(l)

(* After a panic the device is reset; the steps that the model takes then  *)
(* mean nothing.                                                           *)
Next ==
  \/ Client
  \/ \E l \in Link : Timers(l) \/ Requests(l) \/ AtSetup(l)
  \/ \E d \in Device : Sdp(d) \/ Rfcomm(d) \/ RemoteGivesUp(d)
  \/ \E call \in Calls : RemoteConnects(call[1], call[2]) \/ LookAgain(call[1], call[2])
  \/ \E c \in Channel, linkLoss \in BOOLEAN : ChannelDrops(c, linkLoss)

(* The scheduler delivers messages and timers, SDP and RFCOMM answer, and  *)
(* the AG answers the AT commands of the set-up (see HfpAt).               *)
Fairness ==
  /\ \A l \in Link : /\ WF_vars(HandleReconnect(l)) /\ WF_vars(HandleLossTimeout(l))
                     /\ WF_vars(Requests(l) \/ AtSetup(l))
  /\ \A d \in Device : WF_vars(Sdp(d)) /\ WF_vars(Rfcomm(d))

Spec == Init /\ [][Next]_vars /\ Fairness

============================================================================
