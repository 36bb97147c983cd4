------------------------- MODULE HfpLinkProperties -------------------------
(***************************************************************************)
(* What makes the HFP links correct.                                       *)
(***************************************************************************)
EXTENDS HfpLink

(* The types, and that an idle link keeps nothing of its last connection,  *)
(* whichever way it ended (hfpLinkReset).                                  *)
TypeOK ==
  /\ \A l \in Link : links[l].slc = "idle" => links[l] = NoLink
  /\ links \in [Link -> [slc : SlcState, dev : Device \cup {None},
                         sink : Channel \cup {None},
                         loss : {"none", "recovery", "abort", "timeout"},
                         prio : {"invalid", "primary", "secondary"},
                         svc : Service \cup {None}, owns : BOOLEAN, retry : BOOLEAN]]
  /\ busy \subseteq Service
  /\ reconnect \subseteq Link /\ lossTimer \subseteq Link
  /\ requests \in [Link -> 0..1]
  /\ delayed \subseteq Device \X Service
  /\ searches \in [Device -> 0..MaxSearches]
  /\ channel \in [Channel -> {"none", "asked", "offered", "opening", "up", "closing"}]

InUse(l) == links[l].slc # "idle"

(* A device has at most one link, whoever calls whom and in what order:    *)
(* hfpGetLinkFromBdaddr would otherwise give the answers for one attempt   *)
(* to the other.                                                           *)
OneLinkPerDevice ==
  \A k, l \in Link : k # l /\ InUse(k) /\ InUse(l) => links[k].dev # links[l].dev

(* The links in use have different priorities, and there is no secondary   *)
(* link without a primary one, also when the primary link is lost,         *)
(* recovers under its own priority, or goes while the other is set up.     *)
PrioritiesInOrder ==
  /\ \A l \in Link : InUse(l) = (links[l].prio # "invalid")
  /\ \A k, l \in Link : k # l /\ InUse(k) /\ InUse(l) => links[k].prio # links[l].prio
  /\ (\E l \in Link : links[l].prio = "secondary") =>
       \E l \in Link : links[l].prio = "primary"

(* The busy services are the ones that links own, through crossing         *)
(* attempts and recoveries: no service is blocked for incoming calls for   *)
(* ever. It takes that an AG calls one service: a recovering link forgets  *)
(* the service it owns when the AG calls another one.                      *)
ServicesAccountedFor == busy = {links[l].svc : l \in {k \in Link : links[k].owns}}

(* Every open channel belongs to a link that its end will be found by      *)
(* (hfpGetLinkFromSink): no connection is left without an owner.           *)
ChannelsOwned ==
  \A c \in Channel : channel[c] \in {"up", "closing"} =>
    \E l \in Link : links[l].sink = c /\ links[l].slc \in {"outgoing", "incoming", "connected", "complete"}

(* The next attempt of a recovery is scheduled only for a lost link whose  *)
(* last attempt is over, with its search, unless the client has ended the  *)
(* recovery, and with its channel.                                         *)
ReconnectOnlyLost ==
  \A l \in reconnect :
    /\ links[l].loss # "none"
    /\ links[l].loss = "recovery" => searches[links[l].dev] = 0
    /\ links[l].sink # None => channel[links[l].sink] = "none"

(* Every attempt to connect a gateway that the client connects to ends,    *)
(* with a connection or an idle link, also when calls cross, requests to   *)
(* disconnect arrive in the middle of it, or it is one of a recovery,      *)
(* whose timeout ends the series.                                          *)
Connecting(d) == \E l \in Link : links[l].dev = d /\ links[l].slc \in Attempting

AttemptsEnd == \A d \in Asked : Connecting(d) ~> ~Connecting(d)

(* What the library asserts with PanicNull: the link that AT+BRSF is sent  *)
(* on has a sink (hfpSendAtCmd), and the link of every channel that ends   *)
(* is found (hfpHandleRfcommDisconnect), whoever calls while a lost link   *)
(* is being recovered.                                                     *)
NoPanic == ~panic

============================================================================
