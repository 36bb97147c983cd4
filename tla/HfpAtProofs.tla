---------------------------- MODULE HfpAtProofs ----------------------------
(***************************************************************************)
(* Proofs about the AT command channel of an HFP link (lib/hfp), for any   *)
(* kinds of AG, any features of the hands-free unit, and any bounds on the *)
(* RFCOMM buffer and the volume.                                           *)
(***************************************************************************)
EXTENDS HfpAtProperties, FiniteSetTheorems, FunctionTheorems, TLAPS

Feature == {"twc"} \cup UNION {k.features : k \in AgKinds}

LinkRecord ==
  [slc : {"idle", "connected", "complete"}, open : BOOLEAN,
   pending : Command \cup {None}, buffer : Seq(Command), features : SUBSET Feature,
   vol : Volume, volPending : BOOLEAN, copsSet : BOOLEAN, timer : BOOLEAN,
   dropped : [Command -> Nat]]

Transfer == [cmd : Command, vol : Volume]
LineRecord == [line : {"success", "fail", "+BRSF", "+CHLD", "+VGS"},
               of : Command \cup {None}, vol : Volume]
Message == InternalRequest \cup {"disconnect", "gone"}

Types ==
  /\ link \in LinkRecord
  /\ inbox \in Seq(Message)
  /\ air \in Seq(Transfer)
  /\ back \in Seq(LineRecord)
  /\ ag \in [kind : AgKinds, vol : Volume]
  /\ owed \in [Request -> Int] /\ connects \in Nat
  /\ ignored \in BOOLEAN /\ late \in BOOLEAN /\ crossed \in BOOLEAN
  /\ wanted \in Volume

(***************************************************************************)
(* Sending.                                                                *)
(***************************************************************************)
(* What Queued and Flushed leave alone of a link. *)
Alike(l, m) ==
  /\ m.slc = l.slc /\ m.open = l.open /\ m.features = l.features /\ m.vol = l.vol
  /\ m.copsSet = l.copsSet

(* hfpSendAtCmd puts the command at the end of the buffer, or drops it. *)
QueuedAs(l, c, m) ==
  /\ m \in LinkRecord /\ Alike(l, m)
  /\ m.pending = l.pending /\ m.volPending = l.volPending /\ m.timer = l.timer
  /\ \/ ~l.open /\ m = l
     \/ l.open /\ m.buffer = Append(l.buffer, c) /\ m.dropped = l.dropped
     \/ l.open /\ m.buffer = l.buffer /\ Len(l.buffer) >= Capacity
        /\ m.dropped = [l.dropped EXCEPT ![c] = @ + 1]

LEMMA QueuedLink ==
  ASSUME NEW l \in LinkRecord, NEW c \in Command
  PROVE  QueuedAs(l, c, Queued(l, c))
<1> SUFFICES ASSUME NEW m, m = Queued(l, c) PROVE QueuedAs(l, c, m)
  OBVIOUS
<1> DEFINE b == Append(l.buffer, c)
           d == [l.dropped EXCEPT ![c] = @ + 1]
<1>1. CASE ~l.open
  <2>1. m = l
    BY <1>1 DEF Queued
  <2> QED BY <1>1, <2>1 DEF Alike, QueuedAs
<1>2. CASE l.open /\ Len(l.buffer) < Capacity
  <2>1. m = [l EXCEPT !.buffer = b]
    BY <1>2 DEF Queued
  <2>2. b \in Seq(Command)
    BY DEF LinkRecord
  <2>3. b = Append(l.buffer, c)
    OBVIOUS
  <2> HIDE DEF b
  <2> QED BY <1>2, <2>1, <2>2, <2>3 DEF Alike, LinkRecord, QueuedAs
<1>3. CASE l.open /\ ~(Len(l.buffer) < Capacity)
  <2>1. m = [l EXCEPT !.dropped = d]
    BY <1>3 DEF Queued
  <2>2. d \in [Command -> Nat]
    BY DEF LinkRecord
  <2>3. Len(l.buffer) >= Capacity
    BY <1>3, BoundsAssumption DEF LinkRecord
  <2>4. d = [l.dropped EXCEPT ![c] = @ + 1]
    OBVIOUS
  <2> HIDE DEF d
  <2> QED BY <1>3, <2>1, <2>2, <2>3, <2>4 DEF Alike, LinkRecord, QueuedAs
<1>4. l.open \in BOOLEAN
  BY DEF LinkRecord
<1> QED BY <1>1, <1>2, <1>3, <1>4

(* hfpSendNextAtCmd sends the first command of the buffer, or does nothing. *)
LEMMA FlushedLink ==
  ASSUME NEW l \in LinkRecord, CanSend(l), NEW m, m = Flushed(l)
  PROVE  /\ m \in LinkRecord /\ Alike(l, m)
         /\ m.pending = Head(l.buffer) /\ m.buffer = Tail(l.buffer) /\ m.timer
         /\ m.dropped = l.dropped
         /\ m.volPending = (l.volPending /\ Head(l.buffer) # "vgs")
         /\ Head(l.buffer) \in Command
         /\ OnAir(l) \in Transfer
<1>1. Head(l.buffer) \in Command /\ Tail(l.buffer) \in Seq(Command)
  BY DEF LinkRecord, CanSend
<1> QED BY <1>1 DEF Flushed, Alike, LinkRecord, OnAir, Transfer

LEMMA SendNext ==
  ASSUME NEW l \in LinkRecord, air \in Seq(Transfer), hfpSendNextAtCmd(l)
  PROVE  /\ link' \in LinkRecord /\ air' \in Seq(Transfer) /\ Alike(l, link')
         /\ link'.volPending => l.volPending
<1>1. CASE CanSend(l)
  <2>1. link' = Flushed(l) /\ air' = Append(air, OnAir(l))
    BY <1>1 DEF hfpSendNextAtCmd
  <2>2. link' \in LinkRecord /\ Alike(l, link') /\ OnAir(l) \in Transfer
        /\ link'.volPending = (l.volPending /\ Head(l.buffer) # "vgs")
    BY <1>1, <2>1, FlushedLink
  <2>3. link'.volPending => l.volPending
    BY <2>2, Zenon
  <2> QED BY <2>1, <2>2, <2>3
<1>2. CASE ~CanSend(l)
  BY <1>2 DEF hfpSendNextAtCmd, Alike
<1> QED BY <1>1, <1>2

(* The commands of each set are commands. *)
LEMMA Names ==
  /\ SetupCommand \subseteq Command /\ Request \subseteq Command
  /\ {"nrec", "btrh", "clcc", "bia", "cmee", "csrsf", "vgs", "copsFormat"} \subseteq Command
BY DEF Command, SetupCommand, Request

LEMMA AckQueuesType ==
  ASSUME NEW l \in LinkRecord, NEW status
  PROVE  /\ AckQueues(l, status) \in LinkRecord
         /\ Alike(l, AckQueues(l, status))
         /\ AckQueues(l, status).volPending = l.volPending
<1>1. CASE l.pending = "brsf"
  <2> DEFINE m == Queued(l, "cindTest")
             n == Queued(m, "cindRead")
  <2>1. "cindTest" \in Command /\ "cindRead" \in Command
    BY DEF Command, SetupCommand
  <2>2. m \in LinkRecord /\ Alike(l, m) /\ m.volPending = l.volPending
    BY <2>1, QueuedLink DEF QueuedAs
  <2> HIDE DEF m
  <2>3. n \in LinkRecord /\ Alike(m, n) /\ n.volPending = m.volPending
    BY <2>1, <2>2, QueuedLink DEF QueuedAs
  <2>4. AckQueues(l, status) = n
    BY <1>1 DEF AckQueues, m
  <2> HIDE DEF n
  <2> QED BY <2>2, <2>3, <2>4 DEF Alike
<1>2. CASE l.pending # "brsf"
  <2>1. \/ AckQueues(l, status) = l
        \/ \E c \in {"cmer", "chld", "cops"} : AckQueues(l, status) = Queued(l, c)
    BY <1>2 DEF AckQueues
  <2>2. {"cmer", "chld", "cops"} \subseteq Command
    BY DEF Command, SetupCommand, Request
  <2>3. CASE AckQueues(l, status) = l
    BY <2>3 DEF Alike
  <2>4. CASE \E c \in {"cmer", "chld", "cops"} : AckQueues(l, status) = Queued(l, c)
    <3>1. PICK c \in {"cmer", "chld", "cops"} : AckQueues(l, status) = Queued(l, c)
      BY <2>4
    <3>2. c \in Command
      BY <2>2
    <3> QED BY ZenonT(60), <3>1, <3>2, QueuedLink DEF QueuedAs
  <2> QED BY <2>1, <2>3, <2>4
<1> QED BY <1>1, <1>2

(* What the answer changes of the link besides the buffer. *)
LEMMA AckedType ==
  ASSUME link \in LinkRecord, NEW status, NEW m, m = Acked(link, status)
  PROVE  /\ m \in LinkRecord /\ m.open = link.open /\ m.pending = link.pending
         /\ m.buffer = link.buffer /\ m.vol = link.vol /\ m.volPending = link.volPending
         /\ m.dropped = link.dropped
         /\ m.slc = (IF AckCompletes(link, status) THEN "complete" ELSE link.slc)
         /\ link.pending # "bac" => m.features = link.features
         /\ "twc" \in link.features => "twc" \in m.features
BY DEF Acked, LinkRecord

LEMMA AckedLinkType ==
  ASSUME link \in LinkRecord, NEW status, NEW m, m = AckedLink(status)
  PROVE  /\ m \in LinkRecord /\ m.pending = None
         /\ m.open = link.open /\ m.vol = link.vol /\ m.volPending = link.volPending
         /\ m.slc = (IF AckCompletes(link, status) THEN "complete" ELSE link.slc)
         /\ "twc" \in link.features => "twc" \in m.features
<1> DEFINE a == Acked(link, status)
           q == AckQueues(a, status)
<1>1. a \in LinkRecord /\ a.open = link.open /\ a.vol = link.vol
      /\ a.volPending = link.volPending
      /\ a.slc = (IF AckCompletes(link, status) THEN "complete" ELSE link.slc)
      /\ ("twc" \in link.features => "twc" \in a.features)
  BY AckedType
<1> HIDE DEF a
<1>2. q \in LinkRecord /\ Alike(a, q) /\ q.volPending = a.volPending
  BY <1>1, AckQueuesType
<1>3. m = [q EXCEPT !.pending = None]
  BY DEF AckedLink, a
<1> HIDE DEF q
<1> QED BY <1>1, <1>2, <1>3 DEF Alike, LinkRecord

(***************************************************************************)
(* Type correctness.                                                       *)
(***************************************************************************)
LEMMA FreshLink ==
  ASSUME NEW l, l.dropped \in [Command -> Nat]
  PROVE  Reset(l) \in LinkRecord
<1>1. << >> \in Seq(Command)
  OBVIOUS
<1>2. 0 \in Volume
  BY BoundsAssumption DEF Volume
<1> QED BY <1>1, <1>2 DEF Reset, LinkRecord, Feature

LEMMA TypesInit == Init => Types
<1> SUFFICES ASSUME Init PROVE Types
  OBVIOUS
<1>1. 0 \in Volume
  BY BoundsAssumption DEF Volume
<1> DEFINE d == [c \in Command |-> 0]
           r == Reset([dropped |-> d])
<1>2. r \in LinkRecord
  <2>1. d \in [Command -> Nat]
    OBVIOUS
  <2> HIDE DEF d
  <2>2. [dropped |-> d].dropped \in [Command -> Nat]
    BY <2>1
  <2> QED BY <2>2, FreshLink
<1>3. link = [r EXCEPT !.slc = "connected", !.open = TRUE, !.pending = "brsf", !.timer = TRUE]
  BY DEF Init
<1> HIDE DEF r
<1>4. link \in LinkRecord
  BY <1>2, <1>3 DEF LinkRecord, Command, SetupCommand
<1>5. air \in Seq(Transfer)
  BY <1>1 DEF Init, Transfer, Command, SetupCommand
<1>6. inbox \in Seq(Message) /\ back \in Seq(LineRecord)
  BY DEF Init
<1>7. ag \in [kind : AgKinds, vol : Volume]
  BY <1>1 DEF Init
<1>8. owed \in [Request -> Int]
  BY DEF Init
<1>9. connects \in Nat /\ wanted \in Volume
      /\ ignored \in BOOLEAN /\ late \in BOOLEAN /\ crossed \in BOOLEAN
  BY <1>1 DEF Init
<1> QED BY <1>4, <1>5, <1>6, <1>7, <1>8, <1>9 DEF Types

LEMMA ShortSeqs ==
  ASSUME NEW S
  PROVE  /\ << >> \in Seq(S) /\ \A x \in S : <<x>> \in Seq(S)
         /\ \A x, y \in S : <<x, y>> \in Seq(S)
OBVIOUS

LEMMA MessageNames ==
  {"nrec", "btrh", "clcc", "bia", "cmee", "csrsf", "disconnect", "gone"} \subseteq Message
BY DEF Message, InternalRequest

(* Every answer is handled in the same way, a timeout among them. *)
LEMMA AckTypes ==
  ASSUME Types, NEW status \in Status, atCmdAckReceived(status)
  PROVE  /\ link' \in LinkRecord /\ air' \in Seq(Transfer) /\ inbox' \in Seq(Message)
         /\ owed' \in [Request -> Int] /\ connects' \in Nat
<1>1. link' \in LinkRecord /\ air' \in Seq(Transfer)
  BY AckedLinkType, SendNext DEF Types, atCmdAckReceived
<1>2. AckPosts(link, status) \in Seq(Message)
  <2>1. AckPosts(link, status) \in {<<"disconnect">>, <<"nrec">>, <<"btrh">>,
                                    <<"clcc", "bia">>, <<"cmee">>, << >>}
    BY DEF AckPosts
  <2> QED BY <2>1, ShortSeqs, MessageNames
<1>3. inbox' \in Seq(Message)
  BY <1>2 DEF Types, atCmdAckReceived, AckEffects, Post
<1>4. AckConfirms(link, status) \in Request \cup {None}
  BY DEF AckConfirms, Request
<1>5. owed' \in [Request -> Int]
  <2>1. CASE AckConfirms(link, status) = None
    BY <2>1 DEF Types, atCmdAckReceived, AckEffects
  <2>2. CASE AckConfirms(link, status) # None
    <3> DEFINE k == AckConfirms(link, status)
    <3>1. k \in Request
      BY <1>4, <2>2
    <3>2. owed' = [owed EXCEPT ![k] = @ - 1]
      BY <2>2 DEF atCmdAckReceived, AckEffects, Confirmed
    <3> HIDE DEF k
    <3> QED BY <3>1, <3>2 DEF Types
  <2> QED BY <2>1, <2>2
<1>6. connects' \in Nat
  BY DEF Types, atCmdAckReceived, AckEffects
<1> QED BY <1>1, <1>3, <1>5, <1>6

LEMMA TailType == ASSUME NEW S, NEW s \in Seq(S), s # << >>
                  PROVE  Tail(s) \in Seq(S) /\ Head(s) \in S
OBVIOUS

LEMMA LinesType ==
  ASSUME Types, back # << >>, back' = Tail(back)
  PROVE  back' \in Seq(LineRecord) /\ Head(back) \in LineRecord
BY TailType DEF Types

LEMMA TypesNext ==
  ASSUME Types, [Next]_vars
  PROVE  Types'
<1> USE DEF Types
<1>1. CASE HandleAck
  <2>1. Head(back).line \in Status
    BY <1>1 DEF HandleAck, Status
  <2>2. atCmdAckReceived(Head(back).line)
    BY <1>1 DEF HandleAck
  <2> QED BY <1>1, <2>1, <2>2, AckTypes, LinesType DEF HandleAck
<1>2. CASE HandleBrsf
  <2> DEFINE l == [link EXCEPT !.features = ag.kind.features]
  <2>1. l \in LinkRecord
    BY DEF LinkRecord, Feature
  <2> HIDE DEF l
  <2>2. "bac" \in Command
    BY DEF Command, SetupCommand
  <2>3. Queued(l, "bac") \in LinkRecord
    BY <2>1, <2>2, QueuedLink DEF QueuedAs
  <2>4. hfpSendNextAtCmd(Queued(l, "bac")) \/ (link' = l /\ air' = air)
    BY <1>2 DEF HandleBrsf, hfpSendAtCmd, l
  <2>5. link' \in LinkRecord /\ air' \in Seq(Transfer)
    BY <2>1, <2>3, <2>4, SendNext
  <2> QED BY <1>2, <2>5, LinesType DEF HandleBrsf
<1>3. CASE HandleChld
  <2>1. link' \in LinkRecord
    BY <1>3 DEF HandleChld, LinkRecord
  <2>2. inbox' \in Seq(Message)
    BY <1>3 DEF HandleChld, Post, Message, InternalRequest
  <2> QED BY <1>3, <2>1, <2>2, LinesType DEF HandleChld
<1>4. CASE HandleSpeakerGain
  <2>1. Head(back) \in LineRecord /\ back' \in Seq(LineRecord)
    BY <1>4, LinesType DEF HandleSpeakerGain
  <2>2. Head(back).vol \in Volume
    BY <2>1 DEF LineRecord
  <2>3. link' \in LinkRecord
    BY <1>4, <2>2 DEF HandleSpeakerGain, LinkRecord
  <2>4. crossed' \in BOOLEAN
    BY <1>4 DEF HandleSpeakerGain, VgsUnderWay
  <2> QED BY <1>4, <2>1, <2>3, <2>4 DEF HandleSpeakerGain
<1>5. ASSUME NEW m \in InternalRequest, HandleRequest(m) PROVE Types'
  <2>1. inbox # << >> /\ m \in Command
    BY <1>5 DEF HandleRequest, Deliver, InternalRequest, Command, Request, SetupCommand
  <2>2. Tail(inbox) \in Seq(Message)
    BY <2>1, TailType
  <2>3. Sends(link, m) \in Command \cup {None}
    BY <1>5, <2>1 DEF Sends, Command, Request
  <2>4. CASE Sends(link, m) # None
    <3>1. Queued(link, Sends(link, m)) \in LinkRecord
      BY <2>3, <2>4, QueuedLink DEF QueuedAs
    <3>2. hfpSendNextAtCmd(Queued(link, Sends(link, m))) /\ inbox' = Tail(inbox)
      BY <1>5, <2>4 DEF HandleRequest, hfpSendAtCmd
    <3>3. link' \in LinkRecord /\ air' \in Seq(Transfer)
      BY <3>1, <3>2, SendNext
    <3> QED BY <1>5, <3>2, <3>3, <2>2 DEF HandleRequest
  <2>5. CASE Sends(link, m) = None
    <3>1. Skips(m) \in Seq(Message)
      BY ShortSeqs, MessageNames DEF Skips
    <3>2. inbox' = Tail(inbox) \o Skips(m)
      BY <1>5, <2>5 DEF HandleRequest
    <3>3. inbox' \in Seq(Message)
      BY <2>2, <3>1, <3>2
    <3> QED BY <1>5, <2>5, <3>3 DEF HandleRequest
  <2> QED BY <2>4, <2>5
<1>6. ASSUME NEW m \in InternalRequest, RejectRequest(m) PROVE Types'
  <2>1. inbox' \in Seq(Message)
    BY <1>6, TailType DEF RejectRequest, Deliver
  <2>2. owed' \in [Request -> Int]
    BY <1>6 DEF RejectRequest, Confirmed
  <2> QED BY <1>6, <2>1, <2>2 DEF RejectRequest
<1>7. CASE HandleDisconnectRequest
  <2>1. inbox' \in Seq(Message)
    BY <1>7, TailType DEF HandleDisconnectRequest, Deliver
  <2> QED BY <1>7, <2>1 DEF HandleDisconnectRequest
<1>8. CASE HandleDisconnected
  <2>1. inbox' \in Seq(Message)
    BY <1>8, TailType DEF HandleDisconnected, Deliver
  <2>2. link' \in LinkRecord
    BY <1>8, FreshLink DEF HandleDisconnected, LinkRecord
  <2>3. connects' \in Nat /\ back' \in Seq(LineRecord)
    BY <1>8 DEF HandleDisconnected
  <2> QED BY <1>8, <2>1, <2>2, <2>3 DEF HandleDisconnected
<1>9. CASE HandleTimeout
  <2>1. CASE link.slc = "complete"
    <3>1. atCmdAckReceived("timeout") /\ late' = TRUE
      BY <1>9, <2>1 DEF HandleTimeout
    <3>2. "timeout" \in Status
      BY DEF Status
    <3> QED BY <1>9, <3>1, <3>2, AckTypes DEF HandleTimeout
  <2>2. CASE link.slc # "complete"
    <3>1. link' \in LinkRecord
      BY <1>9, <2>2 DEF HandleTimeout, LinkRecord
    <3> QED BY <1>9, <2>2, <3>1 DEF HandleTimeout
  <2> QED BY <2>1, <2>2
<1>10. ASSUME NEW k \in Request, ClientRequest(k) PROVE Types'
  <2>1. inbox' \in Seq(Message)
    BY <1>10 DEF ClientRequest, Post, Message, InternalRequest
  <2>2. owed' \in [Request -> Int]
    BY <1>10 DEF ClientRequest
  <2> QED BY <1>10, <2>1, <2>2 DEF ClientRequest
<1>11. CASE ClientDisconnect
  <2>1. inbox' \in Seq(Message)
    BY <1>11 DEF ClientDisconnect, Post, Message
  <2> QED BY <1>11, <2>1 DEF ClientDisconnect
<1>12. ASSUME NEW g \in 0 .. (MaxGain + 1), VolumeRequest(g) PROVE Types'
  <2> DEFINE l == [link EXCEPT !.vol = Clamped(g), !.volPending = TRUE]
  <2>1. Clamped(g) \in Volume
    BY BoundsAssumption DEF Clamped, Volume
  <2>2. l \in LinkRecord
    BY <2>1 DEF LinkRecord
  <2>3. "vgs" \in Command
    BY DEF Command
  <2>4. (link' = l /\ air' = air) \/ hfpSendNextAtCmd(Queued(l, "vgs"))
    BY <1>12 DEF VolumeRequest, hfpSendAtCmd
  <2> HIDE DEF l
  <2>5. Queued(l, "vgs") \in LinkRecord
    BY <2>2, <2>3, QueuedLink DEF QueuedAs
  <2>6. link' \in LinkRecord /\ air' \in Seq(Transfer)
    BY <2>2, <2>4, <2>5, SendNext
  <2> QED BY <1>12, <2>1, <2>6 DEF VolumeRequest
<1>13. ASSUME NEW found \in BOOLEAN, SdpFeatures(found) PROVE Types'
  <2>1. link' \in LinkRecord
    BY <1>13 DEF SdpFeatures, LinkRecord, Feature
  <2> QED BY <1>13, <2>1 DEF SdpFeatures
<1>14. CASE AgAccepts
  <2>1. Head(air) \in Transfer /\ air' \in Seq(Transfer)
    BY <1>14, TailType DEF AgAccepts
  <2>2. Head(air).cmd \in Command /\ Head(air).vol \in Volume /\ 0 \in Volume
    BY <2>1, BoundsAssumption DEF Transfer, Volume
  <2> DEFINE c == Head(air).cmd
             n == Append(Info(c), Line("success", c))
  <2>3. n \in Seq(LineRecord)
    <3>1. Info(c) \in Seq(LineRecord)
      <4>1. \A x \in {"+BRSF", "+CHLD", "success"} : Line(x, c) \in LineRecord
        BY <2>2 DEF Line, LineRecord
      <4>2. Info(c) \in {<<Line("+BRSF", c)>>, <<Line("+CHLD", c)>>, << >>}
        BY DEF Info
      <4> QED BY <4>1, <4>2, ShortSeqs
    <3>2. Line("success", c) \in LineRecord
      BY <2>2 DEF Line, LineRecord
    <3> QED BY <3>1, <3>2
  <2>4. back' = back \o n
    BY <1>14 DEF AgAccepts
  <2> HIDE DEF n
  <2>5. back' \in Seq(LineRecord)
    BY <2>3, <2>4
  <2>6. ag' \in [kind : AgKinds, vol : Volume]
    BY <1>14, <2>2 DEF AgAccepts
  <2> QED BY <1>14, <2>1, <2>5, <2>6 DEF AgAccepts
<1>15. CASE AgRefuses
  <2>1. Head(air) \in Transfer /\ air' \in Seq(Transfer)
    BY <1>15, TailType DEF AgRefuses
  <2>2. Head(air).cmd \in Command /\ 0 \in Volume
    BY <2>1, BoundsAssumption DEF Transfer, Volume
  <2>3. Line("fail", Head(air).cmd) \in LineRecord
    BY <2>2 DEF Line, LineRecord
  <2>4. back' \in Seq(LineRecord)
    BY <1>15, <2>3 DEF AgRefuses
  <2> QED BY <1>15, <2>1, <2>4 DEF AgRefuses
<1>16. CASE AgIgnores
  <2>1. air' \in Seq(Transfer)
    BY <1>16, TailType DEF AgIgnores
  <2> QED BY <1>16, <2>1 DEF AgIgnores
<1>17. ASSUME NEW v \in Volume, AgVolume(v) PROVE Types'
  <2>1. back' \in Seq(LineRecord)
    BY <1>17 DEF AgVolume, LineRecord
  <2>2. ag' \in [kind : AgKinds, vol : Volume]
    BY <1>17 DEF AgVolume
  <2> QED BY <1>17, <2>1, <2>2 DEF AgVolume
<1>18. CASE Closes
  <2>1. link' \in LinkRecord /\ air' \in Seq(Transfer)
    <3>1. << >> \in Seq(Command) /\ << >> \in Seq(Transfer)
      BY ShortSeqs
    <3> QED BY <1>18, <3>1 DEF Closes, LinkRecord
  <2>2. inbox' \in Seq(Message)
    BY <1>18 DEF Closes, Post, Message
  <2> QED BY <1>18, <2>1, <2>2 DEF Closes
<1>19. CASE UNCHANGED vars
  BY <1>19 DEF vars
<1> QED BY <1>1, <1>2, <1>3, <1>4, <1>5, <1>6, <1>7, <1>8, <1>9, <1>10, <1>11, <1>12,
           <1>13, <1>14, <1>15, <1>16, <1>17, <1>18, <1>19
        DEF Next, Lines, Messages, Client, AgStep, Disconnected, Dropped

(* What the types and the invariants below start from. *)
LEMMA InitFacts ==
  Init => /\ link.slc = "connected" /\ link.open /\ link.pending = "brsf"
          /\ link.buffer = << >> /\ link.features = {"twc"}
          /\ link.vol = 0 /\ ~link.volPending /\ link.dropped = [c \in Command |-> 0]
BY DEF Init, Reset

(***************************************************************************)
(* The volume the client has set.                                          *)
(***************************************************************************)
LEMMA VolumeKept ==
  ASSUME PendingVolumeWins, wanted' = wanted,
         link'.volPending => link.volPending, link'.vol = link.vol
  PROVE  PendingVolumeWins'
BY DEF PendingVolumeWins

LEMMA AckKeepsVolume ==
  ASSUME Types, PendingVolumeWins, wanted' = wanted, NEW status, atCmdAckReceived(status)
  PROVE  PendingVolumeWins'
<1> DEFINE l == AckedLink(status)
<1>1. l \in LinkRecord /\ l.vol = link.vol /\ l.volPending = link.volPending
  BY AckedLinkType DEF Types
<1>2. hfpSendNextAtCmd(l)
  BY DEF atCmdAckReceived
<1> HIDE DEF l
<1>3. link'.vol = l.vol /\ (link'.volPending => l.volPending)
  BY <1>1, <1>2, SendNext DEF Alike, Types
<1> QED BY <1>1, <1>3, VolumeKept

LEMMA QueuedKeepsVolume ==
  ASSUME Types, NEW l \in LinkRecord, NEW c \in Command, hfpSendAtCmd(l, c)
  PROVE  link'.vol = l.vol /\ (link'.volPending => l.volPending)
<1> DEFINE q == Queued(l, c)
<1>1. q \in LinkRecord /\ q.vol = l.vol /\ q.volPending = l.volPending
  BY QueuedLink DEF QueuedAs, Alike
<1>2. hfpSendNextAtCmd(q)
  BY DEF hfpSendAtCmd
<1> HIDE DEF q
<1> QED BY <1>1, <1>2, SendNext DEF Alike, Types

LEMMA VolumeNext ==
  ASSUME Types, PendingVolumeWins, [Next]_vars
  PROVE  PendingVolumeWins'
<1>1. CASE HandleAck
  BY <1>1, AckKeepsVolume DEF HandleAck
<1>2. CASE HandleBrsf
  <2> DEFINE l == [link EXCEPT !.features = ag.kind.features]
  <2>1. l \in LinkRecord /\ l.vol = link.vol /\ l.volPending = link.volPending
    BY DEF Types, LinkRecord, Feature
  <2>2. (link' = l) \/ hfpSendAtCmd(l, "bac")
    BY <1>2 DEF HandleBrsf
  <2> HIDE DEF l
  <2>3. "bac" \in Command
    BY DEF Command, SetupCommand
  <2>4. link'.vol = l.vol /\ (link'.volPending => l.volPending)
    BY <2>1, <2>2, <2>3, QueuedKeepsVolume
  <2> QED BY <1>2, <2>1, <2>4, VolumeKept DEF HandleBrsf
<1>3. CASE HandleSpeakerGain
  BY <1>3 DEF HandleSpeakerGain, TakesVolume, PendingVolumeWins, Types, LinkRecord
<1>4. ASSUME NEW m \in InternalRequest, HandleRequest(m) PROVE PendingVolumeWins'
  <2>1. m \in Command
    BY DEF InternalRequest, Command, Request, SetupCommand
  <2>2. Sends(link, m) \in Command \cup {None}
    BY <2>1 DEF Sends, Command, Request
  <2>3. link'.vol = link.vol /\ (link'.volPending => link.volPending)
    BY <1>4, <2>2, QueuedKeepsVolume DEF HandleRequest, Types
  <2> QED BY <1>4, <2>3, VolumeKept DEF HandleRequest
<1>5. CASE HandleDisconnected
  BY <1>5 DEF HandleDisconnected, Reset, PendingVolumeWins
<1>6. CASE HandleTimeout
  <2>1. CASE link.slc = "complete"
    BY <1>6, <2>1, AckKeepsVolume DEF HandleTimeout
  <2>2. CASE link.slc # "complete"
    BY <1>6, <2>2, VolumeKept DEF HandleTimeout, Types, LinkRecord
  <2> QED BY <2>1, <2>2
<1>7. ASSUME NEW g \in 0 .. (MaxGain + 1), VolumeRequest(g) PROVE PendingVolumeWins'
  <2> DEFINE l == [link EXCEPT !.vol = Clamped(g), !.volPending = TRUE]
  <2>1. Clamped(g) \in Volume
    BY BoundsAssumption DEF Clamped, Volume
  <2>2. l \in LinkRecord /\ l.vol = Clamped(g)
    BY <2>1 DEF Types, LinkRecord
  <2>3. link' = l \/ hfpSendAtCmd(l, "vgs")
    BY <1>7 DEF VolumeRequest
  <2> HIDE DEF l
  <2>4. "vgs" \in Command
    BY DEF Command
  <2>5. link'.vol = Clamped(g)
    BY <2>2, <2>3, <2>4, QueuedKeepsVolume
  <2> QED BY <1>7, <2>5 DEF VolumeRequest, PendingVolumeWins
<1>8. CASE HandleChld \/ (\E found \in BOOLEAN : SdpFeatures(found)) \/ Closes
  <2>1. wanted' = wanted /\ link'.vol = link.vol /\ link'.volPending = link.volPending
    BY <1>8 DEF HandleChld, SdpFeatures, Closes, Types, LinkRecord
  <2> QED BY <2>1, VolumeKept
<1>9. CASE UNCHANGED <<link, wanted>>
  BY <1>9, VolumeKept
<1>10. CASE \/ \E m \in InternalRequest : RejectRequest(m)
            \/ HandleDisconnectRequest \/ (\E k \in Request : ClientRequest(k)) \/ ClientDisconnect
            \/ AgStep \/ (\E v \in Volume : AgVolume(v)) \/ UNCHANGED vars
  BY <1>9, <1>10 DEF RejectRequest, HandleDisconnectRequest, ClientRequest, ClientDisconnect,
                     AgStep, AgAccepts, AgRefuses, AgIgnores, AgVolume, vars
<1> QED BY <1>1, <1>2, <1>3, <1>4, <1>5, <1>6, <1>7, <1>8, <1>10
        DEF Next, Lines, Messages, Client, Disconnected, Dropped

(* The state always has the types of the model.                            *)
THEOREM TypeCorrect == Spec => []Types
<1>1. Init => Types
  BY TypesInit
<1>2. Types /\ [Next]_vars => Types'
  BY TypesNext
<1> QED BY <1>1, <1>2, PTL DEF Spec

(* hfpHandleSpeakerGain: a volume the client has set and that is not sent  *)
(* yet is not overwritten by a +VGS, nor lost by any other handler: it is  *)
(* what AT+VGS will carry.                                                 *)
THEOREM ClientVolumeWins == Spec => []PendingVolumeWins
<1>1. Init => PendingVolumeWins
  BY InitFacts DEF PendingVolumeWins
<1>2. Types /\ PendingVolumeWins /\ [Next]_vars => PendingVolumeWins'
  BY VolumeNext
<1> QED BY <1>1, <1>2, TypeCorrect, PTL DEF Spec

(***************************************************************************)
(* Answers in turn.                                                        *)
(***************************************************************************)
(* A channel that is down carries nothing, and an idle link has nothing    *)
(* pending and nothing to read.                                            *)
Shut ==
  /\ link.open => link.slc # "idle"
  /\ ~link.open => link.buffer = << >> /\ air = << >>
  /\ link.slc = "idle" => link.pending = None /\ back = << >>

IsAnswer(r) == r.line \in {"success", "fail"}
NoAnswer(b) == \A i \in DOMAIN b : ~IsAnswer(b[i])
OneAnswer(b, p) == \E i \in DOMAIN b : /\ IsAnswer(b[i]) /\ b[i].of = p
                                       /\ \A j \in DOMAIN b : IsAnswer(b[j]) => j = i

(* AnswersMatch, and what is left of it where the AG has not answered or   *)
(* the channel is down.                                                    *)
InTurn ==
  ~late =>
    IF link.pending = None
    THEN air = << >> /\ NoAnswer(back)
    ELSE \/ Len(air) = 1 /\ air[1].cmd = link.pending /\ NoAnswer(back)
         \/ air = << >> /\ OneAnswer(back, link.pending)
         \/ (ignored \/ ~link.open) /\ air = << >> /\ NoAnswer(back)

LEMMA TailLines ==
  ASSUME NEW S, NEW b \in Seq(S), b # << >>
  PROVE  /\ \A i \in DOMAIN Tail(b) : i + 1 \in DOMAIN b /\ Tail(b)[i] = b[i + 1]
         /\ 1 \in DOMAIN b /\ Head(b) = b[1]
         /\ \A i \in DOMAIN b : i = 1 \/ (i - 1 \in DOMAIN Tail(b) /\ b[i] = Tail(b)[i - 1])
<1>1. \A i \in 1 .. Len(b) - 1 : Tail(b)[i] = b[i + 1]
  OBVIOUS
<1>2. DOMAIN Tail(b) = 1 .. Len(b) - 1 /\ DOMAIN b = 1 .. Len(b) /\ Len(b) \in Nat \ {0}
  OBVIOUS
<1> QED BY <1>1, <1>2

LEMMA AppendLines ==
  ASSUME NEW S, NEW b \in Seq(S), NEW r \in S
  PROVE  /\ DOMAIN Append(b, r) = DOMAIN b \cup {Len(b) + 1}
         /\ Append(b, r)[Len(b) + 1] = r /\ Len(b) + 1 \notin DOMAIN b
         /\ \A i \in DOMAIN b : Append(b, r)[i] = b[i]
<1>1. DOMAIN Append(b, r) = 1 .. Len(b) + 1 /\ DOMAIN b = 1 .. Len(b) /\ Len(b) \in Nat
  OBVIOUS
<1> QED BY <1>1

(* Reading a line: an answer that was alone is gone, any other line leaves *)
(* the answers in place.                                                   *)
LEMMA AnswerRead ==
  ASSUME NEW b \in Seq(LineRecord), b # << >>, IsAnswer(Head(b)), NEW p, OneAnswer(b, p)
  PROVE  NoAnswer(Tail(b)) /\ Head(b).of = p
<1>1. PICK i \in DOMAIN b : IsAnswer(b[i]) /\ b[i].of = p
                            /\ \A j \in DOMAIN b : IsAnswer(b[j]) => j = i
  BY DEF OneAnswer
<1>2. i = 1
  BY <1>1, TailLines
<1>3. \A k \in DOMAIN Tail(b) : k + 1 # 1
  OBVIOUS
<1> QED BY <1>1, <1>2, <1>3, TailLines DEF NoAnswer

LEMMA OtherRead ==
  ASSUME NEW b \in Seq(LineRecord), b # << >>, ~IsAnswer(Head(b)), NEW p
  PROVE  /\ NoAnswer(b) => NoAnswer(Tail(b))
         /\ OneAnswer(b, p) => OneAnswer(Tail(b), p)
<1>1. NoAnswer(b) => NoAnswer(Tail(b))
  BY TailLines DEF NoAnswer
<1>2. ASSUME OneAnswer(b, p) PROVE OneAnswer(Tail(b), p)
  <2>1. PICK i \in DOMAIN b : IsAnswer(b[i]) /\ b[i].of = p
                              /\ \A j \in DOMAIN b : IsAnswer(b[j]) => j = i
    BY <1>2 DEF OneAnswer
  <2>2. i # 1
    BY <2>1, TailLines
  <2>3. i - 1 \in DOMAIN Tail(b) /\ Tail(b)[i - 1] = b[i]
    BY <2>2, TailLines
  <2>4. ASSUME NEW j \in DOMAIN Tail(b), IsAnswer(Tail(b)[j]) PROVE j = i - 1
    <3>1. j + 1 = i
      BY <2>1, <2>4, TailLines
    <3> QED BY <3>1
  <2> QED BY <2>1, <2>3, <2>4 DEF OneAnswer
<1> QED BY <1>1, <1>2

LEMMA AnswerComes ==
  ASSUME NEW b \in Seq(LineRecord), NoAnswer(b), NEW r \in LineRecord, IsAnswer(r)
  PROVE  OneAnswer(Append(b, r), r.of)
BY AppendLines DEF OneAnswer, NoAnswer

LEMMA OtherComes ==
  ASSUME NEW b \in Seq(LineRecord), NEW r \in LineRecord, ~IsAnswer(r), NEW p
  PROVE  /\ NoAnswer(b) => NoAnswer(Append(b, r))
         /\ OneAnswer(b, p) => OneAnswer(Append(b, r), p)
<1> DEFINE s == Append(b, r)
<1>1. /\ DOMAIN s = DOMAIN b \cup {Len(b) + 1}
      /\ s[Len(b) + 1] = r /\ Len(b) + 1 \notin DOMAIN b
      /\ \A i \in DOMAIN b : s[i] = b[i]
  BY AppendLines
<1> HIDE DEF s
<1>2. NoAnswer(b) => NoAnswer(s)
  BY <1>1 DEF NoAnswer
<1>3. OneAnswer(b, p) => OneAnswer(s, p)
  BY <1>1 DEF OneAnswer
<1> QED BY <1>2, <1>3 DEF s

(* The lines an AG sends for a command it accepts: one answer, the last.   *)
LEMMA ReplyType ==
  ASSUME NEW c \in Command
  PROVE  /\ Info(c) \in Seq(LineRecord) /\ NoAnswer(Info(c))
         /\ \A x \in {"success", "fail"} : Line(x, c) \in LineRecord /\ IsAnswer(Line(x, c))
                                           /\ Line(x, c).of = c
<1>1. 0 \in Volume
  BY BoundsAssumption DEF Volume
<1>2. \A x \in {"success", "fail", "+BRSF", "+CHLD"} : Line(x, c) \in LineRecord
  BY <1>1 DEF Line, LineRecord
<1>3. \A x \in {"success", "fail"} : IsAnswer(Line(x, c)) /\ Line(x, c).of = c
  BY DEF Line, IsAnswer
<1>4. CASE Info(c) = << >>
  BY <1>2, <1>3, <1>4, ShortSeqs DEF NoAnswer
<1>5. ASSUME NEW x \in {"+BRSF", "+CHLD"}, Info(c) = <<Line(x, c)>>
      PROVE  Info(c) \in Seq(LineRecord) /\ NoAnswer(Info(c))
  <2>1. Info(c) \in Seq(LineRecord) /\ DOMAIN Info(c) = {1} /\ Info(c)[1] = Line(x, c)
    BY <1>2, <1>5, ShortSeqs
  <2>2. ~IsAnswer(Line(x, c))
    BY DEF IsAnswer, Line
  <2> QED BY <2>1, <2>2 DEF NoAnswer
<1>6. \/ Info(c) = << >> \/ Info(c) = <<Line("+BRSF", c)>> \/ Info(c) = <<Line("+CHLD", c)>>
  BY DEF Info
<1> QED BY <1>2, <1>3, <1>4, <1>5, <1>6

LEMMA NoAnswerJoin ==
  ASSUME NEW b \in Seq(LineRecord), NEW d \in Seq(LineRecord), NoAnswer(b), NoAnswer(d)
  PROVE  b \o d \in Seq(LineRecord) /\ NoAnswer(b \o d)
<1>1. b \o d \in Seq(LineRecord) /\ DOMAIN (b \o d) = 1 .. Len(b) + Len(d)
  OBVIOUS
<1>2. DOMAIN b = 1 .. Len(b) /\ DOMAIN d = 1 .. Len(d) /\ Len(b) \in Nat /\ Len(d) \in Nat
  OBVIOUS
<1>3. ASSUME NEW i \in 1 .. Len(b) + Len(d) PROVE ~IsAnswer((b \o d)[i])
  <2>1. CASE i \in 1 .. Len(b)
    <3>1. (b \o d)[i] = b[i]
      BY <2>1
    <3> QED BY <3>1, <2>1, <1>2 DEF NoAnswer
  <2>2. CASE i \notin 1 .. Len(b)
    <3>1. (b \o d)[i] = d[i - Len(b)] /\ i - Len(b) \in 1 .. Len(d)
      BY <2>2
    <3> QED BY <3>1, <1>2 DEF NoAnswer
  <2> QED BY <2>1, <2>2
<1> QED BY <1>1, <1>3 DEF NoAnswer

LEMMA AcceptedReply ==
  ASSUME NEW b \in Seq(LineRecord), NoAnswer(b), NEW c \in Command
  PROVE  OneAnswer(b \o Append(Info(c), Line("success", c)), c)
<1> DEFINE d == Info(c)
           r == Line("success", c)
<1>1. d \in Seq(LineRecord) /\ NoAnswer(d) /\ r \in LineRecord /\ IsAnswer(r) /\ r.of = c
  BY ReplyType
<1> HIDE DEF d, r
<1>2. b \o Append(d, r) = Append(b \o d, r)
  BY <1>1
<1>3. OneAnswer(Append(b \o d, r), r.of)
  BY <1>1, NoAnswerJoin, AnswerComes
<1> QED BY <1>1, <1>2, <1>3 DEF d, r

LEMMA AnswerInTurn ==
  ASSUME Types, InTurn, ~late, back # << >>, IsAnswer(Head(back))
  PROVE  air = << >> /\ NoAnswer(Tail(back)) /\ link.pending = Head(back).of
         /\ link.pending # None
<1>1. back \in Seq(LineRecord)
  BY DEF Types
<1>2. ~NoAnswer(back)
  BY <1>1, TailLines DEF NoAnswer
<1>3. link.pending # None /\ air = << >> /\ OneAnswer(back, link.pending)
  BY <1>2 DEF InTurn
<1> QED BY <1>1, <1>3, AnswerRead

(* One command at a time: hfpSendNextAtCmd sends only where none is        *)
(* pending.                                                                *)
LEMMA SendInTurn ==
  ASSUME NEW l \in LinkRecord, air \in Seq(Transfer), hfpSendNextAtCmd(l),
         l.pending = None => air = << >>
  PROVE  \/ link' = l /\ air' = air
         \/ /\ l.pending = None /\ link'.pending # None
            /\ Len(air') = 1 /\ air'[1].cmd = link'.pending
<1>1. CASE CanSend(l)
  <2>1. link' = Flushed(l) /\ air' = Append(air, OnAir(l)) /\ air = << >>
    BY <1>1 DEF hfpSendNextAtCmd, CanSend
  <2>2. link'.pending = Head(l.buffer) /\ Head(l.buffer) \in Command
    BY <1>1, <2>1, FlushedLink
  <2>3. OnAir(l) = [cmd |-> Head(l.buffer), vol |-> l.vol]
    BY DEF OnAir
  <2>4. air' = <<OnAir(l)>>
    BY <2>1
  <2> QED BY <1>1, <2>2, <2>3, <2>4, NoneAssumption DEF CanSend
<1>2. CASE ~CanSend(l)
  BY <1>2 DEF hfpSendNextAtCmd
<1> QED BY <1>1, <1>2

(***************************************************************************)
(* The end of the channel.                                                 *)
(***************************************************************************)
(* While the channel is up no message tells of its end. *)
Report == Message \ {"gone"}
Connected == link.open => inbox \in Seq(Report)

(* A channel that has gone down does not come up again. *)
LEMMA SendKeepsOpen ==
  ASSUME Types, NEW l \in LinkRecord, NEW c \in Command,
         hfpSendNextAtCmd(l) \/ hfpSendAtCmd(l, c)
  PROVE  link'.open = l.open
<1> DEFINE q == Queued(l, c)
<1>1. q \in LinkRecord /\ q.open = l.open
  BY QueuedLink DEF QueuedAs, Alike
<1>2. hfpSendNextAtCmd(l) \/ hfpSendNextAtCmd(q)
  BY DEF hfpSendAtCmd
<1> HIDE DEF q
<1> QED BY <1>1, <1>2, SendNext DEF Alike, Types

LEMMA ReportNames ==
  {"nrec", "btrh", "clcc", "bia", "cmee", "csrsf", "disconnect"} \cup Request \subseteq Report
BY DEF Report, Message, InternalRequest, Request

LEMMA AckConnected ==
  ASSUME Types, Connected, NEW status, atCmdAckReceived(status)
  PROVE  Connected'
<1> DEFINE l == AckedLink(status)
<1>1. l \in LinkRecord /\ l.open = link.open
  BY AckedLinkType DEF Types
<1>2. hfpSendNextAtCmd(l)
  BY DEF atCmdAckReceived
<1> HIDE DEF l
<1>3. link'.open = link.open
  BY <1>1, <1>2, SendNext DEF Alike, Types
<1>4. AckPosts(link, status) \in {<<"disconnect">>, <<"nrec">>, <<"btrh">>,
                                  <<"clcc", "bia">>, <<"cmee">>, << >>}
  BY DEF AckPosts
<1>5. AckPosts(link, status) \in Seq(Report)
  BY <1>4, ShortSeqs, ReportNames
<1>6. inbox' = inbox \o AckPosts(link, status)
  BY DEF atCmdAckReceived, AckEffects, Post
<1> QED BY <1>3, <1>5, <1>6 DEF Connected

LEMMA ConnectedNext ==
  ASSUME Types, Connected, [Next]_vars
  PROVE  Connected'
<1>1. CASE HandleAck
  BY <1>1, AckConnected DEF HandleAck
<1>2. CASE HandleBrsf
  <2> DEFINE l == [link EXCEPT !.features = ag.kind.features]
  <2>1. l \in LinkRecord /\ l.open = link.open
    BY DEF Types, LinkRecord, Feature
  <2>2. link' = l \/ hfpSendAtCmd(l, "bac")
    BY <1>2 DEF HandleBrsf
  <2> HIDE DEF l
  <2>3. "bac" \in Command
    BY DEF Command, SetupCommand
  <2>4. link'.open = link.open
    BY <2>1, <2>2, <2>3, SendKeepsOpen
  <2> QED BY <1>2, <2>4 DEF HandleBrsf, Connected
<1>3. CASE HandleChld
  <2>1. link'.open = link.open /\ inbox' = inbox \o <<"nrec">>
    BY <1>3 DEF HandleChld, Post, Types, LinkRecord
  <2>2. <<"nrec">> \in Seq(Report)
    BY ShortSeqs, ReportNames
  <2> QED BY <2>1, <2>2 DEF Connected
<1>4. CASE HandleSpeakerGain \/ (\E found \in BOOLEAN : SdpFeatures(found))
  <2>1. link'.open = link.open /\ inbox' = inbox
    BY <1>4 DEF HandleSpeakerGain, SdpFeatures, Types, LinkRecord
  <2> QED BY <2>1 DEF Connected
<1>5. ASSUME NEW m \in InternalRequest, HandleRequest(m) PROVE Connected'
  <2>1. inbox # << >> /\ m \in Command
    BY <1>5 DEF HandleRequest, Deliver, InternalRequest, Command, Request, SetupCommand
  <2>2. Sends(link, m) \in Command \cup {None}
    BY <2>1 DEF Sends, Command, Request
  <2>3. link'.open = link.open
    BY <1>5, <2>2, SendKeepsOpen DEF HandleRequest, Types
  <2>4. link.open => Tail(inbox) \in Seq(Report)
    BY <2>1, TailType DEF Connected
  <2>5. Skips(m) \in Seq(Report)
    BY ShortSeqs, ReportNames DEF Skips
  <2>6. inbox' = Tail(inbox) \/ inbox' = Tail(inbox) \o Skips(m)
    BY <1>5 DEF HandleRequest
  <2>7. link.open => inbox' \in Seq(Report)
    <3> DEFINE t == Tail(inbox)
               k == Skips(m)
    <3>1. k \in Seq(Report) /\ (link.open => t \in Seq(Report))
          /\ (inbox' = t \/ inbox' = t \o k)
      BY <2>4, <2>5, <2>6
    <3> HIDE DEF t, k
    <3>2. ASSUME link.open PROVE inbox' \in Seq(Report)
      <4>1. t \in Seq(Report) /\ t \o k \in Seq(Report)
        BY <3>1, <3>2
      <4> QED BY <3>1, <4>1
    <3> QED BY <3>2
  <2> QED BY <2>3, <2>7 DEF Connected
<1>6. CASE (\E m \in InternalRequest : RejectRequest(m)) \/ HandleDisconnectRequest
  <2>1. inbox # << >> /\ inbox' = Tail(inbox) /\ link' = link
    BY <1>6 DEF RejectRequest, HandleDisconnectRequest, Deliver
  <2> QED BY <2>1, TailType DEF Connected
<1>7. CASE HandleDisconnected
  BY <1>7 DEF HandleDisconnected, Connected, Reset
<1>8. CASE HandleTimeout
  <2>1. CASE link.slc = "complete"
    BY <1>8, <2>1, AckConnected DEF HandleTimeout
  <2>2. CASE link.slc # "complete"
    <3>1. link'.open = link.open /\ inbox' = inbox
      BY <1>8, <2>2 DEF HandleTimeout, Types, LinkRecord
    <3> QED BY <3>1 DEF Connected
  <2> QED BY <2>1, <2>2
<1>9. CASE (\E k \in Request : ClientRequest(k)) \/ ClientDisconnect
  <2>1. link' = link /\ \E m \in Request \cup {"disconnect"} : inbox' = inbox \o <<m>>
    BY <1>9 DEF ClientRequest, ClientDisconnect, Post
  <2>2. \A m \in Request \cup {"disconnect"} : <<m>> \in Seq(Report)
    BY ShortSeqs, ReportNames
  <2> QED BY <2>1, <2>2 DEF Connected
<1>10. ASSUME NEW g \in 0 .. (MaxGain + 1), VolumeRequest(g) PROVE Connected'
  <2> DEFINE l == [link EXCEPT !.vol = Clamped(g), !.volPending = TRUE]
  <2>1. Clamped(g) \in Volume
    BY BoundsAssumption DEF Clamped, Volume
  <2>2. l \in LinkRecord /\ l.open = link.open
    BY <2>1 DEF Types, LinkRecord
  <2>3. (link' = l \/ hfpSendAtCmd(l, "vgs")) /\ inbox' = inbox
    BY <1>10 DEF VolumeRequest
  <2> HIDE DEF l
  <2>4. "vgs" \in Command
    BY DEF Command
  <2>5. link'.open = link.open
    BY <2>2, <2>3, <2>4, SendKeepsOpen
  <2> QED BY <2>3, <2>5 DEF Connected
<1>11. CASE Closes
  BY <1>11 DEF Closes, Connected, Types, LinkRecord
<1>12. CASE AgStep \/ (\E v \in Volume : AgVolume(v)) \/ UNCHANGED vars
  BY <1>12 DEF AgStep, AgAccepts, AgRefuses, AgIgnores, AgVolume, vars, Connected
<1> QED BY <1>1, <1>2, <1>3, <1>4, <1>5, <1>6, <1>7, <1>8, <1>9, <1>10, <1>11, <1>12
        DEF Next, Lines, Messages, Client, Disconnected, Dropped

LEMMA SendShut ==
  ASSUME NEW l \in LinkRecord, air \in Seq(Transfer), hfpSendNextAtCmd(l), l.slc # "idle",
         ~l.open => l.buffer = << >> /\ air = << >>
  PROVE  Shut'
<1>1. Alike(l, link')
  BY SendNext
<1>2. link'.slc # "idle"
  BY <1>1 DEF Alike
<1>3. CASE l.open
  BY <1>1, <1>2, <1>3 DEF Alike, Shut
<1>4. CASE ~l.open
  <2>1. link' = l /\ air' = air
    BY <1>4 DEF hfpSendNextAtCmd, CanSend
  <2> QED BY <1>2, <1>4, <2>1 DEF Shut
<1> QED BY <1>3, <1>4

LEMMA AckShut ==
  ASSUME Types, Shut, link.slc # "idle", NEW status, atCmdAckReceived(status)
  PROVE  Shut'
<1> DEFINE l == AckedLink(status)
<1>1. l \in LinkRecord /\ l.open = link.open
      /\ l.slc = (IF AckCompletes(link, status) THEN "complete" ELSE link.slc)
  BY AckedLinkType DEF Types
<1>2. ASSUME ~link.open PROVE l.buffer = << >> /\ air = << >>
  <2> DEFINE a == Acked(link, status)
  <2>1. a \in LinkRecord /\ a.open = link.open /\ a.buffer = link.buffer
    BY AckedType DEF Types
  <2>2. l = [AckQueues(a, status) EXCEPT !.pending = None]
    BY DEF AckedLink
  <2> HIDE DEF a, l
  <2>3. \A c : Queued(a, c) = a
    BY <1>2, <2>1 DEF Queued
  <2>4. AckQueues(a, status) = a
    BY <2>3 DEF AckQueues
  <2> QED BY <1>2, <2>1, <2>2, <2>4 DEF Shut, LinkRecord
<1>3. hfpSendNextAtCmd(l)
  BY DEF atCmdAckReceived
<1>4. l.slc # "idle"
  BY <1>1
<1> HIDE DEF l
<1> QED BY <1>1, <1>2, <1>3, <1>4, SendShut DEF Types

LEMMA QueueShut ==
  ASSUME Types, Shut, NEW l \in LinkRecord, NEW c \in Command, hfpSendAtCmd(l, c),
         l.slc # "idle", l.open = link.open, l.buffer = link.buffer
  PROVE  Shut'
<1> DEFINE q == Queued(l, c)
<1>1. q \in LinkRecord /\ Alike(l, q)
  BY QueuedLink DEF QueuedAs
<1>2. ~l.open => q = l
  BY DEF Queued
<1>3. hfpSendNextAtCmd(q)
  BY DEF hfpSendAtCmd
<1> HIDE DEF q
<1>4. q.slc # "idle" /\ (~q.open => q.buffer = << >> /\ air = << >>)
  BY <1>1, <1>2 DEF Alike, Shut
<1> QED BY <1>1, <1>3, <1>4, SendShut DEF Types

LEMMA ShutNext ==
  ASSUME Types, Connected, Shut, [Next]_vars
  PROVE  Shut'
<1>1. CASE HandleAck
  BY <1>1, AckShut DEF HandleAck
<1>2. CASE HandleBrsf
  <2> DEFINE l == [link EXCEPT !.features = ag.kind.features]
  <2>1. l \in LinkRecord /\ l.slc = link.slc /\ l.open = link.open /\ l.buffer = link.buffer
    BY DEF Types, LinkRecord, Feature
  <2>2. (link' = l /\ air' = air) \/ hfpSendAtCmd(l, "bac")
    BY <1>2 DEF HandleBrsf
  <2>3. link.slc # "idle"
    BY <1>2 DEF HandleBrsf
  <2> HIDE DEF l
  <2>4. "bac" \in Command
    BY DEF Command, SetupCommand
  <2>5. CASE link' = l /\ air' = air
    BY <2>1, <2>3, <2>5 DEF Shut
  <2>6. CASE hfpSendAtCmd(l, "bac")
    BY <2>1, <2>3, <2>4, <2>6, QueueShut
  <2> QED BY <2>2, <2>5, <2>6
<1>3. CASE HandleChld \/ HandleSpeakerGain
  <2>1. link'.slc # "idle" /\ link'.open = link.open /\ link'.buffer = link.buffer /\ air' = air
    BY <1>3 DEF HandleChld, HandleSpeakerGain, Types, LinkRecord
  <2> QED BY <2>1 DEF Shut
<1>4. ASSUME NEW m \in InternalRequest, HandleRequest(m) PROVE Shut'
  <2>1. m \in Command
    BY DEF InternalRequest, Command, Request, SetupCommand
  <2>2. Sends(link, m) \in Command \cup {None}
    BY <2>1 DEF Sends, Command, Request
  <2>3. link.slc # "idle"
    BY <1>4 DEF HandleRequest
  <2>4. CASE Sends(link, m) # None
    <3>1. hfpSendAtCmd(link, Sends(link, m))
      BY <1>4, <2>4 DEF HandleRequest
    <3> QED BY <2>2, <2>3, <2>4, <3>1, QueueShut DEF Types
  <2>5. CASE Sends(link, m) = None
    BY <1>4, <2>3, <2>5 DEF HandleRequest, Shut
  <2> QED BY <2>4, <2>5
<1>5. CASE HandleDisconnected
  <2>1. link' = Reset(link) /\ back' = << >> /\ air' = air
    BY <1>5 DEF HandleDisconnected
  <2>2. ~link.open
    <3>1. inbox # << >> /\ Head(inbox) = "gone"
      BY <1>5 DEF HandleDisconnected, Deliver
    <3>2. ASSUME link.open PROVE FALSE
      <4>1. Head(inbox) \in Report
        BY <3>1, <3>2, TailType DEF Connected
      <4> QED BY <3>1, <4>1 DEF Report
    <3> QED BY <3>2
  <2> QED BY <2>1, <2>2 DEF Shut, Reset
<1>6. CASE HandleTimeout
  <2>1. CASE link.slc = "complete"
    BY <1>6, <2>1, AckShut DEF HandleTimeout
  <2>2. CASE link.slc # "complete"
    <3>1. link' = [link EXCEPT !.timer = FALSE] /\ air' = air /\ back' = back
      BY <1>6, <2>2 DEF HandleTimeout
    <3> QED BY <3>1 DEF Shut, Types, LinkRecord
  <2> QED BY <2>1, <2>2
<1>7. ASSUME NEW g \in 0 .. (MaxGain + 1), VolumeRequest(g) PROVE Shut'
  <2> DEFINE l == [link EXCEPT !.vol = Clamped(g), !.volPending = TRUE]
  <2>1. Clamped(g) \in Volume
    BY BoundsAssumption DEF Clamped, Volume
  <2>2. l \in LinkRecord /\ l.open = link.open /\ l.buffer = link.buffer /\ l.slc = link.slc
    BY <2>1 DEF Types, LinkRecord
  <2>3. (link' = l /\ air' = air) \/ hfpSendAtCmd(l, "vgs")
    BY <1>7 DEF VolumeRequest
  <2>4. link.slc # "idle"
    BY <1>7 DEF VolumeRequest
  <2> HIDE DEF l
  <2>5. "vgs" \in Command
    BY DEF Command
  <2>6. CASE link' = l /\ air' = air
    BY <2>2, <2>4, <2>6 DEF Shut
  <2>7. CASE hfpSendAtCmd(l, "vgs")
    BY <2>2, <2>4, <2>5, <2>7, QueueShut
  <2> QED BY <2>3, <2>6, <2>7
<1>8. ASSUME NEW found \in BOOLEAN, SdpFeatures(found) PROVE Shut'
  <2>1. /\ link'.slc = link.slc /\ link'.open = link.open /\ link'.buffer = link.buffer
        /\ link'.pending = link.pending /\ air' = air /\ back' = back
    BY <1>8 DEF SdpFeatures, Types, LinkRecord
  <2> QED BY <2>1 DEF Shut
<1>9. CASE Closes
  <2>1. link'.slc = link.slc /\ ~link'.open /\ link'.buffer = << >> /\ air' = << >>
        /\ link.open
    BY <1>9 DEF Closes, Types, LinkRecord
  <2> QED BY <2>1 DEF Shut
<1>10. CASE AgStep \/ (\E v \in Volume : AgVolume(v))
  BY <1>10 DEF AgStep, AgAccepts, AgRefuses, AgIgnores, AgVolume, Shut
<1>11. CASE UNCHANGED <<link, air, back>>
  BY <1>11 DEF Shut
<1>12. CASE \/ \E m \in InternalRequest : RejectRequest(m)
            \/ HandleDisconnectRequest \/ (\E k \in Request : ClientRequest(k)) \/ ClientDisconnect
            \/ UNCHANGED vars
  BY <1>11, <1>12 DEF RejectRequest, HandleDisconnectRequest, ClientRequest, ClientDisconnect, vars
<1> QED BY <1>1, <1>2, <1>3, <1>4, <1>5, <1>6, <1>7, <1>8, <1>9, <1>10, <1>12
        DEF Next, Lines, Messages, Client, Disconnected, Dropped

LEMMA AckInTurn ==
  ASSUME Types, InTurn, Shut, back # << >>, IsAnswer(Head(back)), back' = Tail(back),
         late' = late, NEW status, atCmdAckReceived(status)
  PROVE  InTurn'
<1> SUFFICES ASSUME ~late PROVE InTurn'
  BY DEF InTurn
<1> DEFINE l == AckedLink(status)
<1>1. air = << >> /\ NoAnswer(back')
  BY AnswerInTurn
<1>2. l \in LinkRecord /\ l.pending = None
  BY AckedLinkType DEF Types
<1>3. hfpSendNextAtCmd(l)
  BY DEF atCmdAckReceived
<1> HIDE DEF l
<1>4. \/ link' = l /\ air' = air
      \/ link'.pending # None /\ Len(air') = 1 /\ air'[1].cmd = link'.pending
  BY <1>1, <1>2, <1>3, SendInTurn DEF Types
<1> QED BY <1>1, <1>2, <1>4 DEF InTurn

(* A command that is added, and a line that is no answer and is read. *)
LEMMA QueueInTurn ==
  ASSUME Types, InTurn, NEW l \in LinkRecord, NEW c \in Command, hfpSendAtCmd(l, c),
         l.pending = link.pending, l.open = link.open,
         back' = back \/ (back # << >> /\ ~IsAnswer(Head(back)) /\ back' = Tail(back)),
         late' = late, ignored' = ignored
  PROVE  InTurn'
<1> SUFFICES ASSUME ~late PROVE InTurn'
  BY DEF InTurn
<1> DEFINE q == Queued(l, c)
<1>1. q \in LinkRecord /\ q.open = link.open /\ q.pending = link.pending
  BY QueuedLink DEF QueuedAs, Alike
<1>2. hfpSendNextAtCmd(q)
  BY DEF hfpSendAtCmd
<1> HIDE DEF q
<1>3. link.pending = None => air = << >> /\ NoAnswer(back)
  BY DEF InTurn
<1>4. \/ link' = q /\ air' = air
      \/ /\ q.pending = None /\ link'.pending # None
         /\ Len(air') = 1 /\ air'[1].cmd = link'.pending
  BY <1>1, <1>2, <1>3, SendInTurn DEF Types
<1>5. (NoAnswer(back) => NoAnswer(back'))
      /\ (OneAnswer(back, link.pending) => OneAnswer(back', link.pending))
  BY OtherRead DEF Types
<1> QED BY <1>1, <1>3, <1>4, <1>5 DEF InTurn

(* The same without a command. *)
LEMMA ReadInTurn ==
  ASSUME Types, InTurn,
         link'.pending = link.pending, link'.open = link.open, air' = air,
         back' = back \/ (back # << >> /\ ~IsAnswer(Head(back)) /\ back' = Tail(back)),
         late' = late, ignored' = ignored
  PROVE  InTurn'
<1>1. (NoAnswer(back) => NoAnswer(back'))
      /\ (OneAnswer(back, link.pending) => OneAnswer(back', link.pending))
  BY OtherRead DEF Types
<1> QED BY <1>1 DEF InTurn

(* The command the AG deals with is the one that is pending. *)
LEMMA FirstInTurn ==
  ASSUME Types, InTurn, ~late, air # << >>
  PROVE  /\ Head(air).cmd = link.pending /\ Head(air).cmd \in Command /\ Tail(air) = << >>
         /\ link.pending # None /\ NoAnswer(back)
<1>1. Len(air) = 1 /\ air[1].cmd = link.pending /\ NoAnswer(back) /\ link.pending # None
  BY DEF InTurn
<1>2. Head(air) = air[1] /\ Head(air) \in Transfer
  BY TailType DEF Types
<1>3. Tail(air) = << >>
  <2>1. air \in Seq(Transfer)
    BY DEF Types
  <2>2. Tail(air) \in Seq(Transfer) /\ Len(Tail(air)) = 0
    BY <1>1, <2>1
  <2> DEFINE t == Tail(air)
  <2> HIDE DEF t
  <2>3. t \in Seq(Transfer) /\ Len(t) = 0
    BY <2>2 DEF t
  <2>4. t = << >>
    BY <2>3
  <2> QED BY <2>4 DEF t
<1> QED BY <1>1, <1>2, <1>3 DEF Transfer

LEMMA InTurnNext ==
  ASSUME Types, Connected, Shut, InTurn, [Next]_vars
  PROVE  InTurn'
<1>1. CASE HandleAck
  <2>1. IsAnswer(Head(back))
    BY <1>1 DEF HandleAck, IsAnswer
  <2> QED BY <1>1, <2>1, AckInTurn DEF HandleAck
<1>2. CASE HandleBrsf
  <2> DEFINE l == [link EXCEPT !.features = ag.kind.features]
  <2>1. l \in LinkRecord /\ l.open = link.open /\ l.pending = link.pending
    BY DEF Types, LinkRecord, Feature
  <2>2. (link' = l /\ air' = air) \/ hfpSendAtCmd(l, "bac")
    BY <1>2 DEF HandleBrsf
  <2>3. /\ back # << >> /\ ~IsAnswer(Head(back)) /\ back' = Tail(back)
        /\ late' = late /\ ignored' = ignored
    BY <1>2 DEF HandleBrsf, IsAnswer
  <2> HIDE DEF l
  <2>4. "bac" \in Command
    BY DEF Command, SetupCommand
  <2>5. CASE link' = l /\ air' = air
    BY <2>1, <2>3, <2>5, ReadInTurn
  <2>6. CASE hfpSendAtCmd(l, "bac")
    BY <2>1, <2>3, <2>4, <2>6, QueueInTurn
  <2> QED BY <2>2, <2>5, <2>6
<1>3. CASE HandleChld \/ HandleSpeakerGain
  <2>1. link'.pending = link.pending /\ link'.open = link.open
    BY <1>3 DEF HandleChld, HandleSpeakerGain, Types, LinkRecord
  <2>2. back # << >> /\ ~IsAnswer(Head(back)) /\ back' = Tail(back)
    BY <1>3 DEF HandleChld, HandleSpeakerGain, IsAnswer
  <2> QED BY <1>3, <2>1, <2>2, ReadInTurn DEF HandleChld, HandleSpeakerGain
<1>4. ASSUME NEW m \in InternalRequest, HandleRequest(m) PROVE InTurn'
  <2>1. m \in Command
    BY DEF InternalRequest, Command, Request, SetupCommand
  <2>2. Sends(link, m) \in Command \cup {None}
    BY <2>1 DEF Sends, Command, Request
  <2>3. back' = back /\ late' = late /\ ignored' = ignored
    BY <1>4 DEF HandleRequest
  <2>4. CASE Sends(link, m) # None
    <3>1. hfpSendAtCmd(link, Sends(link, m))
      BY <1>4, <2>4 DEF HandleRequest
    <3> QED BY <2>2, <2>3, <2>4, <3>1, QueueInTurn DEF Types
  <2>5. CASE Sends(link, m) = None
    BY <1>4, <2>3, <2>5, ReadInTurn DEF HandleRequest
  <2> QED BY <2>4, <2>5
<1>5. CASE HandleDisconnected
  <2>1. link'.pending = None /\ back' = << >> /\ air' = air
    BY <1>5 DEF HandleDisconnected, Reset
  <2>2. ~link.open
    <3>1. inbox # << >> /\ Head(inbox) = "gone"
      BY <1>5 DEF HandleDisconnected, Deliver
    <3>2. ASSUME link.open PROVE FALSE
      <4>1. Head(inbox) \in Report
        BY <3>1, <3>2, TailType DEF Connected
      <4> QED BY <3>1, <4>1 DEF Report
    <3> QED BY <3>2
  <2>3. NoAnswer(<< >>)
    BY DEF NoAnswer
  <2> QED BY <2>1, <2>2, <2>3 DEF Shut, InTurn
<1>6. CASE HandleTimeout
  <2>1. CASE link.slc = "complete"
    BY <1>6, <2>1 DEF HandleTimeout, InTurn
  <2>2. CASE link.slc # "complete"
    <3>1. link' = [link EXCEPT !.timer = FALSE] /\ air' = air /\ back' = back
          /\ late' = late /\ ignored' = ignored
      BY <1>6, <2>2 DEF HandleTimeout
    <3>2. link'.pending = link.pending /\ link'.open = link.open
      BY <3>1 DEF Types, LinkRecord
    <3> QED BY <3>1, <3>2, ReadInTurn
  <2> QED BY <2>1, <2>2
<1>7. ASSUME NEW g \in 0 .. (MaxGain + 1), VolumeRequest(g) PROVE InTurn'
  <2> DEFINE l == [link EXCEPT !.vol = Clamped(g), !.volPending = TRUE]
  <2>1. Clamped(g) \in Volume
    BY BoundsAssumption DEF Clamped, Volume
  <2>2. l \in LinkRecord /\ l.open = link.open /\ l.pending = link.pending
    BY <2>1 DEF Types, LinkRecord
  <2>3. (link' = l /\ air' = air) \/ hfpSendAtCmd(l, "vgs")
    BY <1>7 DEF VolumeRequest
  <2>4. back' = back /\ late' = late /\ ignored' = ignored
    BY <1>7 DEF VolumeRequest
  <2> HIDE DEF l
  <2>5. "vgs" \in Command
    BY DEF Command
  <2>6. CASE link' = l /\ air' = air
    BY <2>2, <2>4, <2>6, ReadInTurn
  <2>7. CASE hfpSendAtCmd(l, "vgs")
    BY <2>2, <2>4, <2>5, <2>7, QueueInTurn
  <2> QED BY <2>3, <2>6, <2>7
<1>8. ASSUME NEW found \in BOOLEAN, SdpFeatures(found) PROVE InTurn'
  <2>1. /\ link'.open = link.open /\ link'.pending = link.pending /\ air' = air /\ back' = back
        /\ late' = late /\ ignored' = ignored
    BY <1>8 DEF SdpFeatures, Types, LinkRecord
  <2> QED BY <2>1, ReadInTurn
<1>9. CASE Closes
  <2>1. ~link'.open /\ link'.pending = link.pending /\ air' = << >> /\ back' = back /\ late' = late
    BY <1>9 DEF Closes, Types, LinkRecord
  <2> QED BY <2>1 DEF InTurn
<1>10. CASE AgAccepts
  <2> DEFINE c == Head(air).cmd
  <2>1. /\ air # << >> /\ air' = Tail(air) /\ late' = late /\ link' = link
        /\ back' = back \o Append(Info(c), Line("success", c))
    BY <1>10 DEF AgAccepts
  <2>2. ASSUME ~late PROVE air' = << >> /\ OneAnswer(back', link'.pending)
    BY <2>1, <2>2, FirstInTurn, AcceptedReply DEF Types
  <2> QED BY <2>1, <2>2 DEF InTurn, OneAnswer, NoAnswer
<1>11. CASE AgRefuses
  <2> DEFINE r == Line("fail", Head(air).cmd)
  <2>1. air # << >> /\ air' = Tail(air) /\ late' = late /\ link' = link /\ back' = Append(back, r)
    BY <1>11 DEF AgRefuses
  <2>2. ASSUME ~late PROVE air' = << >> /\ link'.pending # None /\ OneAnswer(back', link'.pending)
    <3>1. /\ Head(air).cmd = link.pending /\ Head(air).cmd \in Command /\ Tail(air) = << >>
          /\ link.pending # None /\ NoAnswer(back)
      BY <2>1, <2>2, FirstInTurn
    <3>2. r \in LineRecord /\ IsAnswer(r) /\ r.of = link.pending
      BY <3>1, ReplyType
    <3> HIDE DEF r
    <3> QED BY <2>1, <3>1, <3>2, AnswerComes DEF Types
  <2> QED BY <2>1, <2>2 DEF InTurn
<1>12. CASE AgIgnores
  <2>1. air # << >> /\ air' = Tail(air) /\ late' = late /\ link' = link /\ back' = back /\ ignored'
    BY <1>12 DEF AgIgnores
  <2>2. ASSUME ~late PROVE air' = << >> /\ NoAnswer(back')
    BY <2>1, <2>2, FirstInTurn
  <2> QED BY <2>1, <2>2 DEF InTurn
<1>13. ASSUME NEW v \in Volume, AgVolume(v) PROVE InTurn'
  <2> DEFINE r == [line |-> "+VGS", of |-> None, vol |-> v]
  <2>1. link' = link /\ air' = air /\ late' = late /\ ignored' = ignored /\ back' = Append(back, r)
    BY <1>13 DEF AgVolume
  <2>2. r \in LineRecord /\ ~IsAnswer(r)
    BY DEF LineRecord, IsAnswer
  <2> HIDE DEF r
  <2>3. (NoAnswer(back) => NoAnswer(back'))
        /\ (OneAnswer(back, link.pending) => OneAnswer(back', link.pending))
    BY <2>1, <2>2, OtherComes DEF Types
  <2> QED BY <2>1, <2>3 DEF InTurn
<1>14. CASE UNCHANGED <<link, air, back, late, ignored>>
  BY <1>14 DEF InTurn
<1>15. CASE \/ \E m \in InternalRequest : RejectRequest(m)
            \/ HandleDisconnectRequest \/ (\E k \in Request : ClientRequest(k)) \/ ClientDisconnect
            \/ UNCHANGED vars
  BY <1>14, <1>15 DEF RejectRequest, HandleDisconnectRequest, ClientRequest, ClientDisconnect, vars
<1> QED BY <1>1, <1>2, <1>3, <1>4, <1>5, <1>6, <1>7, <1>8, <1>9, <1>10, <1>11, <1>12, <1>13, <1>15
        DEF Next, Lines, Messages, Client, AgStep, Disconnected, Dropped

(* What every state of the channel satisfies. *)
Turns == Types /\ Connected /\ Shut /\ InTurn

LEMMA TurnsInit == Init => Turns
<1> SUFFICES ASSUME Init PROVE Connected /\ Shut /\ InTurn
  BY TypesInit DEF Turns
<1>1. Connected
  BY ShortSeqs DEF Init, Connected
<1>2. Shut
  BY InitFacts DEF Shut
<1>3. air = <<[cmd |-> "brsf", vol |-> 0]>> /\ back = << >>
  BY DEF Init
<1>4. "brsf" \in Command
  BY DEF Command, SetupCommand
<1>5. InTurn
  BY <1>3, <1>4, InitFacts, NoneAssumption DEF InTurn, NoAnswer
<1> QED BY <1>1, <1>2, <1>5

LEMMA TurnsNext == Turns /\ [Next]_vars => Turns'
BY TypesNext, ConnectedNext, ShutNext, InTurnNext DEF Turns

LEMMA TurnsAlways == Spec => []Turns
BY TurnsInit, TurnsNext, PTL DEF Spec

(* hfpHandleOk handles a response "in the context of the AT cmd it relates *)
(* to": the command that is pending is the one the AG answers, as long as  *)
(* no timeout has closed a command.                                        *)
THEOREM AnswersComeInTurn == Spec => []AnswersMatch
<1>1. ASSUME Turns, link.open, ~late, ~ignored
      PROVE  IF link.pending = None
             THEN air = << >> /\ Answers = {}
             ELSE \/ Len(air) = 1 /\ air[1].cmd = link.pending /\ Answers = {}
                  \/ air = << >> /\ \E i \in Answers : Answers = {i} /\ back[i].of = link.pending
  <2>1. NoAnswer(back) => Answers = {}
    BY DEF NoAnswer, IsAnswer, Answers
  <2>2. OneAnswer(back, link.pending)
          => \E i \in Answers : Answers = {i} /\ back[i].of = link.pending
    BY DEF OneAnswer, IsAnswer, Answers
  <2> QED BY <1>1, <2>1, <2>2 DEF Turns, InTurn
<1>2. Turns => AnswersMatch
  BY <1>1 DEF AnswersMatch
<1> QED BY <1>2, TurnsAlways, PTL

(***************************************************************************)
(* The set-up of the service level connection.                             *)
(***************************************************************************)
(* What may wait behind each command of the set-up: the handlers of the    *)
(* answers queue AT+CIND=? and AT+CIND? after AT+BRSF, AT+CMER after       *)
(* AT+CIND=?, and AT+CHLD after AT+CIND?, and a full buffer drops some.    *)
SetupBuffers(p) ==
  CASE p = "brsf"     -> {<< >>, <<"bac">>}
    [] p = "bac"      -> {<< >>, <<"cindTest">>, <<"cindRead">>, <<"cindTest", "cindRead">>}
    [] p = "cindTest" -> {<< >>, <<"cindRead">>}
    [] p = "cindRead" -> {<< >>, <<"cmer">>}
    [] p = "cmer"     -> {<< >>, <<"chld">>}
    [] OTHER          -> {<< >>}

(* What waits when an answer has been handled and nothing is sent yet. *)
Waiting ==
  {<< >>, <<"bac">>, <<"bac", "cindTest">>, <<"bac", "cindRead">>,
   <<"bac", "cindTest", "cindRead">>,
   <<"cindTest">>, <<"cindTest", "cindRead">>, <<"cindRead">>, <<"cindRead", "cmer">>,
   <<"cmer">>, <<"cmer", "chld">>, <<"chld">>}

ChldWaits(b) == b = <<"chld">> \/ b = <<"cmer", "chld">>

(* During the set-up the lines of the AG belong to the command that is     *)
(* pending, and an answer is the last of them.                             *)
SetupLine(i) ==
  /\ back[i].line \in {"success", "fail"} => i = Len(back)
  /\ back[i].line = "+BRSF" => i = 1 /\ link.pending = "brsf" /\ link.buffer = << >>
  /\ back[i].line = "+CHLD" => i = 1 /\ link.pending = "chld"
  /\ back[i].line # "+VGS"

SettingUp ==
  link.slc = "connected" =>
    /\ ~late
    /\ link.pending \in SetupCommand \cup {None}
    /\ link.buffer \in SetupBuffers(link.pending)
    /\ air # << >> => back = << >> /\ (link.pending = "brsf" => link.buffer = << >>)
    /\ \A i \in DOMAIN back : SetupLine(i)
    /\ "twc" \in ag.kind.features => "twc" \in link.features
    /\ link.pending = "chld" \/ link.buffer = <<"chld">> => "twc" \in Hf

(* Afterwards nothing is under way that could complete the set-up again:   *)
(* AT+CHLD is only where the AG refuses it.                                *)
Early == {"brsf", "cindTest", "cindRead", "cmer"}
Later(k) == {c \in Command : c \notin Early /\ (c = "chld" => "twc" \notin k.features)}
LaterLine == {r \in LineRecord : r.line # "+CHLD"}

Sendable(S) == [cmd : S, vol : Volume]

SetUp ==
  link.slc = "complete" =>
    /\ link.pending \notin Early
    /\ link.buffer \in Seq(Later(ag.kind))
    /\ air \in Seq(Sendable(Later(ag.kind)))
    /\ back \in Seq(LaterLine)

Once == SettingUp /\ SetUp /\ ConnectConfirmedOnce

LEMMA AppendShort ==
  ASSUME NEW a, NEW b, NEW c
  PROVE  /\ Append(<< >>, a) = <<a>> /\ Append(<<a>>, b) = <<a, b>>
         /\ Append(<<a, b>>, c) = <<a, b, c>>
<1> DEFINE S == {a, b, c}
<1>1. /\ << >> \in Seq(S) /\ <<a>> \in Seq(S) /\ <<a, b>> \in Seq(S) /\ <<a, b, c>> \in Seq(S)
      /\ Len(<< >>) = 0 /\ Len(<<a>>) = 1 /\ Len(<<a, b>>) = 2 /\ Len(<<a, b, c>>) = 3
  OBVIOUS
<1>2. ASSUME NEW s \in Seq(S), NEW t \in Seq(S), NEW x \in S,
             Len(t) = Len(s) + 1, \A i \in 1 .. Len(s) : t[i] = s[i], t[Len(s) + 1] = x
      PROVE  Append(s, x) = t
  <2> DEFINE r == Append(s, x)
  <2>1. r \in Seq(S) /\ Len(r) = Len(s) + 1 /\ r[Len(s) + 1] = x
        /\ \A i \in 1 .. Len(s) : r[i] = s[i]
    OBVIOUS
  <2> HIDE DEF r
  <2>2. Len(s) \in Nat
    OBVIOUS
  <2>3. \A i \in 1 .. Len(r) : r[i] = t[i]
    BY <1>2, <2>1, <2>2
  <2>4. r = t
    BY <1>2, <2>1, <2>3
  <2> QED BY <2>4 DEF r
<1>3. a \in S /\ b \in S /\ c \in S
  OBVIOUS
<1>4. Append(<< >>, a) = <<a>>
  <2>1. \A i \in 1 .. 0 : <<a>>[i] = << >>[i]
    OBVIOUS
  <2> QED BY <1>1, <1>2, <1>3, <2>1
<1>5. Append(<<a>>, b) = <<a, b>>
  <2> DEFINE s == <<a>>
             t == <<a, b>>
  <2>1. t[1] = s[1] /\ t[2] = b /\ s \in Seq(S) /\ t \in Seq(S) /\ Len(s) = 1 /\ Len(t) = 2
    BY <1>1
  <2> HIDE DEF S, s, t
  <2>2. Append(s, b) = t
    BY SMTT(30), <1>2, <1>3, <2>1
  <2> QED BY <2>2 DEF s, t
<1>6. Append(<<a, b>>, c) = <<a, b, c>>
  <2> DEFINE s == <<a, b>>
             t == <<a, b, c>>
  <2>1. /\ t[1] = s[1] /\ t[2] = s[2] /\ t[3] = c
        /\ s \in Seq(S) /\ t \in Seq(S) /\ Len(s) = 2 /\ Len(t) = 3
    BY <1>1
  <2> HIDE DEF S, s, t
  <2>2. \A i \in 1 .. Len(s) : t[i] = s[i]
    BY <2>1
  <2>3. Len(t) = Len(s) + 1 /\ t[Len(s) + 1] = c
    BY <2>1
  <2>4. Append(s, c) = t
    BY <1>2, <1>3, <2>1, <2>2, <2>3
  <2> QED BY <2>4 DEF s, t
<1> QED BY <1>4, <1>5, <1>6

LEMMA ShortTails ==
  ASSUME NEW a, NEW b, NEW c
  PROVE  /\ Head(<<a>>) = a /\ Tail(<<a>>) = << >>
         /\ Head(<<a, b>>) = a /\ Tail(<<a, b>>) = <<b>>
         /\ Head(<<a, b, c>>) = a /\ Tail(<<a, b, c>>) = <<b, c>>
OBVIOUS

LEMMA WaitingSent ==
  ASSUME NEW b \in Waiting, b # << >>
  PROVE  /\ Head(b) \in SetupCommand \ {"brsf"} /\ Tail(b) \in SetupBuffers(Head(b))
         /\ Head(b) = "chld" \/ Tail(b) = <<"chld">> => ChldWaits(b)
<1>1. CASE b = <<"bac">>
  BY <1>1, ShortTails DEF SetupBuffers, SetupCommand, ChldWaits
<1>2. CASE b = <<"bac", "cindTest">>
  BY <1>2, ShortTails DEF SetupBuffers, SetupCommand, ChldWaits
<1>3. CASE b = <<"bac", "cindTest", "cindRead">>
  BY <1>3, ShortTails DEF SetupBuffers, SetupCommand, ChldWaits
<1>4. CASE b = <<"cindTest">>
  BY <1>4, ShortTails DEF SetupBuffers, SetupCommand, ChldWaits
<1>5. CASE b = <<"cindTest", "cindRead">>
  BY <1>5, ShortTails DEF SetupBuffers, SetupCommand, ChldWaits
<1>6. CASE b = <<"cindRead">>
  BY <1>6, ShortTails DEF SetupBuffers, SetupCommand, ChldWaits
<1>7. CASE b = <<"cindRead", "cmer">>
  BY <1>7, ShortTails DEF SetupBuffers, SetupCommand, ChldWaits
<1>8. CASE b = <<"cmer">>
  BY <1>8, ShortTails DEF SetupBuffers, SetupCommand, ChldWaits
<1>9. CASE b = <<"cmer", "chld">>
  BY <1>9, ShortTails DEF SetupBuffers, SetupCommand, ChldWaits
<1>10. CASE b = <<"chld">>
  BY <1>10, ShortTails DEF SetupBuffers, SetupCommand, ChldWaits
<1>11. CASE b = <<"bac", "cindRead">>
  BY <1>11, ShortTails DEF SetupBuffers, SetupCommand, ChldWaits
<1> QED BY <1>1, <1>2, <1>3, <1>4, <1>5, <1>6, <1>7, <1>8, <1>9, <1>10, <1>11 DEF Waiting

(* hfpSendNextAtCmd after an answer of the set-up. *)
LEMMA SendSetup ==
  ASSUME NEW l \in LinkRecord, l.pending = None, l.buffer \in Waiting,
         ~l.open => l.buffer = << >>, hfpSendNextAtCmd(l)
  PROVE  /\ link'.pending \in (SetupCommand \ {"brsf"}) \cup {None}
         /\ link'.buffer \in SetupBuffers(link'.pending)
         /\ link'.pending = "chld" \/ link'.buffer = <<"chld">> => ChldWaits(l.buffer)
<1>1. CASE CanSend(l)
  <2>1. l.buffer # << >> /\ link' = Flushed(l)
    BY <1>1 DEF CanSend, hfpSendNextAtCmd
  <2>2. link'.pending = Head(l.buffer) /\ link'.buffer = Tail(l.buffer)
    BY <1>1, <2>1, FlushedLink
  <2> QED BY <2>1, <2>2, WaitingSent
<1>2. CASE ~CanSend(l)
  <2>1. link' = l /\ l.buffer = << >>
    BY <1>2 DEF CanSend, hfpSendNextAtCmd
  <2>2. None # "chld" /\ << >> # <<"chld">>
    BY NoneAssumption DEF Command, SetupCommand
  <2>3. << >> \in SetupBuffers(None)
    BY DEF SetupBuffers
  <2> QED BY <2>1, <2>2, <2>3
<1> QED BY <1>1, <1>2

(* hfpSendAtCmd for a buffer that is known: it holds one command more, or  *)
(* the same.                                                               *)
LEMMA QueuedBuffer ==
  ASSUME NEW l \in LinkRecord, NEW c \in Command
  PROVE  /\ Queued(l, c) \in LinkRecord
         /\ Queued(l, c).buffer = Append(l.buffer, c) \/ Queued(l, c).buffer = l.buffer
BY QueuedLink DEF QueuedAs

LEMMA SetupAckBuffer ==
  ASSUME Types, SettingUp, link.slc = "connected", link.pending # None, NEW status,
         NEW l, l = AckedLink(status)
  PROVE  /\ l.buffer \in Waiting
         /\ ChldWaits(l.buffer) => "twc" \in Hf
         /\ link.pending = "cmer" => l.buffer = link.buffer
<1> DEFINE a == Acked(link, status)
           q == AckQueues(a, status)
<1>1. a \in LinkRecord /\ a.pending = link.pending /\ a.buffer = link.buffer
  BY AckedType DEF Types
<1>2. q \in LinkRecord /\ l = [q EXCEPT !.pending = None]
  BY <1>1, AckQueuesType DEF AckedLink
<1>3. l.buffer = q.buffer
  <2> HIDE DEF q
  <2> QED BY <1>2 DEF LinkRecord
<1>4. /\ link.pending \in SetupCommand /\ link.buffer \in SetupBuffers(link.pending)
      /\ link.pending = "chld" \/ link.buffer = <<"chld">> => "twc" \in Hf
  BY DEF SettingUp
<1>5. SetupCommand \subseteq Command
  BY Names
<1> HIDE DEF a
<1>6. CASE link.pending = "brsf"
  <2> DEFINE m == Queued(a, "cindTest")
  <2>1. m \in LinkRecord /\ (m.buffer = Append(a.buffer, "cindTest") \/ m.buffer = a.buffer)
    BY <1>1, <1>5, QueuedBuffer DEF SetupCommand
  <2>2. q = Queued(m, "cindRead")
    BY <1>1, <1>6 DEF AckQueues
  <2> HIDE DEF m
  <2>3. q.buffer = Append(m.buffer, "cindRead") \/ q.buffer = m.buffer
    BY <2>1, <2>2, <1>5, QueuedBuffer DEF SetupCommand
  <2>4. a.buffer = << >> \/ a.buffer = <<"bac">>
    BY <1>1, <1>4, <1>6 DEF SetupBuffers
  <2>5. m.buffer \in {<< >>, <<"bac">>, <<"cindTest">>, <<"bac", "cindTest">>}
    BY <2>1, <2>4, AppendShort
  <2>6. q.buffer \in {<< >>, <<"bac">>, <<"cindTest">>, <<"bac", "cindTest">>, <<"cindRead">>,
                      <<"bac", "cindRead">>, <<"cindTest", "cindRead">>,
                      <<"bac", "cindTest", "cindRead">>}
    BY <2>3, <2>5, AppendShort
  <2>7. q.buffer \in Waiting /\ ~ChldWaits(q.buffer)
    <3> HIDE DEF q
    <3>1. q.buffer \in Waiting
      BY <2>6 DEF Waiting
    <3>2. q.buffer # <<"chld">>
      BY <2>6, SMTT(30)
    <3>3. q.buffer # <<"cmer", "chld">>
      BY <2>6, SMTT(30)
    <3> QED BY <3>1, <3>2, <3>3 DEF ChldWaits
  <2> QED BY <1>3, <1>6, <2>7
<1>7. CASE link.pending = "cindTest"
  <2>1. q = a \/ q = Queued(a, "cmer")
    BY <1>1, <1>7 DEF AckQueues
  <2>2. q.buffer = a.buffer \/ q.buffer = Append(a.buffer, "cmer")
    BY <1>1, <1>5, <2>1, QueuedBuffer DEF SetupCommand
  <2>3. a.buffer = << >> \/ a.buffer = <<"cindRead">>
    BY <1>1, <1>4, <1>7 DEF SetupBuffers
  <2>4. q.buffer \in {<< >>, <<"cindRead">>, <<"cmer">>, <<"cindRead", "cmer">>}
    BY <2>2, <2>3, AppendShort
  <2>5. q.buffer \in Waiting /\ ~ChldWaits(q.buffer)
    <3> HIDE DEF q
    <3> QED BY <2>4 DEF Waiting, ChldWaits
  <2> QED BY <1>3, <1>7, <2>5
<1>8. CASE link.pending = "cindRead"
  <2>1. q = a \/ (q = Queued(a, "chld") /\ "twc" \in Hf)
    BY <1>1, <1>8 DEF AckQueues, Supported
  <2>2. q.buffer = a.buffer \/ (q.buffer = Append(a.buffer, "chld") /\ "twc" \in Hf)
    BY <1>1, <1>5, <2>1, QueuedBuffer DEF SetupCommand
  <2>3. a.buffer = << >> \/ a.buffer = <<"cmer">>
    BY <1>1, <1>4, <1>8 DEF SetupBuffers
  <2>4. \/ q.buffer \in {<< >>, <<"cmer">>}
        \/ q.buffer \in {<<"chld">>, <<"cmer", "chld">>} /\ "twc" \in Hf
    BY <2>2, <2>3, AppendShort
  <2>5. q.buffer \in Waiting /\ (ChldWaits(q.buffer) => "twc" \in Hf)
    <3> HIDE DEF q
    <3> QED BY <2>4 DEF Waiting, ChldWaits
  <2> QED BY <1>3, <1>8, <2>5
<1>9. CASE link.pending \in {"bac", "cmer", "chld"}
  <2>1. q = a
    BY <1>1, <1>9 DEF AckQueues
  <2>2. \/ a.buffer \in {<< >>, <<"cindTest">>, <<"cindRead">>, <<"cindTest", "cindRead">>}
        \/ a.buffer = <<"chld">> /\ "twc" \in Hf
    BY <1>1, <1>4, <1>9 DEF SetupBuffers
  <2>3. a.buffer \in Waiting
    BY <2>2 DEF Waiting
  <2>4. ChldWaits(a.buffer) => "twc" \in Hf
    <3>1. \A b \in {<< >>, <<"cindTest">>, <<"cindRead">>, <<"cindTest", "cindRead">>} : ~ChldWaits(b)
      BY DEF ChldWaits
    <3> QED BY <2>2, <3>1
  <2> QED BY <1>1, <1>3, <1>9, <2>1, <2>3, <2>4
<1> QED BY <1>4, <1>6, <1>7, <1>8, <1>9 DEF SetupCommand

(* Once the set-up is over: what is sent stays among the commands of S.    *)
LEMMA SendDone ==
  ASSUME NEW S, S \subseteq Command, NEW l \in LinkRecord, l.buffer \in Seq(S),
         air \in Seq(Sendable(S)), hfpSendNextAtCmd(l)
  PROVE  /\ link'.buffer \in Seq(S) /\ air' \in Seq(Sendable(S))
         /\ link'.pending = l.pending \/ link'.pending \in S
<1>1. CASE CanSend(l)
  <2>1. l.buffer # << >> /\ link' = Flushed(l) /\ air' = Append(air, OnAir(l))
    BY <1>1 DEF CanSend, hfpSendNextAtCmd
  <2>2. link'.pending = Head(l.buffer) /\ link'.buffer = Tail(l.buffer)
    BY <1>1, <2>1, FlushedLink
  <2>3. Tail(l.buffer) \in Seq(S) /\ Head(l.buffer) \in S
    BY <2>1, TailType
  <2>4. OnAir(l) \in Sendable(S)
    BY <2>3 DEF OnAir, Sendable, LinkRecord
  <2> QED BY <2>1, <2>2, <2>3, <2>4
<1>2. CASE ~CanSend(l)
  BY <1>2 DEF hfpSendNextAtCmd
<1> QED BY <1>1, <1>2

LEMMA QueueDone ==
  ASSUME NEW S, S \subseteq Command, NEW l \in LinkRecord, NEW c \in S, l.buffer \in Seq(S)
  PROVE  Queued(l, c) \in LinkRecord /\ Queued(l, c).buffer \in Seq(S)
         /\ Queued(l, c).pending = l.pending
<1> DEFINE q == Queued(l, c)
<1>1. q \in LinkRecord /\ (q.buffer = Append(l.buffer, c) \/ q.buffer = l.buffer)
  BY QueuedBuffer
<1>2. q.pending = l.pending
  BY QueuedLink DEF QueuedAs
<1> HIDE DEF q
<1>3. q.buffer \in Seq(S)
  BY <1>1
<1> QED BY <1>1, <1>2, <1>3 DEF q

LEMMA AckDone ==
  ASSUME Types, NEW S, S \subseteq Command, "cops" \in S, link.buffer \in Seq(S),
         link.pending \notin {"brsf", "cindTest", "cindRead"}, NEW status
  PROVE  AckedLink(status).buffer \in Seq(S)
<1> DEFINE a == Acked(link, status)
           q == AckQueues(a, status)
<1>1. a \in LinkRecord /\ a.pending = link.pending /\ a.buffer = link.buffer
  BY AckedType DEF Types
<1>2. q \in LinkRecord /\ AckedLink(status) = [q EXCEPT !.pending = None]
  BY <1>1, AckQueuesType DEF AckedLink
<1>3. AckedLink(status).buffer = q.buffer
  <2> HIDE DEF q
  <2> QED BY <1>2 DEF LinkRecord
<1> HIDE DEF a
<1>4. q = a \/ q = Queued(a, "cops")
  BY <1>1 DEF AckQueues
<1>5. q.buffer \in Seq(S)
  <2>1. Queued(a, "cops").buffer \in Seq(S)
    BY <1>1, QueueDone
  <2> HIDE DEF q
  <2> QED BY <1>1, <1>4, <2>1
<1> QED BY <1>3, <1>5

LEMMA LaterNames ==
  ASSUME NEW k
  PROVE  /\ Later(k) \subseteq Command
         /\ {"bac", "nrec", "btrh", "clcc", "bia", "cmee", "csrsf", "vgs", "copsFormat",
             "user", "cops"} \subseteq Later(k)
         /\ \A c \in Later(k) : c \notin Early /\ (c = "chld" => "twc" \notin k.features)
BY DEF Later, Command, SetupCommand, Request, Early

LEMMA NoneLater == None \notin Early
BY NoneAssumption DEF Command, SetupCommand, Early

(* A handler that ends with hfpSendNextAtCmd, once the SLC is complete. *)
LEMMA SetUpSends ==
  ASSUME Types, NEW l \in LinkRecord, hfpSendNextAtCmd(l),
         l.pending \notin Early, l.buffer \in Seq(Later(ag.kind)),
         air \in Seq(Sendable(Later(ag.kind))), back' \in Seq(LaterLine), ag'.kind = ag.kind
  PROVE  SetUp'
<1> DEFINE S == Later(ag.kind)
<1>1. S \subseteq Command /\ \A c \in S : c \notin Early
  BY LaterNames
<1>2. l.buffer \in Seq(S) /\ air \in Seq(Sendable(S))
  OBVIOUS
<1> HIDE DEF S
<1>3. /\ link'.buffer \in Seq(S) /\ air' \in Seq(Sendable(S))
      /\ link'.pending = l.pending \/ link'.pending \in S
  BY <1>1, <1>2, SendDone
<1>4. link'.pending \notin Early
  BY <1>1, <1>3
<1>5. S = Later(ag'.kind)
  BY DEF S
<1> QED BY <1>3, <1>4, <1>5 DEF SetUp

LEMMA SetUpQueues ==
  ASSUME Types, SetUp, link.slc = "complete", NEW l \in LinkRecord,
         NEW c \in Later(ag.kind), hfpSendAtCmd(l, c),
         l.pending = link.pending, l.buffer = link.buffer,
         back' \in Seq(LaterLine), ag'.kind = ag.kind
  PROVE  SetUp'
<1> DEFINE q == Queued(l, c)
<1>1. /\ l.buffer \in Seq(Later(ag.kind)) /\ l.pending \notin Early
      /\ air \in Seq(Sendable(Later(ag.kind)))
  BY DEF SetUp
<1>2. Later(ag.kind) \subseteq Command
  BY LaterNames
<1>3. q \in LinkRecord /\ q.buffer \in Seq(Later(ag.kind)) /\ q.pending = l.pending
  BY <1>1, <1>2, QueueDone
<1>4. hfpSendNextAtCmd(q)
  BY DEF hfpSendAtCmd
<1> HIDE DEF q
<1> QED BY <1>1, <1>3, <1>4, SetUpSends

(* Lines that are read. *)
LEMMA SetupLineAlone ==
  ASSUME Types, SettingUp, link.slc = "connected", back # << >>, IsAnswer(Head(back))
  PROVE  Tail(back) = << >>
<1>1. back \in Seq(LineRecord) /\ 1 \in DOMAIN back /\ Head(back) = back[1]
  BY TailLines DEF Types
<1>2. 1 = Len(back)
  BY <1>1 DEF SettingUp, SetupLine, IsAnswer
<1> DEFINE t == Tail(back)
<1>3. t \in Seq(LineRecord) /\ Len(t) = 0
  BY <1>1, <1>2
<1> HIDE DEF t
<1>4. t = << >>
  BY <1>3
<1> QED BY <1>4 DEF t

LEMMA SetupTail ==
  ASSUME Types, SettingUp, link.slc = "connected", back # << >>
  PROVE  \A i \in DOMAIN Tail(back) :
           /\ Tail(back)[i].line \notin {"+BRSF", "+CHLD", "+VGS"}
           /\ Tail(back)[i].line \in {"success", "fail"} => i = Len(Tail(back))
<1> DEFINE t == Tail(back)
<1>1. back \in Seq(LineRecord)
  BY DEF Types
<1>2. Len(t) = Len(back) - 1 /\ Len(back) \in Nat /\ DOMAIN t = 1 .. Len(t)
  BY <1>1
<1>3. ASSUME NEW i \in DOMAIN t
      PROVE  /\ t[i].line \notin {"+BRSF", "+CHLD", "+VGS"}
             /\ t[i].line \in {"success", "fail"} => i = Len(t)
  <2>1. i + 1 \in DOMAIN back /\ t[i] = back[i + 1]
    BY <1>1, <1>3, TailLines
  <2>2. SetupLine(i + 1)
    BY <2>1 DEF SettingUp
  <2>3. i \in Nat \ {0}
    BY <1>2, <1>3
  <2> HIDE DEF t
  <2> QED BY <1>2, <2>1, <2>2, <2>3 DEF SetupLine
<1> QED BY <1>3

LEMMA LaterTail ==
  ASSUME NEW b \in Seq(LaterLine), b # << >>
  PROVE  Tail(b) \in Seq(LaterLine) /\ Head(b).line # "+CHLD"
BY TailType DEF LaterLine

(* A read line of the set-up leaves lines that fit what comes after it. *)
LEMMA SetupTailLater ==
  ASSUME Types, SettingUp, link.slc = "connected", back # << >>
  PROVE  Tail(back) \in Seq(LaterLine)
<1> DEFINE t == Tail(back)
<1>1. t \in Seq(LineRecord)
  BY TailType DEF Types
<1>2. \A i \in DOMAIN t : t[i].line # "+CHLD"
  BY SetupTail
<1> HIDE DEF t
<1>3. Len(t) \in Nat /\ DOMAIN t = 1 .. Len(t) /\ \A i \in 1 .. Len(t) : t[i] \in LaterLine
  BY <1>1, <1>2 DEF LaterLine
<1>4. t \in Seq(LaterLine)
  <2>1. t = [i \in 1 .. Len(t) |-> t[i]]
    BY <1>1
  <2>2. t \in [1 .. Len(t) -> LaterLine]
    BY <1>3, <2>1
  <2> QED BY <1>3, <2>2
<1> QED BY <1>4 DEF t

(* An answer of the set-up: it sends the next command, or completes it.    *)
LEMMA OnceAckSetup ==
  ASSUME Turns, Once, link.slc = "connected", HandleAck
  PROVE  Once'
<1> DEFINE status == Head(back).line
           l == AckedLink(status)
<1>1. Types /\ Shut /\ InTurn /\ SettingUp /\ ~late /\ connects = 0
  BY DEF Turns, Once, SettingUp, ConnectConfirmedOnce
<1>2. /\ back # << >> /\ IsAnswer(Head(back)) /\ back' = Tail(back) /\ atCmdAckReceived(status)
      /\ ag' = ag /\ late' = late
  BY DEF HandleAck, IsAnswer
<1>3. air = << >> /\ link.pending # None
  BY <1>1, <1>2, AnswerInTurn
<1>4. back' = << >>
  BY <1>1, <1>2, SetupLineAlone
<1>5. /\ l.buffer \in Waiting /\ (ChldWaits(l.buffer) => "twc" \in Hf)
      /\ (link.pending = "cmer" => l.buffer = link.buffer)
  BY <1>1, <1>3, SetupAckBuffer
<1>6. /\ l \in LinkRecord /\ l.pending = None /\ l.open = link.open
      /\ l.slc = (IF AckCompletes(link, status) THEN "complete" ELSE link.slc)
      /\ ("twc" \in link.features => "twc" \in l.features)
  BY <1>1, AckedLinkType DEF Types
<1>7. hfpSendNextAtCmd(l) /\ connects' = connects + (IF AckCompletes(link, status) THEN 1 ELSE 0)
  BY <1>2 DEF atCmdAckReceived, AckEffects
<1>8. ~link.open => l.buffer = << >>
  <2>1. ~link.open => link.buffer = << >>
    BY <1>1 DEF Shut
  <2> DEFINE a == Acked(link, status)
  <2>2. a \in LinkRecord /\ a.open = link.open /\ a.buffer = link.buffer
    BY <1>1, AckedType DEF Types
  <2>3. l = [AckQueues(a, status) EXCEPT !.pending = None]
    BY DEF AckedLink
  <2> HIDE DEF a, l
  <2>4. ASSUME ~link.open PROVE AckQueues(a, status) = a
    <3>1. \A c : Queued(a, c) = a
      BY <2>2, <2>4 DEF Queued
    <3> QED BY <3>1 DEF AckQueues
  <2> QED BY <2>1, <2>2, <2>3, <2>4 DEF LinkRecord
<1> HIDE DEF l, status
<1>9. Alike(l, link')
  BY <1>1, <1>6, <1>7, SendNext DEF Types
<1>10. CASE AckCompletes(link, status)
  <2>1. link.pending = "cmer" /\ ~Supported(link, "twc")
    BY <1>10 DEF AckCompletes
  <2>2. link.buffer \in {<< >>, <<"chld">>}
    BY <1>1, <2>1 DEF SettingUp, SetupBuffers
  <2>3. link.buffer = <<"chld">> => "twc" \notin ag.kind.features
    BY <1>1, <2>1 DEF SettingUp, Supported
  <2>4. l.buffer \in Seq(Later(ag.kind))
    <3>1. link.buffer = <<"chld">> => "chld" \in Later(ag.kind)
      BY <2>3 DEF Later, Command, SetupCommand, Early
    <3> QED BY <1>5, <2>1, <2>2, <3>1, ShortSeqs
  <2>5. air \in Seq(Sendable(Later(ag.kind))) /\ back' \in Seq(LaterLine)
    BY <1>3, <1>4, ShortSeqs
  <2>6. SetUp'
    BY <1>1, <1>2, <1>6, <1>7, <2>4, <2>5, NoneLater, SetUpSends
  <2>7. link'.slc = "complete"
    BY <1>6, <1>9, <1>10 DEF Alike
  <2> QED BY <1>1, <1>7, <1>10, <2>6, <2>7 DEF Once, SettingUp, ConnectConfirmedOnce
<1>11. CASE ~AckCompletes(link, status)
  <2>1. link'.slc = "connected" /\ (l.features = link'.features)
    BY <1>6, <1>9, <1>11 DEF Alike
  <2>2. /\ link'.pending \in (SetupCommand \ {"brsf"}) \cup {None}
        /\ link'.buffer \in SetupBuffers(link'.pending)
        /\ (link'.pending = "chld" \/ link'.buffer = <<"chld">>) => ChldWaits(l.buffer)
    BY <1>5, <1>6, <1>7, <1>8, SendSetup
  <2>3. link'.pending # "brsf"
    BY <2>2, NoneAssumption DEF Command, SetupCommand
  <2>4. "twc" \in ag'.kind.features => "twc" \in link'.features
    BY <1>1, <1>2, <1>6, <2>1 DEF SettingUp
  <2>5. link'.pending = "chld" \/ link'.buffer = <<"chld">> => "twc" \in Hf
    BY <1>5, <2>2
  <2>6. DOMAIN back' = {}
    BY <1>4
  <2>7. SettingUp'
    BY <1>1, <1>2, <1>4, <2>2, <2>3, <2>4, <2>5, <2>6 DEF SettingUp
  <2> QED BY <1>1, <1>7, <1>11, <2>1, <2>7 DEF Once, SetUp, ConnectConfirmedOnce
<1> QED BY <1>10, <1>11

(* An answer, or the timeout of one, after the set-up. *)
LEMMA OnceAckDone ==
  ASSUME Types, Once, link.slc = "complete", NEW status, atCmdAckReceived(status),
         back' \in Seq(LaterLine), ag' = ag
  PROVE  Once'
<1> DEFINE l == AckedLink(status)
           S == Later(ag.kind)
<1>1. /\ link.pending \notin Early /\ link.buffer \in Seq(S) /\ air \in Seq(Sendable(S))
      /\ connects = 1
  BY DEF Once, SetUp, ConnectConfirmedOnce
<1>2. l \in LinkRecord /\ l.pending = None
      /\ l.slc = (IF AckCompletes(link, status) THEN "complete" ELSE link.slc)
  BY AckedLinkType DEF Types
<1>3. ~AckCompletes(link, status)
  BY <1>1 DEF AckCompletes, Early
<1>4. hfpSendNextAtCmd(l) /\ connects' = connects
  BY <1>1, <1>3 DEF atCmdAckReceived, AckEffects
<1>5. l.buffer \in Seq(S)
  BY <1>1, AckDone, LaterNames DEF Early
<1> HIDE DEF l
<1>6. link'.slc = "complete"
  BY <1>2, <1>3, <1>4, SendNext DEF Alike, Types
<1>7. SetUp'
  BY <1>1, <1>2, <1>4, <1>5, NoneLater, SetUpSends
<1> QED BY <1>1, <1>4, <1>6, <1>7 DEF Once, SettingUp, ConnectConfirmedOnce

(* A step that leaves the set-up where it is. *)
LEMMA OnceKept ==
  ASSUME Types, Once, late' = late \/ link.slc = "complete",
         link'.slc = link.slc, link'.pending = link.pending, link'.buffer = link.buffer,
         link'.features = link.features \/ link'.features = ag.kind.features,
         air' = air, back' = back, ag'.kind = ag.kind, connects' = connects
  PROVE  Once'
<1>1. CASE link.slc = "connected"
  <2>1. \A i \in DOMAIN back' : SetupLine(i)'
    BY <1>1 DEF Once, SettingUp, SetupLine
  <2>2. /\ ~late' /\ link'.pending \in SetupCommand \cup {None}
        /\ link'.buffer \in SetupBuffers(link'.pending)
        /\ (air' # << >> => back' = << >> /\ (link'.pending = "brsf" => link'.buffer = << >>))
        /\ (link'.pending = "chld" \/ link'.buffer = <<"chld">> => "twc" \in Hf)
    BY <1>1 DEF Once, SettingUp
  <2>3. "twc" \in ag'.kind.features => "twc" \in link'.features
    BY <1>1 DEF Once, SettingUp
  <2> QED BY <1>1, <2>1, <2>2, <2>3 DEF Once, SettingUp, SetUp, ConnectConfirmedOnce
<1>2. CASE link.slc # "connected"
  BY <1>2 DEF Once, SettingUp, SetUp, ConnectConfirmedOnce
<1> QED BY <1>1, <1>2

(* The lines of an AG for one command. *)
LEMMA ReplyLines ==
  ASSUME NEW c \in Command, NEW b, b = << >> \o Append(Info(c), Line("success", c))
  PROVE  /\ \A i \in DOMAIN b :
              /\ b[i].line \in {"success", "fail"} => i = Len(b)
              /\ b[i].line = "+BRSF" => i = 1 /\ c = "brsf"
              /\ b[i].line = "+CHLD" => i = 1 /\ c = "chld"
              /\ b[i].line # "+VGS"
<1> DEFINE r == Line("success", c)
<1>1. r.line = "success"
  BY DEF Line
<1>2. CASE c \notin {"brsf", "chld"}
  <2>1. Info(c) = << >>
    BY <1>2 DEF Info
  <2> HIDE DEF r
  <2>2. b = <<r>>
    BY <2>1, AppendShort DEF r
  <2>3. DOMAIN b = {1} /\ b[1] = r /\ Len(b) = 1
    BY <2>2
  <2> QED BY <1>1, <2>3
<1>3. ASSUME NEW x, Info(c) = <<Line(x, c)>>, x \in {"+BRSF", "+CHLD"},
             (x = "+BRSF" /\ c = "brsf") \/ (x = "+CHLD" /\ c = "chld")
      PROVE  \A i \in DOMAIN b :
              /\ b[i].line \in {"success", "fail"} => i = Len(b)
              /\ b[i].line = "+BRSF" => i = 1 /\ c = "brsf"
              /\ b[i].line = "+CHLD" => i = 1 /\ c = "chld"
              /\ b[i].line # "+VGS"
  <2> DEFINE y == Line(x, c)
  <2>1. y.line = x
    BY DEF Line
  <2> HIDE DEF r, y
  <2>2. b = << >> \o <<y, r>>
    BY <1>3, AppendShort DEF r, y
  <2>3. b = <<y, r>>
    <3> DEFINE t == <<y, r>>
    <3>1. t \in Seq({y, r})
      BY ShortSeqs
    <3> HIDE DEF t
    <3>2. << >> \o t = t
      BY <3>1
    <3> QED BY <2>2, <3>2 DEF t
  <2>4. DOMAIN b = {1, 2} /\ b[1] = y /\ b[2] = r /\ Len(b) = 2
    <3>1. DOMAIN <<y, r>> = {1, 2} /\ <<y, r>>[1] = y /\ <<y, r>>[2] = r /\ Len(<<y, r>>) = 2
      OBVIOUS
    <3> QED BY <2>3, <3>1
  <2> QED BY <1>1, <1>3, <2>1, <2>4
<1>4. /\ c = "brsf" => Info(c) = <<Line("+BRSF", c)>>
      /\ c = "chld" => Info(c) = <<Line("+CHLD", c)>>
  BY DEF Info
<1> QED BY <1>2, <1>3, <1>4

LEMMA OnceAccepts ==
  ASSUME Turns, Once, AgAccepts
  PROVE  Once'
<1> DEFINE c == Head(air).cmd
           n == Append(Info(c), Line("success", c))
<1>1. /\ air # << >> /\ air' = Tail(air) /\ late' = late /\ link' = link /\ connects' = connects
      /\ back' = back \o n /\ (c = "chld" => "twc" \in ag.kind.features)
  BY DEF AgAccepts
<1>2. ag'.kind = ag.kind
  BY DEF AgAccepts, Turns, Types
<1>3. Types /\ InTurn /\ SettingUp /\ SetUp /\ ConnectConfirmedOnce
  BY DEF Turns, Once
<1>4. CASE link.slc = "connected"
  <2>1. /\ c = link.pending /\ c \in Command /\ air' = << >> /\ back = << >>
        /\ (link.pending = "brsf" => link.buffer = << >>)
    BY <1>1, <1>3, <1>4, FirstInTurn DEF SettingUp
  <2> HIDE DEF c
  <2>2. \A i \in DOMAIN back' :
              /\ back'[i].line \in {"success", "fail"} => i = Len(back')
              /\ back'[i].line = "+BRSF" => i = 1 /\ c = "brsf"
              /\ back'[i].line = "+CHLD" => i = 1 /\ c = "chld"
              /\ back'[i].line # "+VGS"
    BY <1>1, <2>1, ReplyLines
  <2>3. \A i \in DOMAIN back' : SetupLine(i)'
    BY <1>1, <2>1, <2>2 DEF SetupLine
  <2>4. /\ ~late' /\ link'.pending \in SetupCommand \cup {None}
        /\ link'.buffer \in SetupBuffers(link'.pending)
        /\ (link'.pending = "chld" \/ link'.buffer = <<"chld">> => "twc" \in Hf)
        /\ ("twc" \in ag'.kind.features => "twc" \in link'.features)
    BY <1>1, <1>2, <1>3, <1>4 DEF SettingUp
  <2>5. SettingUp'
    BY <2>1, <2>3, <2>4 DEF SettingUp
  <2> QED BY <1>1, <1>3, <1>4, <2>5 DEF Once, SetUp, ConnectConfirmedOnce
<1>5. CASE link.slc = "complete"
  <2>1. air \in Seq(Sendable(Later(ag.kind))) /\ back \in Seq(LaterLine)
    BY <1>3, <1>5 DEF SetUp
  <2>2. Head(air) \in Sendable(Later(ag.kind)) /\ air' \in Seq(Sendable(Later(ag.kind)))
    BY <1>1, <2>1, TailType
  <2>3. c \in Later(ag.kind)
    BY <2>2 DEF Sendable
  <2>4. c \in Command /\ c # "chld"
    BY <1>1, <2>3, LaterNames
  <2> HIDE DEF c
  <2>5. Info(c) \in Seq(LaterLine) /\ Line("success", c) \in LaterLine
    <3>1. \A x \in {"+BRSF", "success"} : Line(x, c) \in LaterLine
      BY <2>4, BoundsAssumption DEF Line, LaterLine, LineRecord, Volume
    <3>2. Info(c) = << >> \/ Info(c) = <<Line("+BRSF", c)>>
      BY <2>4 DEF Info
    <3> QED BY <3>1, <3>2, ShortSeqs
  <2>6. n \in Seq(LaterLine)
    BY <2>5
  <2> HIDE DEF n
  <2>7. back' \in Seq(LaterLine)
    BY <1>1, <2>1, <2>6
  <2> QED BY <1>1, <1>2, <1>3, <1>5, <2>2, <2>7 DEF Once, SettingUp, SetUp, ConnectConfirmedOnce
<1>6. CASE link.slc \notin {"connected", "complete"}
  BY <1>1, <1>3, <1>6 DEF Once, SettingUp, SetUp, ConnectConfirmedOnce
<1> QED BY <1>4, <1>5, <1>6

LEMMA OnceRefuses ==
  ASSUME Turns, Once, AgRefuses
  PROVE  Once'
<1> DEFINE c == Head(air).cmd
           r == Line("fail", c)
<1>1. /\ air # << >> /\ air' = Tail(air) /\ late' = late /\ link' = link /\ connects' = connects
      /\ back' = Append(back, r) /\ ag' = ag
  BY DEF AgRefuses
<1>2. Types /\ InTurn /\ SettingUp /\ SetUp /\ ConnectConfirmedOnce
  BY DEF Turns, Once
<1>3. r.line = "fail"
  BY DEF Line
<1>4. CASE link.slc = "connected"
  <2>1. /\ air' = << >> /\ back = << >>
    BY <1>1, <1>2, <1>4, FirstInTurn DEF SettingUp
  <2> HIDE DEF r
  <2>2. back' = <<r>>
    BY <1>1, <2>1, AppendShort
  <2>3. DOMAIN back' = {1} /\ back'[1] = r /\ Len(back') = 1
    BY <2>2
  <2>4. \A i \in DOMAIN back' : SetupLine(i)'
    BY <1>3, <2>3 DEF SetupLine
  <2>5. SettingUp'
    BY <1>1, <1>2, <1>4, <2>1, <2>4 DEF SettingUp
  <2> QED BY <1>1, <1>2, <1>4, <2>5 DEF Once, SetUp, ConnectConfirmedOnce
<1>5. CASE link.slc = "complete"
  <2>1. air \in Seq(Sendable(Later(ag.kind))) /\ back \in Seq(LaterLine)
    BY <1>2, <1>5 DEF SetUp
  <2>2. Head(air) \in Sendable(Later(ag.kind)) /\ air' \in Seq(Sendable(Later(ag.kind)))
    BY <1>1, <2>1, TailType
  <2>3. c \in Command
    BY <2>2, LaterNames DEF Sendable
  <2>4. r \in LaterLine
    BY <2>3, BoundsAssumption DEF Line, LaterLine, LineRecord, Volume
  <2> HIDE DEF r
  <2>5. back' \in Seq(LaterLine)
    BY <1>1, <2>1, <2>4
  <2> QED BY <1>1, <1>2, <1>5, <2>2, <2>5 DEF Once, SettingUp, SetUp, ConnectConfirmedOnce
<1>6. CASE link.slc \notin {"connected", "complete"}
  BY <1>1, <1>2, <1>6 DEF Once, SettingUp, SetUp, ConnectConfirmedOnce
<1> QED BY <1>4, <1>5, <1>6

LEMMA OnceLines ==
  ASSUME Turns, Once, HandleBrsf \/ HandleChld \/ HandleSpeakerGain
  PROVE  Once'
<1>1. Types /\ Shut /\ InTurn /\ SettingUp /\ SetUp /\ ConnectConfirmedOnce
  BY DEF Turns, Once
<1>2. /\ link.slc # "idle" /\ back # << >> /\ back' = Tail(back) /\ late' = late /\ ag' = ag
      /\ Head(back).line \in {"+BRSF", "+CHLD", "+VGS"}
  BY DEF HandleBrsf, HandleChld, HandleSpeakerGain
<1>3. link.slc = "connected" \/ link.slc = "complete"
  BY <1>1, <1>2 DEF Types, LinkRecord
<1>4. back' \in Seq(LaterLine)
  <2>1. CASE link.slc = "connected"
    BY <1>1, <1>2, <2>1, SetupTailLater
  <2>2. CASE link.slc = "complete"
    BY <1>1, <1>2, <2>2, LaterTail DEF SetUp
  <2> QED BY <1>3, <2>1, <2>2
<1>5. Head(back) = back[1] /\ 1 \in DOMAIN back
  BY <1>2, TailLines DEF Types
<1>6. CASE HandleBrsf
  <2> DEFINE l == [link EXCEPT !.features = ag.kind.features]
  <2>1. /\ l \in LinkRecord /\ l.slc = link.slc /\ l.open = link.open /\ l.pending = link.pending
        /\ l.buffer = link.buffer /\ l.features = ag.kind.features
    BY <1>1 DEF Types, LinkRecord, Feature
  <2>2. /\ (link' = l /\ air' = air) \/ hfpSendAtCmd(l, "bac")
        /\ Head(back).line = "+BRSF" /\ connects' = connects
    BY <1>6 DEF HandleBrsf
  <2>3. "bac" \in Command /\ "bac" \in Later(ag.kind)
    BY LaterNames DEF Command, SetupCommand
  <2> HIDE DEF l
  <2>4. CASE link.slc = "connected"
    <3>1. link.pending = "brsf" /\ link.buffer = << >> /\ air = << >>
      BY <1>1, <1>2, <1>5, <2>2, <2>4 DEF SettingUp, SetupLine
    <3> DEFINE q == Queued(l, "bac")
    <3>2. q \in LinkRecord /\ (q.buffer = << >> \/ q.buffer = <<"bac">>)
      BY <2>1, <2>3, <3>1, QueuedBuffer, AppendShort
    <3>3. q.pending = l.pending /\ Alike(l, q)
      BY <2>1, <2>3, QueuedLink DEF QueuedAs
    <3>4. (link' = l /\ air' = air) \/ hfpSendNextAtCmd(q)
      BY <2>2 DEF hfpSendAtCmd
    <3> HIDE DEF q
    <3>5. "brsf" # None
      BY NoneAssumption DEF Command, SetupCommand
    <3>6. (link' = l \/ link' = q) /\ air' = air
      BY <2>1, <3>1, <3>3, <3>4, <3>5 DEF hfpSendNextAtCmd, CanSend
    <3>7. /\ link'.slc = "connected" /\ link'.pending = "brsf"
          /\ (link'.buffer = << >> \/ link'.buffer = <<"bac">>)
          /\ link'.features = ag.kind.features
      BY <2>1, <2>4, <3>1, <3>2, <3>3, <3>6 DEF Alike
    <3>8. \A i \in DOMAIN back' : SetupLine(i)'
      BY <1>1, <1>2, <2>4, SetupTail DEF SetupLine
    <3>9. link'.buffer \in SetupBuffers(link'.pending) /\ link'.buffer # <<"chld">>
      <4>1. SetupBuffers("brsf") = {<< >>, <<"bac">>}
        BY DEF SetupBuffers
      <4>2. << >> # <<"chld">> /\ <<"bac">> # <<"chld">>
        OBVIOUS
      <4> QED BY <3>7, <4>1, <4>2
    <3>10. SettingUp'
      BY <1>1, <1>2, <2>4, <3>1, <3>6, <3>7, <3>8, <3>9 DEF SettingUp, SetupCommand
    <3> QED BY <1>1, <2>2, <2>4, <3>7, <3>10 DEF Once, SetUp, ConnectConfirmedOnce
  <2>5. CASE link.slc = "complete"
    <3>1. SetUp'
      <4>1. CASE link' = l /\ air' = air
        BY <1>1, <1>2, <1>4, <2>1, <2>5, <4>1 DEF SetUp
      <4>2. CASE hfpSendAtCmd(l, "bac")
        BY <1>1, <1>2, <1>4, <2>1, <2>3, <2>5, <4>2, SetUpQueues
      <4> QED BY <2>2, <4>1, <4>2
    <3>2. link'.slc = "complete"
      <4> DEFINE q == Queued(l, "bac")
      <4>1. q \in LinkRecord /\ Alike(l, q)
        BY <2>1, <2>3, QueuedLink DEF QueuedAs
      <4>2. link' = l \/ hfpSendNextAtCmd(q)
        BY <2>2 DEF hfpSendAtCmd
      <4> HIDE DEF q
      <4> QED BY <1>1, <2>1, <2>5, <4>1, <4>2, SendNext DEF Alike, Types
    <3> QED BY <1>1, <2>2, <2>5, <3>1, <3>2 DEF Once, SettingUp, ConnectConfirmedOnce
  <2> QED BY <1>3, <2>4, <2>5
<1>7. CASE HandleChld
  <2>1. /\ Head(back).line = "+CHLD" /\ link' = [link EXCEPT !.slc = "complete"]
        /\ connects' = connects + 1 /\ air' = air
    BY <1>7 DEF HandleChld
  <2>2. link.slc = "connected"
    BY <1>1, <1>2, <1>3, <2>1, LaterTail DEF SetUp
  <2>3. /\ link.pending = "chld" /\ air = << >>
    BY <1>1, <1>2, <1>5, <2>1, <2>2 DEF SettingUp, SetupLine
  <2>4. link.buffer = << >>
    BY <1>1, <2>2, <2>3 DEF SettingUp, SetupBuffers
  <2>5. link'.slc = "complete" /\ link'.pending = "chld" /\ link'.buffer = << >>
    BY <1>1, <2>1, <2>3, <2>4 DEF Types, LinkRecord
  <2>6. SetUp'
    BY <1>2, <1>4, <2>1, <2>3, <2>5, ShortSeqs DEF SetUp, Early
  <2> QED BY <1>1, <2>1, <2>2, <2>5, <2>6 DEF Once, SettingUp, ConnectConfirmedOnce
<1>8. CASE HandleSpeakerGain
  <2>1. Head(back).line = "+VGS" /\ air' = air /\ connects' = connects
    BY <1>8 DEF HandleSpeakerGain
  <2>2. link.slc = "complete"
    BY <1>1, <1>2, <1>3, <1>5, <2>1 DEF SettingUp, SetupLine
  <2>3. link'.slc = link.slc /\ link'.pending = link.pending /\ link'.buffer = link.buffer
    BY <1>1, <1>8 DEF HandleSpeakerGain, Types, LinkRecord
  <2>4. SetUp'
    BY <1>1, <1>2, <1>4, <2>1, <2>2, <2>3 DEF SetUp
  <2> QED BY <1>1, <2>1, <2>2, <2>3, <2>4 DEF Once, SettingUp, ConnectConfirmedOnce
<1> QED BY <1>6, <1>7, <1>8

LEMMA OnceNext ==
  ASSUME Turns, Once, [Next]_vars
  PROVE  Once'
<1>1. Types /\ Connected /\ Shut /\ InTurn /\ SettingUp /\ SetUp /\ ConnectConfirmedOnce
  BY DEF Turns, Once
<1>2. CASE HandleAck
  <2>1. CASE link.slc = "connected"
    BY <1>2, <2>1, OnceAckSetup
  <2>2. CASE link.slc = "complete"
    <3>1. /\ back # << >> /\ back' = Tail(back) /\ ag' = ag
          /\ atCmdAckReceived(Head(back).line)
      BY <1>2 DEF HandleAck
    <3>2. back' \in Seq(LaterLine)
      BY <1>1, <2>2, <3>1, LaterTail DEF SetUp
    <3> QED BY <1>1, <2>2, <3>1, <3>2, OnceAckDone
  <2>3. link.slc = "connected" \/ link.slc = "complete"
    BY <1>1, <1>2 DEF HandleAck, Types, LinkRecord
  <2> QED BY <2>1, <2>2, <2>3
<1>3. CASE HandleBrsf \/ HandleChld \/ HandleSpeakerGain
  BY <1>3, OnceLines
<1>4. ASSUME NEW m \in InternalRequest, HandleRequest(m) PROVE Once'
  <2>1. /\ link.slc = "complete" /\ back' = back /\ ag' = ag /\ late' = late
        /\ connects' = connects
    BY <1>4 DEF HandleRequest
  <2>2. m \in Later(ag.kind) /\ "copsFormat" \in Later(ag.kind)
    BY LaterNames DEF InternalRequest, Request
  <2>3. Sends(link, m) \in Later(ag.kind) \cup {None}
    BY <2>2 DEF Sends
  <2>4. CASE Sends(link, m) # None
    <3> DEFINE c == Sends(link, m)
               q == Queued(link, c)
    <3>1. hfpSendAtCmd(link, c) /\ c \in Later(ag.kind) /\ c \in Command
      BY <1>4, <2>3, <2>4, LaterNames DEF HandleRequest
    <3>2. SetUp'
      BY <1>1, <2>1, <3>1, SetUpQueues DEF SetUp, Types
    <3>3. q \in LinkRecord /\ Alike(link, q) /\ hfpSendNextAtCmd(q)
      BY <1>1, <3>1, QueuedLink DEF QueuedAs, hfpSendAtCmd, Types
    <3> HIDE DEF q
    <3>4. link'.slc = "complete"
      BY <1>1, <2>1, <3>3, SendNext DEF Alike, Types
    <3> QED BY <1>1, <2>1, <3>2, <3>4 DEF Once, SettingUp, ConnectConfirmedOnce
  <2>5. CASE Sends(link, m) = None
    BY <1>1, <1>4, <2>1, <2>5, OnceKept DEF HandleRequest
  <2> QED BY <2>4, <2>5
<1>5. CASE HandleDisconnected
  <2>1. /\ link'.slc = "idle" /\ connects' = connects + (IF link.slc = "connected" THEN 1 ELSE 0)
    BY <1>5 DEF HandleDisconnected, Reset
  <2> QED BY <1>1, <2>1 DEF Once, SettingUp, SetUp, ConnectConfirmedOnce
<1>6. CASE HandleTimeout
  <2>1. CASE link.slc = "complete"
    BY <1>1, <1>6, <2>1, OnceAckDone DEF HandleTimeout, SetUp
  <2>2. CASE link.slc # "complete"
    <3>1. /\ link' = [link EXCEPT !.timer = FALSE] /\ air' = air /\ back' = back /\ late' = late
          /\ ag' = ag /\ connects' = connects
      BY <1>6, <2>2 DEF HandleTimeout
    <3>2. /\ link'.slc = link.slc /\ link'.pending = link.pending /\ link'.buffer = link.buffer
          /\ link'.features = link.features
      BY <1>1, <3>1 DEF Types, LinkRecord
    <3> QED BY <1>1, <3>1, <3>2, OnceKept
  <2> QED BY <2>1, <2>2
<1>7. ASSUME NEW g \in 0 .. (MaxGain + 1), VolumeRequest(g) PROVE Once'
  <2> DEFINE l == [link EXCEPT !.vol = Clamped(g), !.volPending = TRUE]
             q == Queued(l, "vgs")
  <2>1. Clamped(g) \in Volume
    BY BoundsAssumption DEF Clamped, Volume
  <2>2. /\ l \in LinkRecord /\ l.slc = link.slc /\ l.pending = link.pending
        /\ l.buffer = link.buffer /\ l.features = link.features
    BY <1>1, <2>1 DEF Types, LinkRecord
  <2>3. /\ (link' = l /\ air' = air) \/ hfpSendAtCmd(l, "vgs")
        /\ back' = back /\ late' = late /\ ag' = ag /\ connects' = connects
        /\ link.slc = "complete"
    BY <1>7 DEF VolumeRequest
  <2> HIDE DEF l
  <2>4. "vgs" \in Command /\ "vgs" \in Later(ag.kind)
    BY LaterNames DEF Command
  <2>5. CASE link' = l /\ air' = air
    BY <1>1, <2>2, <2>3, <2>5, OnceKept
  <2>6. CASE hfpSendAtCmd(l, "vgs")
    <3>1. SetUp'
      BY <1>1, <2>2, <2>3, <2>4, <2>6, SetUpQueues DEF SetUp
    <3>2. q \in LinkRecord /\ Alike(l, q) /\ hfpSendNextAtCmd(q)
      BY <2>2, <2>4, <2>6, QueuedLink DEF QueuedAs, hfpSendAtCmd
    <3> HIDE DEF q
    <3>3. link'.slc = "complete"
      BY <1>1, <2>2, <2>3, <3>2, SendNext DEF Alike, Types
    <3> QED BY <1>1, <2>3, <3>1, <3>3 DEF Once, SettingUp, ConnectConfirmedOnce
  <2> QED BY <2>3, <2>5, <2>6
<1>8. ASSUME NEW found \in BOOLEAN, SdpFeatures(found) PROVE Once'
  <2>1. /\ link'.slc = link.slc /\ link'.pending = link.pending /\ link'.buffer = link.buffer
        /\ link'.features = link.features \/ link'.features = ag.kind.features
        /\ air' = air /\ back' = back /\ late' = late /\ ag' = ag /\ connects' = connects
    BY <1>1, <1>8 DEF SdpFeatures, Types, LinkRecord
  <2> QED BY <1>1, <2>1, OnceKept
<1>9. CASE Closes
  <2>1. /\ link'.slc = link.slc /\ link'.pending = link.pending /\ link'.buffer = << >>
        /\ link'.features = link.features
        /\ air' = << >> /\ back' = back /\ late' = late /\ ag' = ag /\ connects' = connects
    BY <1>1, <1>9 DEF Closes, Types, LinkRecord
  <2>2. \A p : << >> \in SetupBuffers(p)
    BY DEF SetupBuffers
  <2>3. CASE link.slc = "connected"
    <3>1. \A i \in DOMAIN back' : SetupLine(i)'
      BY <1>1, <2>1, <2>3 DEF SettingUp, SetupLine
    <3>2. << >> # <<"chld">>
      OBVIOUS
    <3>3. SettingUp'
      BY <1>1, <2>1, <2>2, <2>3, <3>1, <3>2 DEF SettingUp
    <3> QED BY <1>1, <2>1, <2>3, <3>3 DEF Once, SetUp, ConnectConfirmedOnce
  <2>4. CASE link.slc # "connected"
    BY <1>1, <2>1, <2>4, ShortSeqs DEF Once, SettingUp, SetUp, ConnectConfirmedOnce
  <2> QED BY <2>3, <2>4
<1>10. CASE AgAccepts
  BY <1>10, OnceAccepts
<1>11. CASE AgRefuses
  BY <1>11, OnceRefuses
<1>12. CASE AgIgnores
  <2>1. /\ link' = link /\ air # << >> /\ air' = Tail(air) /\ back' = back /\ late' = late
        /\ ag' = ag /\ connects' = connects
    BY <1>12 DEF AgIgnores
  <2>2. CASE link.slc = "connected"
    <3>1. \A i \in DOMAIN back' : SetupLine(i)'
      BY <1>1, <2>1, <2>2 DEF SettingUp, SetupLine
    <3>2. SettingUp'
      BY <1>1, <2>1, <2>2, <3>1 DEF SettingUp
    <3> QED BY <1>1, <2>1, <2>2, <3>2 DEF Once, SetUp, ConnectConfirmedOnce
  <2>3. CASE link.slc = "complete"
    <3>1. air' \in Seq(Sendable(Later(ag.kind)))
      BY <1>1, <2>1, <2>3, TailType DEF SetUp
    <3> QED BY <1>1, <2>1, <2>3, <3>1 DEF Once, SettingUp, SetUp, ConnectConfirmedOnce
  <2>4. CASE link.slc \notin {"connected", "complete"}
    BY <1>1, <2>1, <2>4 DEF Once, SettingUp, SetUp, ConnectConfirmedOnce
  <2> QED BY <2>2, <2>3, <2>4
<1>13. ASSUME NEW v \in Volume, AgVolume(v) PROVE Once'
  <2> DEFINE r == [line |-> "+VGS", of |-> None, vol |-> v]
  <2>1. /\ link.slc = "complete" /\ link' = link /\ air' = air /\ late' = late
        /\ back' = Append(back, r) /\ connects' = connects
    BY <1>13 DEF AgVolume
  <2>2. r \in LaterLine
    BY DEF LaterLine, LineRecord
  <2> HIDE DEF r
  <2>3. back' \in Seq(LaterLine)
    BY <1>1, <2>1, <2>2 DEF SetUp
  <2>4. ag'.kind = ag.kind
    BY <1>1, <1>13 DEF AgVolume, Types
  <2> QED BY <1>1, <2>1, <2>3, <2>4 DEF Once, SettingUp, SetUp, ConnectConfirmedOnce
<1>14. CASE UNCHANGED <<link, air, back, ag, late, connects>>
  BY <1>1, <1>14, OnceKept DEF Once
<1>15. CASE \/ \E m \in InternalRequest : RejectRequest(m)
            \/ HandleDisconnectRequest \/ (\E k \in Request : ClientRequest(k)) \/ ClientDisconnect
            \/ UNCHANGED vars
  BY <1>14, <1>15 DEF RejectRequest, HandleDisconnectRequest, ClientRequest, ClientDisconnect, vars
<1> QED BY <1>2, <1>3, <1>4, <1>5, <1>6, <1>7, <1>8, <1>9, <1>10, <1>11, <1>12, <1>13, <1>15
        DEF Next, Lines, Messages, Client, AgStep, Disconnected, Dropped

LEMMA OnceInit == Init => Once
<1> SUFFICES ASSUME Init PROVE Once
  OBVIOUS
<1>1. /\ link.slc = "connected" /\ link.pending = "brsf" /\ link.buffer = << >>
      /\ link.features = {"twc"}
  BY InitFacts
<1>2. back = << >> /\ ~late /\ connects = 0
  BY DEF Init
<1>3. << >> \in SetupBuffers("brsf") /\ << >> # <<"chld">>
  BY DEF SetupBuffers
<1> QED BY <1>1, <1>2, <1>3 DEF Once, SettingUp, SetUp, ConnectConfirmedOnce, SetupCommand

(* hfpSendSlcConnectCfmToApp is reached from three handlers (AT+CMER,      *)
(* +CHLD, the channel gone): of each connection the client is told exactly *)
(* once, whichever of them ends the set-up and whatever comes later.       *)
THEOREM ClientHearsOnce == Spec => []ConnectConfirmedOnce
<1>1. Turns /\ Once /\ [Next]_vars => Once'
  BY OnceNext
<1>2. Once => ConnectConfirmedOnce
  BY DEF Once
<1> QED BY OnceInit, <1>1, <1>2, TurnsAlways, PTL DEF Spec

(***************************************************************************)
(* Requests and their confirmations.                                       *)
(***************************************************************************)
(* How often c stands in s. *)
Positions(s, c) == {i \in DOMAIN s : s[i] = c}
Places(s, c) == Cardinality(Positions(s, c))

LEMMA PositionsFinite ==
  ASSUME NEW S, NEW s \in Seq(S), NEW c
  PROVE  IsFiniteSet(Positions(s, c)) /\ Places(s, c) \in Nat
<1>1. DOMAIN s = 1 .. Len(s) /\ Len(s) \in Nat
  OBVIOUS
<1>2. IsFiniteSet(1 .. Len(s))
  BY <1>1, FS_Interval
<1>3. IsFiniteSet(Positions(s, c))
  BY <1>1, <1>2, FS_Subset DEF Positions
<1> QED BY <1>3, FS_CardinalityType DEF Places

LEMMA PlacesEmpty == \A c : Places(<< >>, c) = 0
<1> SUFFICES ASSUME NEW c PROVE Places(<< >>, c) = 0
  OBVIOUS
<1>1. Positions(<< >>, c) = {}
  BY DEF Positions
<1> QED BY <1>1, FS_EmptySet DEF Places

LEMMA PlacesAppend ==
  ASSUME NEW S, NEW s \in Seq(S), NEW x \in S, NEW c
  PROVE  Places(Append(s, x), c) = Places(s, c) + (IF x = c THEN 1 ELSE 0)
<1> DEFINE P == Positions(s, c)
           t == Append(s, x)
<1>1. /\ DOMAIN t = DOMAIN s \cup {Len(s) + 1}
      /\ t[Len(s) + 1] = x /\ Len(s) + 1 \notin DOMAIN s
      /\ \A i \in DOMAIN s : t[i] = s[i]
  BY AppendLines
<1>2. IsFiniteSet(P) /\ Places(s, c) \in Nat
  BY PositionsFinite
<1> HIDE DEF t
<1>3. CASE x = c
  <2>1. Positions(t, c) = P \cup {Len(s) + 1} /\ Len(s) + 1 \notin P
    BY <1>1, <1>3 DEF Positions
  <2> HIDE DEF P
  <2>2. Cardinality(Positions(t, c)) = Cardinality(P) + 1
    BY <1>2, <2>1, FS_AddElement
  <2> QED BY <1>3, <2>2 DEF Places, P, t
<1>4. CASE x # c
  <2>1. Positions(t, c) = P
    BY <1>1, <1>4 DEF Positions
  <2> QED BY <1>2, <1>4, <2>1 DEF Places, P, t
<1> QED BY <1>3, <1>4

LEMMA PlacesTail ==
  ASSUME NEW S, NEW s \in Seq(S), s # << >>, NEW c
  PROVE  Places(s, c) = Places(Tail(s), c) + (IF Head(s) = c THEN 1 ELSE 0)
<1> DEFINE t == Tail(s)
           P == Positions(t, c)
           Q == Positions(s, c) \ {1}
           f == [i \in P |-> i + 1]
<1>1. t \in Seq(S)
  OBVIOUS
<1>2. IsFiniteSet(P) /\ Places(t, c) \in Nat
  BY <1>1, PositionsFinite
<1>3. /\ \A i \in DOMAIN t : i + 1 \in DOMAIN s /\ t[i] = s[i + 1]
      /\ 1 \in DOMAIN s /\ Head(s) = s[1]
      /\ \A i \in DOMAIN s : i = 1 \/ (i - 1 \in DOMAIN t /\ s[i] = t[i - 1])
  BY TailLines
<1>4. DOMAIN t = 1 .. Len(t) /\ Len(t) \in Nat /\ DOMAIN s = 1 .. Len(s) /\ Len(s) \in Nat
  BY <1>1
<1> HIDE DEF t
<1>5. f \in Bijection(P, Q)
  <2>1. \A i \in P : i \in Nat \ {0} /\ i + 1 \in Q
    BY <1>3, <1>4 DEF Positions
  <2>2. f \in [P -> Q]
    BY <2>1
  <2>3. \A i, j \in P : f[i] = f[j] => i = j
    BY <2>1
  <2>4. \A q \in Q : \E i \in P : f[i] = q
    <3>1. ASSUME NEW q \in Q PROVE q - 1 \in P /\ q = (q - 1) + 1
      BY <1>3, <1>4 DEF Positions
    <3>2. ASSUME NEW q \in Q PROVE \E i \in P : f[i] = q
      <4>1. q - 1 \in P /\ f[q - 1] = q
        BY <3>1
      <4> QED BY <4>1
    <3> QED BY <3>2
  <2> HIDE DEF f, P, Q
  <2> QED BY <2>2, <2>3, <2>4, Fun_IsBij
<1>6. IsFiniteSet(Q) /\ Cardinality(Q) = Cardinality(P)
  <2> HIDE DEF f, P, Q
  <2> QED BY <1>2, <1>5, FS_Bijection DEF ExistsBijection
<1>7. CASE Head(s) = c
  <2>1. Positions(s, c) = Q \cup {1} /\ 1 \notin Q
    BY <1>3, <1>7 DEF Positions
  <2> HIDE DEF Q, P
  <2>2. Cardinality(Positions(s, c)) = Cardinality(Q) + 1
    BY <1>6, <2>1, FS_AddElement
  <2> QED BY <1>6, <1>7, <2>2 DEF Places, P, t
<1>8. CASE Head(s) # c
  <2>1. Positions(s, c) = Q
    BY <1>3, <1>8 DEF Positions
  <2> HIDE DEF Q, P
  <2>2. Places(s, c) = Places(t, c)
    BY <1>6, <2>1 DEF Places, P
  <2> QED BY <1>2, <1>8, <2>2 DEF t
<1> QED BY <1>7, <1>8

(* What is put behind s without c does not change the number. *)
LEMMA PlacesJoin ==
  ASSUME NEW S, NEW s \in Seq(S), NEW u \in Seq(S), NEW c, \A i \in DOMAIN u : u[i] # c
  PROVE  Places(s \o u, c) = Places(s, c)
<1> DEFINE t == s \o u
<1>1. /\ DOMAIN t = 1 .. Len(s) + Len(u) /\ DOMAIN s = 1 .. Len(s) /\ DOMAIN u = 1 .. Len(u)
      /\ Len(s) \in Nat /\ Len(u) \in Nat
      /\ \A i \in 1 .. Len(s) + Len(u) : t[i] = IF i <= Len(s) THEN s[i] ELSE u[i - Len(s)]
  OBVIOUS
<1> HIDE DEF t
<1>2. ASSUME NEW i \in DOMAIN t, t[i] = c PROVE i \in DOMAIN s /\ s[i] = c
  <2>1. CASE i <= Len(s)
    BY <1>1, <1>2, <2>1
  <2>2. CASE ~(i <= Len(s))
    <3>1. i - Len(s) \in DOMAIN u /\ t[i] = u[i - Len(s)]
      BY <1>1, <1>2, <2>2
    <3> QED BY <1>2, <3>1
  <2> QED BY <2>1, <2>2
<1>3. ASSUME NEW i \in DOMAIN s PROVE i \in DOMAIN t /\ t[i] = s[i]
  BY <1>1, <1>3
<1>4. Positions(t, c) = Positions(s, c)
  BY <1>2, <1>3 DEF Positions
<1> QED BY <1>4 DEF Places, t

(* The commands c that the link has lost, has in its buffer, or has sent.  *)
Burden(l, c) == l.dropped[c] + Places(l.buffer, c) + (IF l.pending = c THEN 1 ELSE 0)

(* Those that stand for a request of kind k. *)
Load(l, k) == Burden(l, k) + (IF k = "cops" THEN Burden(l, "copsFormat") ELSE 0)
Charge(c, k) == IF c = k \/ (k = "cops" /\ c = "copsFormat") THEN 1 ELSE 0

(* No request has more confirmations due than the library will send: the   *)
(* ones that wait in the inbox, and the ones whose command is on the link. *)
Owing == \A k \in Request : owed[k] >= Load(link, k) + Places(inbox, k)

LEMMA BurdenNat ==
  ASSUME NEW l \in LinkRecord, NEW c \in Command
  PROVE  Burden(l, c) \in Nat /\ l.dropped[c] \in Nat /\ Places(l.buffer, c) \in Nat
<1>1. l.dropped[c] \in Nat /\ l.buffer \in Seq(Command)
  BY DEF LinkRecord
<1>2. Places(l.buffer, c) \in Nat
  BY <1>1, PositionsFinite
<1> QED BY <1>1, <1>2 DEF Burden

LEMMA RequestNames ==
  /\ "copsFormat" \in Command /\ Request = {"user", "cops"} /\ Request \subseteq Command
  /\ \A k \in Request : k \in Command /\ k # "copsFormat"
BY DEF Command, Request

LEMMA LoadNat ==
  ASSUME NEW l \in LinkRecord, NEW k \in Request
  PROVE  Load(l, k) \in Nat
<1>1. Burden(l, k) \in Nat /\ Burden(l, "copsFormat") \in Nat
  BY BurdenNat, RequestNames
<1> QED BY <1>1 DEF Load

LEMMA QueuedBurden ==
  ASSUME NEW l \in LinkRecord, NEW c \in Command, NEW x \in Command
  PROVE  Burden(Queued(l, c), x) <= Burden(l, x) + (IF x = c THEN 1 ELSE 0)
<1> DEFINE m == Queued(l, c)
<1>1. QueuedAs(l, c, m)
  BY QueuedLink
<1> HIDE DEF m
<1>2. /\ Burden(l, x) \in Nat /\ l.dropped[x] \in Nat /\ Places(l.buffer, x) \in Nat
      /\ l.buffer \in Seq(Command) /\ l.dropped \in [Command -> Nat]
  BY BurdenNat DEF LinkRecord
<1>3. CASE m = l
  BY <1>2, <1>3 DEF m
<1>4. CASE m.buffer = Append(l.buffer, c) /\ m.dropped = l.dropped /\ m.pending = l.pending
  <2>1. Places(m.buffer, x) = Places(l.buffer, x) + (IF c = x THEN 1 ELSE 0)
    BY <1>2, <1>4, PlacesAppend
  <2> QED BY <1>2, <1>4, <2>1 DEF Burden, m
<1>5. CASE /\ m.buffer = l.buffer /\ m.dropped = [l.dropped EXCEPT ![c] = @ + 1]
           /\ m.pending = l.pending
  <2>1. m.dropped[x] = l.dropped[x] + (IF x = c THEN 1 ELSE 0)
    BY <1>2, <1>5
  <2> QED BY <1>2, <1>5, <2>1 DEF Burden, m
<1> QED BY <1>1, <1>3, <1>4, <1>5 DEF QueuedAs

LEMMA QueuedLoad ==
  ASSUME NEW l \in LinkRecord, NEW c \in Command, NEW k \in Request
  PROVE  Load(Queued(l, c), k) <= Load(l, k) + Charge(c, k)
<1> DEFINE m == Queued(l, c)
<1>1. /\ Burden(m, k) <= Burden(l, k) + (IF k = c THEN 1 ELSE 0)
      /\ Burden(m, "copsFormat") <= Burden(l, "copsFormat") + (IF "copsFormat" = c THEN 1 ELSE 0)
  BY QueuedBurden, RequestNames
<1>2. m \in LinkRecord
  BY QueuedLink DEF QueuedAs
<1> HIDE DEF m
<1>3. /\ Burden(m, k) \in Nat /\ Burden(m, "copsFormat") \in Nat
      /\ Burden(l, k) \in Nat /\ Burden(l, "copsFormat") \in Nat
  BY <1>2, BurdenNat, RequestNames
<1>4. k # "copsFormat"
  BY RequestNames
<1>5. CASE k = "cops"
  BY <1>1, <1>3, <1>4, <1>5 DEF Load, Charge, m
<1>6. CASE k # "cops"
  BY <1>1, <1>3, <1>4, <1>6 DEF Load, Charge, m
<1> QED BY <1>5, <1>6

(* Sending moves a command from the buffer to the one that is pending. *)
LEMMA SendBurden ==
  ASSUME NEW l \in LinkRecord, NEW c \in Command, hfpSendNextAtCmd(l)
  PROVE  Burden(link', c) = Burden(l, c)
<1>1. CASE CanSend(l)
  <2>1. l.buffer # << >> /\ l.pending = None /\ link' = Flushed(l)
    BY <1>1 DEF CanSend, hfpSendNextAtCmd
  <2>2. /\ link'.pending = Head(l.buffer) /\ link'.buffer = Tail(l.buffer)
        /\ link'.dropped = l.dropped
    BY <1>1, <2>1, FlushedLink
  <2>3. l.buffer \in Seq(Command)
    BY DEF LinkRecord
  <2>4. Places(l.buffer, c) = Places(Tail(l.buffer), c) + (IF Head(l.buffer) = c THEN 1 ELSE 0)
    BY <2>1, <2>3, PlacesTail
  <2>5. Places(Tail(l.buffer), c) \in Nat
    BY <2>1, <2>3, TailType, PositionsFinite
  <2>6. l.dropped[c] \in Nat /\ c # None
    BY BurdenNat, NoneAssumption
  <2> QED BY <2>1, <2>2, <2>4, <2>5, <2>6 DEF Burden
<1>2. CASE ~CanSend(l)
  BY <1>2 DEF hfpSendNextAtCmd
<1> QED BY <1>1, <1>2

LEMMA SendLoad ==
  ASSUME NEW l \in LinkRecord, NEW k \in Request, hfpSendNextAtCmd(l)
  PROVE  Load(link', k) = Load(l, k)
BY SendBurden, RequestNames DEF Load

LEMMA QueueSendLoad ==
  ASSUME NEW l \in LinkRecord, NEW c \in Command, NEW k \in Request, hfpSendAtCmd(l, c)
  PROVE  Load(link', k) <= Load(l, k) + Charge(c, k)
<1>1. Queued(l, c) \in LinkRecord /\ Load(Queued(l, c), k) <= Load(l, k) + Charge(c, k)
  BY QueuedLoad, QueuedLink DEF QueuedAs
<1>2. Load(link', k) = Load(Queued(l, c), k)
  BY <1>1, SendLoad DEF hfpSendAtCmd
<1> QED BY <1>1, <1>2

(* Closing a command takes it off the link. *)
LEMMA ClosedLoad ==
  ASSUME NEW q \in LinkRecord, NEW m \in LinkRecord, NEW k \in Request,
         m.pending = None, m.buffer = q.buffer, m.dropped = q.dropped
  PROVE  Load(m, k) = Load(q, k) - Charge(q.pending, k)
<1>1. \A c \in Command : Burden(m, c) = Burden(q, c) - (IF q.pending = c THEN 1 ELSE 0)
  <2>1. SUFFICES ASSUME NEW c \in Command
                 PROVE  Burden(m, c) = Burden(q, c) - (IF q.pending = c THEN 1 ELSE 0)
    OBVIOUS
  <2>2. q.dropped[c] \in Nat /\ Places(q.buffer, c) \in Nat /\ c # None
    BY BurdenNat, NoneAssumption
  <2> QED BY <2>2 DEF Burden
<1>2. Burden(q, k) \in Nat /\ Burden(q, "copsFormat") \in Nat
  BY BurdenNat, RequestNames
<1>3. /\ Burden(m, k) = Burden(q, k) - (IF q.pending = k THEN 1 ELSE 0)
      /\ Burden(m, "copsFormat")
           = Burden(q, "copsFormat") - (IF q.pending = "copsFormat" THEN 1 ELSE 0)
  BY <1>1, RequestNames
<1>4. k # "copsFormat"
  BY RequestNames
<1>5. CASE k = "cops"
  BY <1>2, <1>3, <1>4, <1>5 DEF Load, Charge
<1>6. CASE k # "cops"
  BY <1>2, <1>3, <1>4, <1>6 DEF Load, Charge
<1> QED BY <1>5, <1>6

LEMMA AckLoad ==
  ASSUME Types, NEW status \in Status, NEW k \in Request
  PROVE  Load(AckedLink(status), k)
           <= Load(link, k) - (IF AckConfirms(link, status) = k THEN 1 ELSE 0)
<1> DEFINE a == Acked(link, status)
           q == AckQueues(a, status)
           m == AckedLink(status)
<1>1. /\ a \in LinkRecord /\ a.pending = link.pending /\ a.buffer = link.buffer
      /\ a.dropped = link.dropped
  BY AckedType DEF Types
<1>2. Load(a, k) = Load(link, k)
  BY <1>1 DEF Load, Burden
<1>3. q \in LinkRecord /\ m = [q EXCEPT !.pending = None] /\ m \in LinkRecord
  BY <1>1, AckQueuesType, AckedLinkType DEF AckedLink, Types
<1>4. m.pending = None /\ m.buffer = q.buffer /\ m.dropped = q.dropped
  <2> HIDE DEF q, m
  <2> QED BY <1>3 DEF LinkRecord
<1>5. Load(m, k) = Load(q, k) - Charge(q.pending, k)
  <2> HIDE DEF q, m
  <2> QED BY <1>3, <1>4, ClosedLoad
<1>6. Load(a, k) \in Nat /\ Load(q, k) \in Nat /\ Load(m, k) \in Nat
  <2> HIDE DEF a, q, m
  <2> QED BY <1>1, <1>3, LoadNat
<1>7. {"cindTest", "cindRead", "cmer", "chld", "cops", "copsFormat"} \subseteq Command
  BY Names, RequestNames DEF SetupCommand
<1>8. Charge("cindTest", k) = 0 /\ Charge("cindRead", k) = 0 /\ Charge("cmer", k) = 0
      /\ Charge("chld", k) = 0 /\ Charge("brsf", k) = 0
  BY RequestNames DEF Charge
<1> HIDE DEF a
<1>9. CASE link.pending = "brsf"
  <2> DEFINE b == Queued(a, "cindTest")
  <2>1. b \in LinkRecord /\ b.pending = a.pending /\ Load(b, k) <= Load(a, k) + 0
    BY <1>1, <1>7, <1>8, QueuedLink, QueuedLoad DEF QueuedAs
  <2>2. q = Queued(b, "cindRead")
    BY <1>1, <1>9 DEF AckQueues
  <2>3. Load(b, k) \in Nat
    BY <2>1, LoadNat
  <2> HIDE DEF b, q
  <2>4. q.pending = b.pending /\ Load(q, k) <= Load(b, k) + 0
    BY <1>7, <1>8, <2>1, <2>2, QueuedLink, QueuedLoad DEF QueuedAs
  <2>5. Charge(q.pending, k) = 0 /\ AckConfirms(link, status) # k
    BY <1>1, <1>8, <1>9, <2>1, <2>4, RequestNames, NoneAssumption DEF AckConfirms
  <2> HIDE DEF m
  <2> QED BY <1>2, <1>5, <1>6, <2>1, <2>3, <2>4, <2>5 DEF m
<1>10. CASE link.pending \in {"cindTest", "cindRead"}
  <2>1. q = a \/ \E c \in {"cmer", "chld"} : q = Queued(a, c)
    BY <1>1, <1>10 DEF AckQueues
  <2> HIDE DEF q, m
  <2>2. q.pending = a.pending /\ Load(q, k) <= Load(a, k)
    <3>1. CASE q = a
      BY <1>6, <3>1
    <3>2. ASSUME NEW c \in {"cmer", "chld"}, q = Queued(a, c)
          PROVE  q.pending = a.pending /\ Load(q, k) <= Load(a, k)
      <4>1. c \in Command /\ Charge(c, k) = 0
        BY <1>7, <1>8
      <4>2. q.pending = a.pending /\ Load(q, k) <= Load(a, k) + Charge(c, k)
        BY <1>1, <3>2, <4>1, QueuedLink, QueuedLoad DEF QueuedAs
      <4> QED BY <1>6, <4>1, <4>2
    <3> QED BY <2>1, <3>1, <3>2
  <2>3. Charge(q.pending, k) = 0 /\ AckConfirms(link, status) # k
    BY <1>1, <1>8, <1>10, <2>2, RequestNames, NoneAssumption DEF AckConfirms
  <2> QED BY <1>2, <1>5, <1>6, <2>2, <2>3 DEF m
<1>11. CASE link.pending = "copsFormat"
  <2>1. CASE status = "success"
    <3>1. q = Queued(a, "cops")
      BY <1>1, <1>11, <2>1 DEF AckQueues
    <3> HIDE DEF q, m
    <3>2. q.pending = a.pending /\ Load(q, k) <= Load(a, k) + Charge("cops", k)
      BY <1>1, <1>7, <3>1, QueuedLink, QueuedLoad DEF QueuedAs
    <3>3. AckConfirms(link, status) = None
      BY <1>11, <2>1 DEF AckConfirms, Request
    <3>4. Charge(q.pending, k) = Charge("cops", k) /\ Charge("cops", k) \in {0, 1}
      BY <1>1, <1>11, <3>2, RequestNames DEF Charge
    <3>5. k # None
      BY RequestNames, NoneAssumption
    <3> QED BY <1>2, <1>5, <1>6, <3>2, <3>3, <3>4, <3>5 DEF m
  <2>2. CASE status # "success"
    <3>1. q = a
      BY <1>1, <1>11, <2>2 DEF AckQueues
    <3>2. AckConfirms(link, status) = "cops"
      BY <1>11, <2>2 DEF AckConfirms, Request
    <3> HIDE DEF q, m
    <3>3. Charge(q.pending, k) = (IF k = "cops" THEN 1 ELSE 0)
      BY <1>1, <1>11, <3>1, RequestNames DEF Charge
    <3> QED BY <1>2, <1>5, <1>6, <3>1, <3>2, <3>3 DEF m
  <2> QED BY <2>1, <2>2
<1>12. CASE link.pending \notin {"brsf", "cindTest", "cindRead", "copsFormat"}
  <2>1. q = a
    BY <1>1, <1>12 DEF AckQueues
  <2>2. AckConfirms(link, status) = (IF link.pending \in Request THEN link.pending ELSE None)
    BY <1>12 DEF AckConfirms
  <2> HIDE DEF q, m
  <2>3. k # None
    BY RequestNames, NoneAssumption
  <2>4. Charge(q.pending, k) = (IF link.pending = k THEN 1 ELSE 0)
    BY <1>1, <1>12, <2>1 DEF Charge
  <2>5. AckConfirms(link, status) = k <=> link.pending = k
    BY <2>2, <2>3
  <2> QED BY <1>2, <1>5, <1>6, <2>1, <2>4, <2>5 DEF m
<1> QED BY <1>9, <1>10, <1>11, <1>12

LEMMA OwingNumbers ==
  ASSUME Types, NEW k \in Request
  PROVE  Load(link, k) \in Nat /\ Places(inbox, k) \in Nat /\ owed[k] \in Int
BY LoadNat, PositionsFinite DEF Types

(* The messages of the library itself are no requests. *)
LEMMA PostsPlaces ==
  ASSUME Types, NEW u, NEW k \in Request, NEW s \in Seq(Message),
         u \in {<<"disconnect">>, <<"gone">>, <<"nrec">>, <<"btrh">>, <<"clcc", "bia">>, <<"cmee">>,
                <<"csrsf">>, << >>}
  PROVE  Places(s \o u, k) = Places(s, k)
<1>1. u \in Seq(Message)
  BY ShortSeqs, MessageNames
<1>2. \A i \in DOMAIN u : u[i] \in {"disconnect", "gone", "nrec", "btrh", "clcc", "bia", "cmee",
                                     "csrsf"}
  <2>1. CASE u = <<"clcc", "bia">>
    BY <2>1
  <2>2. CASE u = << >>
    BY <2>2
  <2>3. CASE \E x \in {"disconnect", "gone", "nrec", "btrh", "cmee", "csrsf"} : u = <<x>>
    BY <2>3
  <2> QED BY <2>1, <2>2, <2>3
<1>3. \A i \in DOMAIN u : u[i] # k
  BY <1>2, RequestNames
<1> QED BY <1>1, <1>3, PlacesJoin

LEMMA OwingAck ==
  ASSUME Types, Owing, NEW status \in Status, atCmdAckReceived(status)
  PROVE  Owing'
<1> SUFFICES ASSUME NEW k \in Request
             PROVE  owed'[k] >= Load(link', k) + Places(inbox', k)
  BY DEF Owing
<1> DEFINE l == AckedLink(status)
           c == AckConfirms(link, status)
<1>1. l \in LinkRecord /\ Load(l, k) \in Nat
  BY AckedLinkType, LoadNat DEF Types
<1>2. hfpSendNextAtCmd(l)
  BY DEF atCmdAckReceived
<1>3. Load(l, k) <= Load(link, k) - (IF c = k THEN 1 ELSE 0)
  BY AckLoad
<1>4. owed'[k] = owed[k] - (IF c = k THEN 1 ELSE 0)
  <2>1. c \in Request \cup {None} /\ k # None
    BY RequestNames, NoneAssumption DEF AckConfirms
  <2>2. owed' = IF c = None THEN owed ELSE [owed EXCEPT ![c] = @ - 1]
    BY DEF atCmdAckReceived, AckEffects, Confirmed
  <2> HIDE DEF c
  <2> QED BY <2>1, <2>2, OwingNumbers DEF Types
<1>5. inbox' = inbox \o AckPosts(link, status)
  BY DEF atCmdAckReceived, AckEffects, Post
<1>6. AckPosts(link, status) \in {<<"disconnect">>, <<"nrec">>, <<"btrh">>,
                                  <<"clcc", "bia">>, <<"cmee">>, << >>}
  BY DEF AckPosts
<1>7. Places(inbox', k) = Places(inbox, k)
  BY <1>5, <1>6, PostsPlaces DEF Types
<1> HIDE DEF l, c
<1>8. Load(link', k) = Load(l, k)
  BY <1>1, <1>2, SendLoad
<1>9. owed[k] >= Load(link, k) + Places(inbox, k)
  BY DEF Owing
<1> QED BY <1>1, <1>3, <1>4, <1>7, <1>8, <1>9, OwingNumbers

(* A handler that puts the load of a message on the link, or nothing. *)
LEMMA OwingKept ==
  ASSUME Types, Owing, owed' = owed,
         \A k \in Request : Load(link', k) + Places(inbox', k) <= Load(link, k) + Places(inbox, k),
         Types'
  PROVE  Owing'
<1> SUFFICES ASSUME NEW k \in Request
             PROVE  owed'[k] >= Load(link', k) + Places(inbox', k)
  BY DEF Owing
<1>1. owed[k] >= Load(link, k) + Places(inbox, k)
  BY DEF Owing
<1>2. Load(link', k) \in Nat /\ Places(inbox', k) \in Nat
  BY LoadNat, PositionsFinite DEF Types
<1> QED BY <1>1, <1>2, OwingNumbers

LEMMA InboxTail ==
  ASSUME Types, inbox # << >>, NEW k \in Request
  PROVE  /\ Places(inbox, k) = Places(Tail(inbox), k) + (IF Head(inbox) = k THEN 1 ELSE 0)
         /\ Places(Tail(inbox), k) \in Nat /\ Tail(inbox) \in Seq(Message)
BY PlacesTail, PositionsFinite, TailType DEF Types

LEMMA OwingRequest ==
  ASSUME Types, Owing, NEW m \in InternalRequest, HandleRequest(m), Types'
  PROVE  Owing'
<1>1. inbox # << >> /\ Head(inbox) = m /\ owed' = owed
  BY DEF HandleRequest, Deliver
<1>2. m \in Command
  BY DEF InternalRequest, Command, Request, SetupCommand
<1> SUFFICES ASSUME NEW k \in Request
             PROVE  Load(link', k) + Places(inbox', k) <= Load(link, k) + Places(inbox, k)
  BY <1>1, OwingKept
<1> DEFINE c == Sends(link, m)
<1>3. CASE c # None
  <2>1. c \in Command
    BY <1>2, <1>3 DEF Sends, Command, Request
  <2>2. hfpSendAtCmd(link, c) /\ inbox' = Tail(inbox)
    BY <1>3 DEF HandleRequest
  <2>3. Charge(c, k) = (IF m = k THEN 1 ELSE 0)
    <3>1. CASE m = "cops"
      <4>1. c = "cops" \/ c = "copsFormat"
        BY <3>1 DEF Sends
      <4> HIDE DEF c
      <4> QED BY <3>1, <4>1, RequestNames DEF Charge
    <3>2. CASE m # "cops"
      <4>1. c = m
        BY <1>3, <3>2 DEF Sends
      <4>2. m # "copsFormat"
        BY DEF InternalRequest, Request
      <4> HIDE DEF c
      <4> QED BY <3>2, <4>1, <4>2 DEF Charge
    <3> QED BY <3>1, <3>2
  <2> HIDE DEF c
  <2>4. Load(link', k) <= Load(link, k) + Charge(c, k)
    BY <2>1, <2>2, QueueSendLoad DEF Types
  <2>5. Load(link', k) \in Nat
    BY LoadNat DEF Types
  <2> QED BY <1>1, <2>2, <2>3, <2>4, <2>5, InboxTail, OwingNumbers
<1>4. CASE c = None
  <2>1. inbox' = Tail(inbox) \o Skips(m) /\ link' = link
    BY <1>4 DEF HandleRequest
  <2>2. Skips(m) \in {<<"btrh">>, <<"cmee">>, <<"csrsf">>, << >>}
    BY DEF Skips
  <2>3. Places(inbox', k) = Places(Tail(inbox), k)
    <3> DEFINE t == Tail(inbox)
               u == Skips(m)
    <3>1. t \in Seq(Message) /\ inbox' = t \o u
      BY <1>1, <2>1, InboxTail
    <3>2. u \in {<<"disconnect">>, <<"gone">>, <<"nrec">>, <<"btrh">>, <<"clcc", "bia">>, <<"cmee">>,
                <<"csrsf">>, << >>}
      BY <2>2
    <3> HIDE DEF t, u
    <3>3. Places(t \o u, k) = Places(t, k)
      BY <3>1, <3>2, PostsPlaces
    <3> QED BY <3>1, <3>3 DEF t
  <2> QED BY <1>1, <2>1, <2>3, InboxTail, OwingNumbers
<1> QED BY <1>3, <1>4

LEMMA OwingNext ==
  ASSUME Types, Owing, [Next]_vars, Types'
  PROVE  Owing'
<1>1. CASE HandleAck
  BY <1>1, OwingAck DEF HandleAck, Status
<1>2. CASE HandleBrsf
  <2> DEFINE l == [link EXCEPT !.features = ag.kind.features]
  <2>1. /\ l \in LinkRecord /\ l.pending = link.pending /\ l.buffer = link.buffer
        /\ l.dropped = link.dropped
    BY DEF Types, LinkRecord, Feature
  <2>2. (link' = l \/ hfpSendAtCmd(l, "bac")) /\ inbox' = inbox /\ owed' = owed
    BY <1>2 DEF HandleBrsf
  <2> HIDE DEF l
  <2>3. "bac" \in Command
    BY DEF Command, SetupCommand
  <2>4. ASSUME NEW k \in Request PROVE Load(link', k) <= Load(link, k)
    <3>1. Load(l, k) = Load(link, k) /\ Charge("bac", k) = 0
      BY <2>1, RequestNames DEF Load, Burden, Charge
    <3>2. Load(link', k) <= Load(l, k) + 0
      BY <2>1, <2>2, <2>3, <3>1, QueueSendLoad, OwingNumbers
    <3>3. Load(link', k) \in Nat
      BY LoadNat DEF Types
    <3> QED BY <3>1, <3>2, <3>3, OwingNumbers
  <2>5. \A k \in Request : Load(link', k) \in Nat
    BY LoadNat DEF Types
  <2> QED BY <2>2, <2>4, <2>5, OwingKept, OwingNumbers
<1>3. ASSUME NEW m \in InternalRequest, HandleRequest(m) PROVE Owing'
  BY <1>3, OwingRequest
<1>4. ASSUME NEW m \in InternalRequest, RejectRequest(m) PROVE Owing'
  <2>1. inbox # << >> /\ Head(inbox) = m /\ inbox' = Tail(inbox) /\ link' = link
    BY <1>4 DEF RejectRequest, Deliver
  <2>2. SUFFICES ASSUME NEW k \in Request
                 PROVE  owed'[k] >= Load(link', k) + Places(inbox', k)
    BY DEF Owing
  <2>3. owed' = IF m \in Request THEN [owed EXCEPT ![m] = @ - 1] ELSE owed
    BY <1>4 DEF RejectRequest, Confirmed
  <2>4. owed'[k] = owed[k] - (IF m = k THEN 1 ELSE 0)
    BY <2>3, OwingNumbers DEF Types
  <2>5. owed[k] >= Load(link, k) + Places(inbox, k)
    BY DEF Owing
  <2> QED BY <2>1, <2>4, <2>5, InboxTail, OwingNumbers
<1>5. CASE HandleDisconnectRequest
  <2>1. inbox # << >> /\ inbox' = Tail(inbox) /\ link' = link /\ owed' = owed
    BY <1>5 DEF HandleDisconnectRequest, Deliver
  <2>2. ASSUME NEW k \in Request
        PROVE  Load(link', k) + Places(inbox', k) <= Load(link, k) + Places(inbox, k)
    BY <2>1, InboxTail, OwingNumbers
  <2> QED BY <2>1, <2>2, OwingKept
<1>6. CASE HandleDisconnected
  <2>1. /\ inbox # << >> /\ inbox' = Tail(inbox) /\ link' = Reset(link) /\ owed' = owed
    BY <1>6 DEF HandleDisconnected, Deliver
  <2>2. link'.pending = None /\ link'.buffer = << >> /\ link'.dropped = link.dropped
    BY <2>1 DEF Reset
  <2>3. ASSUME NEW c \in Command PROVE Burden(link', c) <= Burden(link, c)
    <3>1. /\ link.dropped[c] \in Nat /\ Places(link.buffer, c) \in Nat /\ c # None
      BY BurdenNat, NoneAssumption DEF Types
    <3> QED BY <2>2, <3>1, PlacesEmpty DEF Burden
  <2>4. ASSUME NEW k \in Request PROVE Load(link', k) <= Load(link, k) /\ Load(link', k) \in Nat
    <3>1. /\ Burden(link', k) <= Burden(link, k)
          /\ Burden(link', "copsFormat") <= Burden(link, "copsFormat")
      BY <2>3, RequestNames
    <3>2. /\ Burden(link', k) \in Nat /\ Burden(link', "copsFormat") \in Nat
          /\ Burden(link, k) \in Nat /\ Burden(link, "copsFormat") \in Nat
      BY BurdenNat, RequestNames DEF Types
    <3> QED BY <3>1, <3>2 DEF Load
  <2> QED BY <2>1, <2>4, OwingKept, InboxTail, OwingNumbers
<1>7. CASE HandleTimeout
  <2>1. CASE link.slc = "complete"
    BY <1>7, <2>1, OwingAck DEF HandleTimeout, Status
  <2>2. CASE link.slc # "complete"
    <3>1. link' = [link EXCEPT !.timer = FALSE] /\ inbox' = inbox /\ owed' = owed
      BY <1>7, <2>2 DEF HandleTimeout
    <3>2. link'.pending = link.pending /\ link'.buffer = link.buffer /\ link'.dropped = link.dropped
      BY <3>1 DEF Types, LinkRecord
    <3>3. \A k \in Request : Load(link', k) = Load(link, k)
      BY <3>2 DEF Load, Burden
    <3>4. ASSUME NEW k \in Request
          PROVE  Load(link', k) + Places(inbox', k) <= Load(link, k) + Places(inbox, k)
      <4>1. Load(link, k) \in Nat /\ Places(inbox, k) \in Nat
        BY LoadNat, PositionsFinite DEF Types
      <4>2. Places(inbox', k) = Places(inbox, k) /\ Load(link', k) = Load(link, k)
        BY <3>1, <3>3
      <4> QED BY <4>1, <4>2
    <3> QED BY <3>1, <3>4, OwingKept
  <2> QED BY <2>1, <2>2
<1>8. ASSUME NEW r \in Request, ClientRequest(r) PROVE Owing'
  <2>1. owed' = [owed EXCEPT ![r] = @ + 1] /\ inbox' = inbox \o <<r>> /\ link' = link
    BY <1>8 DEF ClientRequest, Post
  <2>2. r \in Message /\ inbox \in Seq(Message)
    BY DEF Message, InternalRequest, Types
  <2>3. inbox \o <<r>> = Append(inbox, r)
    BY <2>2
  <2>4. SUFFICES ASSUME NEW k \in Request
                 PROVE  owed'[k] >= Load(link', k) + Places(inbox', k)
    BY DEF Owing
  <2>5. Places(inbox', k) = Places(inbox, k) + (IF r = k THEN 1 ELSE 0)
    <3>1. Places(Append(inbox, r), k) = Places(inbox, k) + (IF r = k THEN 1 ELSE 0)
      BY <2>2, PlacesAppend
    <3> QED BY <2>1, <2>3, <3>1
  <2>6. owed'[k] = owed[k] + (IF r = k THEN 1 ELSE 0)
    BY <2>1, OwingNumbers DEF Types
  <2>7. owed[k] >= Load(link, k) + Places(inbox, k)
    BY DEF Owing
  <2> QED BY <2>1, <2>5, <2>6, <2>7, OwingNumbers
<1>9. CASE ClientDisconnect
  <2>1. inbox' = inbox \o <<"disconnect">> /\ link' = link /\ owed' = owed
    BY <1>9 DEF ClientDisconnect, Post
  <2>2. \A k \in Request : Places(inbox', k) = Places(inbox, k)
    BY <2>1, PostsPlaces DEF Types
  <2> QED BY <2>1, <2>2, OwingKept, OwingNumbers
<1>10. ASSUME NEW g \in 0 .. (MaxGain + 1), VolumeRequest(g) PROVE Owing'
  <2> DEFINE l == [link EXCEPT !.vol = Clamped(g), !.volPending = TRUE]
  <2>1. Clamped(g) \in Volume
    BY BoundsAssumption DEF Clamped, Volume
  <2>2. /\ l \in LinkRecord /\ l.pending = link.pending /\ l.buffer = link.buffer
        /\ l.dropped = link.dropped
    BY <2>1 DEF Types, LinkRecord
  <2>3. (link' = l \/ hfpSendAtCmd(l, "vgs")) /\ inbox' = inbox /\ owed' = owed
    BY <1>10 DEF VolumeRequest
  <2> HIDE DEF l
  <2>4. "vgs" \in Command
    BY DEF Command
  <2>5. ASSUME NEW k \in Request PROVE Load(link', k) <= Load(link, k)
    <3>1. Load(l, k) = Load(link, k) /\ Charge("vgs", k) = 0
      BY <2>2, RequestNames DEF Load, Burden, Charge
    <3>2. Load(link', k) <= Load(l, k) + 0
      BY <2>2, <2>3, <2>4, <3>1, QueueSendLoad, OwingNumbers
    <3>3. Load(link', k) \in Nat
      BY LoadNat DEF Types
    <3> QED BY <3>1, <3>2, <3>3, OwingNumbers
  <2>6. \A k \in Request : Load(link', k) \in Nat
    BY LoadNat DEF Types
  <2> QED BY <2>3, <2>5, <2>6, OwingKept, OwingNumbers
<1>11. CASE Closes
  <2>1. link' = [link EXCEPT !.open = FALSE, !.buffer = << >>] /\ inbox' = inbox \o <<"gone">>
        /\ owed' = owed
    BY <1>11 DEF Closes, Post
  <2>2. link'.pending = link.pending /\ link'.buffer = << >> /\ link'.dropped = link.dropped
    BY <2>1 DEF Types, LinkRecord
  <2>3. ASSUME NEW c \in Command PROVE Burden(link', c) <= Burden(link, c)
    <3>1. /\ link.dropped[c] \in Nat /\ Places(link.buffer, c) \in Nat
      BY BurdenNat DEF Types
    <3> QED BY <2>2, <3>1, PlacesEmpty DEF Burden
  <2>4. ASSUME NEW k \in Request PROVE Load(link', k) <= Load(link, k) /\ Load(link', k) \in Nat
    <3>1. /\ Burden(link', k) <= Burden(link, k)
          /\ Burden(link', "copsFormat") <= Burden(link, "copsFormat")
      BY <2>3, RequestNames
    <3>2. /\ Burden(link', k) \in Nat /\ Burden(link', "copsFormat") \in Nat
          /\ Burden(link, k) \in Nat /\ Burden(link, "copsFormat") \in Nat
      BY BurdenNat, RequestNames DEF Types
    <3> QED BY <3>1, <3>2 DEF Load
  <2>5. \A k \in Request : Places(inbox', k) = Places(inbox, k)
    BY <2>1, PostsPlaces DEF Types
  <2> QED BY <2>1, <2>4, <2>5, OwingKept, OwingNumbers
<1>12. CASE HandleChld
  <2>1. link' = [link EXCEPT !.slc = "complete"] /\ inbox' = inbox \o <<"nrec">> /\ owed' = owed
    BY <1>12 DEF HandleChld, Post
  <2>2. link'.pending = link.pending /\ link'.buffer = link.buffer /\ link'.dropped = link.dropped
    BY <2>1 DEF Types, LinkRecord
  <2>3. \A k \in Request : Load(link', k) = Load(link, k)
    BY <2>2 DEF Load, Burden
  <2>4. \A k \in Request : Places(inbox', k) = Places(inbox, k)
    BY <2>1, PostsPlaces DEF Types
  <2>5. ASSUME NEW k \in Request
        PROVE  Load(link', k) + Places(inbox', k) <= Load(link, k) + Places(inbox, k)
    <3>1. Load(link, k) \in Nat /\ Places(inbox, k) \in Nat
      BY LoadNat, PositionsFinite DEF Types
    <3> QED BY <2>3, <2>4, <3>1, OwingNumbers
  <2> QED BY <2>1, <2>5, OwingKept
<1>13. CASE HandleSpeakerGain \/ (\E found \in BOOLEAN : SdpFeatures(found))
  <2>1. /\ link'.pending = link.pending /\ link'.buffer = link.buffer
        /\ link'.dropped = link.dropped /\ inbox' = inbox /\ owed' = owed
    BY <1>13 DEF HandleSpeakerGain, SdpFeatures, Types, LinkRecord
  <2>2. \A k \in Request : Load(link', k) = Load(link, k)
    BY <2>1 DEF Load, Burden
  <2> QED BY <2>1, <2>2, OwingKept, OwingNumbers
<1>14. CASE UNCHANGED <<link, inbox, owed>>
  BY <1>14 DEF Owing
<1>15. CASE AgStep \/ (\E v \in Volume : AgVolume(v)) \/ UNCHANGED vars
  BY <1>14, <1>15 DEF AgStep, AgAccepts, AgRefuses, AgIgnores, AgVolume, vars
<1> QED BY <1>1, <1>2, <1>3, <1>4, <1>5, <1>6, <1>7, <1>8, <1>9, <1>10, <1>11, <1>12, <1>13, <1>15
        DEF Next, Lines, Messages, Client, Disconnected, Dropped

LEMMA OwingInit == Init => Owing
<1> SUFFICES ASSUME Init, NEW k \in Request
             PROVE  owed[k] >= Load(link, k) + Places(inbox, k)
  BY DEF Owing
<1>1. /\ link.pending = "brsf" /\ link.buffer = << >> /\ link.dropped = [c \in Command |-> 0]
  BY InitFacts
<1>2. owed[k] = 0 /\ inbox = << >>
  BY DEF Init
<1>3. \A c \in Command : c # "brsf" => Burden(link, c) = 0
  BY <1>1, PlacesEmpty DEF Burden
<1>4. k # "brsf" /\ Load(link, k) = 0
  BY <1>3, RequestNames DEF Load
<1> QED BY <1>2, <1>4, PlacesEmpty

(* Confirmations are matched to requests by the command that is pending    *)
(* alone: still no kind of request is confirmed more often than it was     *)
(* made, less the commands a full buffer has dropped; also where a timeout *)
(* has closed a command and its answer is taken for the next one.          *)
THEOREM RequestsConfirmedOnce == Spec => []ConfirmedAtMostOnce
<1>1. Types /\ Owing => ConfirmedAtMostOnce
  <2> SUFFICES ASSUME Types, Owing, NEW k \in Request PROVE owed[k] >= Lost(k)
    BY DEF ConfirmedAtMostOnce
  <2>1. /\ Burden(link, k) \in Nat /\ link.dropped[k] \in Nat /\ Places(link.buffer, k) \in Nat
        /\ Burden(link, "copsFormat") \in Nat /\ link.dropped["copsFormat"] \in Nat
        /\ Places(link.buffer, "copsFormat") \in Nat
    BY BurdenNat, RequestNames DEF Types
  <2>2. Load(link, k) >= Lost(k)
    BY <2>1 DEF Load, Burden, Lost
  <2>3. owed[k] >= Load(link, k) + Places(inbox, k)
    BY DEF Owing
  <2>4. Lost(k) \in Nat
    BY <2>1 DEF Lost
  <2> QED BY <2>2, <2>3, <2>4, OwingNumbers
<1>2. Types /\ Types' /\ Owing /\ [Next]_vars => Owing'
  BY OwingNext
<1> QED BY OwingInit, <1>1, <1>2, TypeCorrect, PTL DEF Spec
=============================================================================
