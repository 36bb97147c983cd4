-------------------------- MODULE A2dpStreamProofs --------------------------
(***************************************************************************)
(* Proofs about the A2DP library (lib/a2dp), for any number of records,    *)
(* channels and addresses, any behaviour of the client, of the remote      *)
(* devices and of the radio link, and any bounds.                          *)
(***************************************************************************)
EXTENDS A2dpProperties, LeastElement

Ends == Chan \cup {NoChan}

SentCommand == [cmd : Issued, label : 1..MaxLabel]

(* Only what the library issues is answered. *)
Received == {p \in Packet : p.type \in {"accept", "reject"} => p.sig \in Issued}

Output == [drop : SUBSET Ends, yes : SUBSET Ends, no : SUBSET Ends, call : BOOLEAN, sdp : BOOLEAN]

Device ==
  [addr : Addr \cup {NoAddr}, version : Version,
   sig : LinkState, sink : Ends, outCid : Ends, inCid : Ends, inId : BOOLEAN,
   media : LinkState \ {"crossover"}, mSink : Ends, mOutCid : Ends, mInCid : Ends, delayPending : BOOLEAN,
   stream : StreamState, issued : BOOLEAN, received : BOOLEAN, label : 0..MaxLabel, localSep : BOOLEAN,
   manage : BOOLEAN, linkloss : BOOLEAN, expired : BOOLEAN,
   timers : SUBSET Timer, ask : SUBSET (Question \X (Addr \cup {NoAddr})), owed : SUBSET {"connect", "open"},
   sent : Seq(SentCommand), rx : Seq(Received), out : Output]

(***************************************************************************)
(* What every handler keeps of a record; M is the set of the channels that *)
(* connect to the record's device.                                         *)
(***************************************************************************)
MediaKept == {"connected", "disconnecting"}
Behind == {"local_closing", "remote_closing", "local_aborting"}

(* The sinks that count as connected are two different channels of its     *)
(* own, and only such channels are taken down.                             *)
SinksOwned(d, M) ==
  /\ d.sig \in Joined => d.sink \in M
  /\ d.media \in MediaKept => d.mSink \in M
  /\ d.sig \in Joined /\ d.media \in MediaKept => d.sink # d.mSink
  /\ d.out.drop \subseteq M
  /\ d.media = "connected" => d.mSink \notin d.out.drop

(* The stream goes with its media channel.                                 *)
StreamAndMedia(d) ==
  /\ d.media = "connected" => d.stream \in MediaStreams \cup Behind
  /\ d.sig \in Joined /\ d.stream \in MediaStreams => d.media = "connected"
  /\ SettingUp(d) => d.media # "connected" /\ d.stream = "idle"

(* A record without an address is idle, and no loss is resolved where the  *)
(* signalling channel is up.                                               *)
Unused(d) ==
  d.addr = NoAddr => d.sig = "idle" /\ d.media = "idle" /\ d.stream = "idle" /\ ~d.out.sdp

NoLoss(d) == d.sig \in Joined \/ d.addr = NoAddr => ~d.linkloss

LabelInStep(d) == d.issued /\ d.sent # << >> => d.sent[Len(d.sent)].label = d.label

Bounded(d) == Len(d.sent) <= MaxSent

Sound(d, M) ==
  /\ d \in Device
  /\ SinksOwned(d, M) /\ StreamAndMedia(d) /\ Unused(d) /\ NoLoss(d) /\ LabelInStep(d) /\ Bounded(d)

(* What the procedures of an established link leave alone. *)
Keeps(d, e) ==
  /\ e.addr = d.addr /\ e.inCid = d.inCid
  /\ e.sig = d.sig \/ {d.sig, e.sig} \subseteq Joined
  /\ "retry" \in d.timers => "retry" \in e.timers
  /\ e.media = "connected" => d.media = "connected" /\ e.mSink = d.mSink

(* e is an outcome of such a procedure, called with b. *)
Outcome(b, e, M) == Sound(e, M) /\ Keeps(b, e) /\ e.rx = b.rx

(***************************************************************************)
(* The operations all handlers are put together from.                      *)
(***************************************************************************)
(* e differs from d in nothing the invariants speak of. *)
Alike(d, e) ==
  /\ e.addr = d.addr /\ e.inCid = d.inCid /\ e.sig = d.sig /\ e.sink = d.sink
  /\ e.media = d.media /\ e.mSink = d.mSink /\ e.stream = d.stream
  /\ e.linkloss = d.linkloss
  /\ "retry" \in d.timers => "retry" \in e.timers
  /\ e.rx = d.rx /\ e.out = d.out

LEMMA OutcomeType ==
  ASSUME NEW M, NEW b, NEW d, Outcome(b, d, M)
  PROVE  d \in Device
BY DEF Outcome, Sound

LEMMA AlikeOutcome ==
  ASSUME NEW M, NEW b, NEW d, Outcome(b, d, M), NEW e \in Device, Alike(d, e),
         LabelInStep(e), Bounded(e)
  PROVE  Outcome(b, e, M)
<1>1. Sound(e, M)
  BY DEF Outcome, Sound, Alike, SinksOwned, StreamAndMedia, Unused, NoLoss, SettingUp
<1>2. Keeps(b, e) /\ e.rx = b.rx
  BY DEF Outcome, Alike, Keeps
<1> QED BY <1>1, <1>2 DEF Outcome

(* The same where the transactions are left alone too. *)
LEMMA SameOutcome ==
  ASSUME NEW M, NEW b, NEW d, Outcome(b, d, M), NEW e \in Device, Alike(d, e),
         e.issued \in {d.issued, FALSE}, e.sent = d.sent, e.label = d.label
  PROVE  Outcome(b, e, M)
<1>1. LabelInStep(e) /\ Bounded(e)
  BY DEF Outcome, Sound, LabelInStep, Bounded
<1> QED BY <1>1, AlikeOutcome

(* What changes the media channel, other than its confirmation. *)
LEMMA MediaOutcome ==
  ASSUME NEW M, NEW b, NEW d, Outcome(b, d, M), NEW e \in Device,
         e.addr = d.addr, e.inCid = d.inCid, e.sig = d.sig, e.sink = d.sink,
         e.linkloss = d.linkloss, "retry" \in d.timers => "retry" \in e.timers, e.rx = d.rx,
         LabelInStep(e), Bounded(e), e.out.sdp = d.out.sdp,
         e.media # "connected", d.sig \in Joined => e.stream \notin MediaStreams,
         SettingUp(d) => e.stream = "idle",
         d.addr = NoAddr => e.stream = "idle" /\ e.media = "idle",
         e.media \in MediaKept => d.media \in MediaKept /\ e.mSink = d.mSink,
         e.out.drop = d.out.drop \/ (d.media = "connected" /\ e.out.drop = d.out.drop \cup {d.mSink})
  PROVE  Outcome(b, e, M)
<1>1. Sound(e, M)
  BY DEF Outcome, Sound, SinksOwned, StreamAndMedia, Unused, NoLoss, SettingUp, MediaKept
<1>2. Keeps(b, e) /\ e.rx = b.rx
  BY DEF Outcome, Keeps
<1> QED BY <1>1, <1>2 DEF Outcome

LEMMA AskOutcome ==
  ASSUME NEW M, NEW b, NEW d, Outcome(b, d, M), NEW q \in Question
  PROVE  Outcome(b, Ask(d, q), M)
<1> DEFINE e == Ask(d, q)
<1>1. d \in Device
  BY OutcomeType
<1>2. d.ask \cup {<<q, d.addr>>} \in SUBSET (Question \X (Addr \cup {NoAddr}))
  BY <1>1 DEF Device
<1>3. e \in Device /\ Alike(d, e) /\ e.issued = d.issued /\ e.sent = d.sent /\ e.label = d.label
  BY ZenonT(60), <1>1, <1>2 DEF Device, Ask, Alike
<1> HIDE DEF e
<1> QED BY <1>3, SameOutcome DEF e

LEMMA ConfirmOutcome ==
  ASSUME NEW M, NEW b, NEW d, Outcome(b, d, M), NEW r
  PROVE  Outcome(b, Confirm(d, r), M)
<1> DEFINE e == Confirm(d, r)
<1>1. d \in Device
  BY OutcomeType
<1>2. d.owed \ {r} \in SUBSET {"connect", "open"}
  BY <1>1 DEF Device
<1>3. e \in Device /\ Alike(d, e) /\ e.issued = d.issued /\ e.sent = d.sent /\ e.label = d.label
  BY ZenonT(60), <1>1, <1>2 DEF Device, Confirm, Alike
<1> HIDE DEF e
<1> QED BY <1>3, SameOutcome DEF e

(* Fields that the invariants do not speak of. *)
LEMMA FieldOutcome ==
  ASSUME NEW M, NEW b, NEW d, Outcome(b, d, M), NEW v \in BOOLEAN
  PROVE  /\ Outcome(b, [d EXCEPT !.received = v], M)
         /\ Outcome(b, [d EXCEPT !.issued = FALSE], M)
         /\ Outcome(b, [d EXCEPT !.localSep = v], M)
         /\ Outcome(b, [d EXCEPT !.delayPending = v], M)
         /\ Outcome(b, [d EXCEPT !.owed = @ \cup {"open"}], M)
<1>1. d \in Device
  BY OutcomeType
<1>2. ASSUME NEW e, e = [d EXCEPT !.received = v] PROVE Outcome(b, e, M)
  <2>1. e \in Device /\ Alike(d, e) /\ e.issued = d.issued /\ e.sent = d.sent /\ e.label = d.label
    BY <1>1, <1>2 DEF Device, Alike
  <2> QED BY <2>1, SameOutcome
<1>3. ASSUME NEW e, e = [d EXCEPT !.issued = FALSE] PROVE Outcome(b, e, M)
  <2>1. e \in Device /\ Alike(d, e) /\ e.issued = FALSE /\ e.sent = d.sent /\ e.label = d.label
    BY ZenonT(60), <1>1, <1>3 DEF Device, Alike
  <2> QED BY <2>1, SameOutcome
<1>4. ASSUME NEW e, e = [d EXCEPT !.localSep = v] PROVE Outcome(b, e, M)
  <2>1. e \in Device /\ Alike(d, e) /\ e.issued = d.issued /\ e.sent = d.sent /\ e.label = d.label
    BY <1>1, <1>4 DEF Device, Alike
  <2> QED BY <2>1, SameOutcome
<1>5. ASSUME NEW e, e = [d EXCEPT !.delayPending = v] PROVE Outcome(b, e, M)
  <2>1. e \in Device /\ Alike(d, e) /\ e.issued = d.issued /\ e.sent = d.sent /\ e.label = d.label
    BY <1>1, <1>5 DEF Device, Alike
  <2> QED BY <2>1, SameOutcome
<1>6. ASSUME NEW e, e = [d EXCEPT !.owed = @ \cup {"open"}] PROVE Outcome(b, e, M)
  <2>1. d.owed \cup {"open"} \in SUBSET {"connect", "open"}
    BY <1>1 DEF Device
  <2>2. e \in Device /\ Alike(d, e) /\ e.issued = d.issued /\ e.sent = d.sent /\ e.label = d.label
    BY ZenonT(60), <1>1, <1>6, <2>1 DEF Device, Alike
  <2> QED BY <2>2, SameOutcome
<1> QED BY <1>2, <1>3, <1>4, <1>5, <1>6

LEMMA TimerOutcome ==
  ASSUME NEW M, NEW b, NEW d, Outcome(b, d, M), NEW t \in Timer
  PROVE  Outcome(b, [d EXCEPT !.timers = @ \cup {t}], M)
<1> DEFINE e == [d EXCEPT !.timers = @ \cup {t}]
<1>1. d \in Device
  BY OutcomeType
<1>2. d.timers \cup {t} \in SUBSET Timer
  BY <1>1 DEF Device
<1>3. e \in Device /\ Alike(d, e) /\ e.issued = d.issued /\ e.sent = d.sent /\ e.label = d.label
  BY ZenonT(60), <1>1, <1>2 DEF Device, Alike
<1> HIDE DEF e
<1> QED BY <1>3, SameOutcome DEF e

(* a2dpSendCommand: the label of the command is the one that is expected.  *)
LEMMA SendOutcome ==
  ASSUME NEW M, NEW b, NEW d, Outcome(b, d, M), NEW c \in Issued
  PROVE  Outcome(b, Send(d, c), M)
<1> DEFINE l == NextLabel(d.label)
           s == LastSent(Append(d.sent, [cmd |-> c, label |-> l]))
           e == Send(d, c)
<1>1. d \in Device
  BY OutcomeType
<1>2. l \in 1..MaxLabel
  BY <1>1, LabelAssumption DEF Device, NextLabel
<1>3. /\ s \in Seq(SentCommand) /\ s # << >> /\ s[Len(s)].label = l
      /\ Len(s) <= MaxSent
  <2> DEFINE m == [cmd |-> c, label |-> l]
             t == Append(d.sent, m)
  <2>1. m \in SentCommand /\ m.label = l
    BY <1>2 DEF SentCommand
  <2>2. d.sent \in Seq(SentCommand) /\ Len(d.sent) <= MaxSent
    BY <1>1 DEF Device, Outcome, Sound, Bounded
  <2> HIDE DEF m
  <2>3. t \in Seq(SentCommand) /\ Len(t) = Len(d.sent) + 1 /\ t[Len(t)] = m /\ t # << >>
    BY <2>1, <2>2
  <2> HIDE DEF t
  <2>4. CASE Len(t) > MaxSent
    <3>1. s = SubSeq(t, 2, Len(t))
      BY <2>4 DEF LastSent, t, m
    <3>2. Len(t) >= 2 /\ Len(t) = MaxSent + 1
      BY <2>2, <2>3, <2>4, LabelAssumption
    <3>3. /\ SubSeq(t, 2, Len(t)) \in Seq(SentCommand)
          /\ Len(SubSeq(t, 2, Len(t))) = Len(t) - 1
          /\ SubSeq(t, 2, Len(t))[Len(t) - 1] = t[Len(t)]
      BY <2>3, <3>2
    <3>4. Len(s) = Len(t) - 1 /\ s[Len(s)] = m
      BY <2>3, <3>1, <3>3
    <3> HIDE DEF s
    <3>5. s \in Seq(SentCommand) /\ Len(t) \in Nat /\ MaxSent \in Nat
      <4>1. s \in Seq(SentCommand)
        BY <3>1, <3>3
      <4>2. Len(t) \in Nat
        BY <2>3
      <4>3. MaxSent \in Nat
        BY LabelAssumption
      <4> QED BY <4>1, <4>2, <4>3
    <3>6. s # << >> /\ Len(s) <= MaxSent
      BY <3>2, <3>4, <3>5
    <3> QED BY <2>1, <3>4, <3>5, <3>6
  <2>5. CASE ~(Len(t) > MaxSent)
    <3>1. s = t
      BY <2>5 DEF LastSent, t, m
    <3> QED BY <2>1, <2>3, <2>5, <3>1, LabelAssumption
  <2> QED BY <2>4, <2>5
<1>4. e = [d EXCEPT !.issued = TRUE, !.label = l, !.sent = s]
  BY <1>1 DEF Send, Device
<1> HIDE DEF l, s, e
<1>5. 1..MaxLabel \subseteq 0..MaxLabel
  BY LabelAssumption
<1>6. e \in Device /\ Alike(d, e) /\ e.sent = s /\ e.label = l
  BY ZenonT(60), <1>1, <1>2, <1>3, <1>4, <1>5 DEF Device, Alike
<1>7. LabelInStep(e) /\ Bounded(e)
  BY <1>3, <1>6 DEF LabelInStep, Bounded
<1> QED BY <1>6, <1>7, AlikeOutcome DEF e

LEMMA StateOutcome ==
  ASSUME NEW M, NEW b, NEW d, Outcome(b, d, M), NEW st \in StreamState,
         d.media = "connected" => st \in MediaStreams \cup Behind,
         d.sig \in Joined /\ st \in MediaStreams => d.media = "connected",
         SettingUp(d) \/ d.addr = NoAddr => st = "idle"
  PROVE  Outcome(b, SetStreamState(d, st), M)
<1> DEFINE e == SetStreamState(d, st)
           t == (d.timers \ {"clientRsp", "remoteCmd", "watchdog"})
                            \cup (IF st \in Stable THEN {} ELSE {"watchdog"})
<1>1. d \in Device
  BY DEF Outcome, Sound
<1>2. t \in SUBSET Timer /\ ("retry" \in d.timers => "retry" \in t)
  BY <1>1 DEF Device, Timer
<1> HIDE DEF t
<1>3. e = [d EXCEPT !.stream = st, !.timers = t]
  BY <1>1 DEF SetStreamState, t, Device
<1> HIDE DEF e
<1>4. e \in Device
  BY ZenonT(60), <1>1, <1>2, <1>3 DEF Device
<1>5. Sound(e, M)
  BY <1>1, <1>3, <1>4 DEF Outcome, Sound, Device, SinksOwned, StreamAndMedia, Unused, NoLoss, LabelInStep, Bounded, SettingUp
<1>6. Keeps(b, e) /\ e.rx = b.rx
  BY <1>1, <1>2, <1>3 DEF Outcome, Keeps, Device
<1> QED BY <1>5, <1>6 DEF Outcome, e

(* a2dpStreamReset, where the media channel is not connected. *)
LEMMA ResetOutcome ==
  ASSUME NEW M, NEW b, NEW d, Outcome(b, d, M), d.media # "connected"
  PROVE  Outcome(b, StreamReset(d), M)
<1> DEFINE e == [d EXCEPT !.issued = FALSE, !.received = FALSE, !.label = 0]
<1>1. d \in Device
  BY OutcomeType
<1>0. 0 \in 0..MaxLabel
  BY LabelAssumption
<1>2. e \in Device /\ Alike(d, e) /\ ~e.issued /\ e.sent = d.sent
  BY ZenonT(60), <1>0, <1>1 DEF Device, Alike
<1>3. StreamReset(d) = SetStreamState(e, "idle")
  BY DEF StreamReset
<1> HIDE DEF e
<1>4. LabelInStep(e) /\ Bounded(e)
  BY <1>2 DEF LabelInStep, Bounded, Outcome, Sound
<1>5. Outcome(b, e, M)
  BY <1>2, <1>4, AlikeOutcome
<1>6. e.media # "connected" /\ "idle" \in StreamState \ MediaStreams
  BY <1>2 DEF Alike, StreamState, Stable, MediaStreams
<1> QED BY <1>3, <1>5, <1>6, StateOutcome

LEMMA AbortOutcome ==
  ASSUME NEW M, NEW b, NEW d, Outcome(b, d, M)
  PROVE  Outcome(b, StreamAbort(d), M)
<1>1. CASE d.stream # "local_aborting" /\ d.sig = "connected"
  <2> DEFINE e == Send(d, "abort")
  <2>1. Outcome(b, e, M)
    BY SendOutcome DEF Issued
  <2>2. e.sig = "connected" /\ e.addr # NoAddr
    <3>1. d.addr # NoAddr
      BY <1>1 DEF Outcome, Sound, Unused
    <3>2. e.sig = d.sig /\ e.addr = d.addr
      BY OutcomeType DEF Send, Device
    <3> QED BY <1>1, <3>1, <3>2
  <2>3. StreamAbort(d) = SetStreamState(e, "local_aborting")
    BY <1>1 DEF StreamAbort
  <2>4. "local_aborting" \in StreamState \ MediaStreams /\ "local_aborting" \in Behind
    BY DEF StreamState, MediaStreams, Behind
  <2>5. ~SettingUp(e)
    BY <2>2 DEF SettingUp
  <2> HIDE DEF e
  <2> QED BY <2>1, <2>2, <2>3, <2>4, <2>5, StateOutcome
<1>2. CASE ~(d.stream # "local_aborting" /\ d.sig = "connected")
  BY <1>2 DEF StreamAbort
<1> QED BY <1>1, <1>2

(* Sending a command of the procedures that lead to a media channel. *)
LEMMA IssueOutcome ==
  ASSUME NEW M, NEW b, NEW d, Outcome(b, d, M), d.media # "connected",
         NEW c \in Issued, NEW st \in StreamState \ MediaStreams
  PROVE  Outcome(b, Issue(d, c, st), M)
<1>1. CASE CanSend(d, c)
  <2> DEFINE e == Send(d, c)
  <2>1. Outcome(b, e, M)
    BY SendOutcome
  <2>2. e.sig \in Joined /\ e.addr # NoAddr /\ e.media # "connected"
    <3>1. d.sig \in Joined /\ d.addr # NoAddr
      BY <1>1 DEF CanSend, SinkValid, Outcome, Sound, Unused, Joined
    <3>2. e.sig = d.sig /\ e.addr = d.addr /\ e.media = d.media
      BY OutcomeType DEF Send, Device
    <3> QED BY <3>1, <3>2
  <2>3. Issue(d, c, st) = SetStreamState(e, st)
    BY <1>1 DEF Issue
  <2>4. ~SettingUp(e)
    BY <2>2 DEF SettingUp, Joined
  <2> HIDE DEF e
  <2> QED BY <2>1, <2>2, <2>3, <2>4, StateOutcome
<1>2. CASE ~CanSend(d, c)
  BY <1>2, AbortOutcome, ConfirmOutcome DEF Issue
<1> QED BY <1>1, <1>2
(***************************************************************************)
(* The media channel.                                                      *)
(***************************************************************************)
LEMMA OutputType ==
  ASSUME NEW o \in Output, NEW c \in Ends
  PROVE  /\ [o EXCEPT !.call = TRUE] \in Output
         /\ [o EXCEPT !.drop = @ \cup {c}] \in Output
         /\ [o EXCEPT !.yes = @ \cup {c}] \in Output
         /\ [o EXCEPT !.no = @ \cup {c}] \in Output
BY DEF Output

LEMMA MediaConnectOutcome ==
  ASSUME NEW M, NEW b, NEW d, Outcome(b, d, M)
  PROVE  Outcome(b, MediaConnectReq(d), M)
<1>1. CASE d.sig = "connected" /\ d.media = "idle"
  <2> DEFINE o == [d.out EXCEPT !.call = TRUE]
             e == InitiateMediaOut(d)
  <2>1. d \in Device /\ d.out \in Output
    BY OutcomeType DEF Device
  <2>2. o \in Output /\ o.sdp = d.out.sdp /\ o.drop = d.out.drop
    BY <2>1, OutputType DEF Output, Ends
  <2>3. e = [d EXCEPT !.media = "paging", !.mOutCid = NoChan, !.mInCid = NoChan, !.mSink = NoChan,
                      !.delayPending = FALSE, !.out = o]
    BY <2>1 DEF InitiateMediaOut, Device
  <2> HIDE DEF o, e
  <2>4. e \in Device
    <3>1. NoChan \in Ends /\ "paging" \in LinkState \ {"crossover"}
      BY DEF Ends, LinkState
    <3> QED BY ZenonT(60), <2>1, <2>2, <2>3, <3>1 DEF Device
  <2>5. /\ e.addr = d.addr /\ e.inCid = d.inCid /\ e.sig = d.sig /\ e.sink = d.sink
        /\ e.linkloss = d.linkloss /\ e.timers = d.timers /\ e.rx = d.rx
        /\ e.issued = d.issued /\ e.sent = d.sent /\ e.label = d.label /\ e.stream = d.stream
        /\ e.media = "paging" /\ e.out = o
    BY <2>1, <2>3 DEF Device
  <2>6. /\ e.stream \notin MediaStreams /\ ~SettingUp(d) /\ d.addr # NoAddr
        /\ LabelInStep(e) /\ Bounded(e)
    BY <1>1, <2>5 DEF Outcome, Sound, StreamAndMedia, Unused, Joined, SettingUp, LabelInStep, Bounded
  <2>7. Outcome(b, e, M)
    BY <2>2, <2>4, <2>5, <2>6, MediaOutcome DEF MediaKept
  <2> QED BY <1>1, <2>7 DEF MediaConnectReq, e
<1>2. CASE ~(d.sig = "connected" /\ d.media = "idle")
  BY <1>2, ConfirmOutcome DEF MediaConnectReq
<1> QED BY <1>1, <1>2

LEMMA MediaInOutcome ==
  ASSUME NEW M, NEW b, NEW d, Outcome(b, d, M), NEW c \in Chan, d.sig = "connected", d.media = "idle"
  PROVE  Outcome(b, InitiateMediaIn(d, c), M)
<1> DEFINE o == [d.out EXCEPT !.yes = @ \cup {c}]
           e == InitiateMediaIn(d, c)
<1>1. d \in Device /\ d.out \in Output
  BY OutcomeType DEF Device
<1>2. o \in Output /\ o.sdp = d.out.sdp /\ o.drop = d.out.drop
  BY <1>1, OutputType DEF Output, Ends
<1>3. e = [d EXCEPT !.media = "paged", !.mOutCid = NoChan, !.mInCid = c, !.mSink = NoChan,
                    !.delayPending = FALSE, !.out = o]
  BY <1>1 DEF InitiateMediaIn, Device
<1> HIDE DEF o, e
<1>4. e \in Device
  <2>1. NoChan \in Ends /\ c \in Ends /\ "paged" \in LinkState \ {"crossover"}
    BY DEF Ends, LinkState
  <2> QED BY ZenonT(60), <1>1, <1>2, <1>3, <2>1 DEF Device
<1>5. /\ e.addr = d.addr /\ e.inCid = d.inCid /\ e.sig = d.sig /\ e.sink = d.sink
      /\ e.linkloss = d.linkloss /\ e.timers = d.timers /\ e.rx = d.rx
      /\ e.issued = d.issued /\ e.sent = d.sent /\ e.label = d.label /\ e.stream = d.stream
      /\ e.media = "paged" /\ e.out = o
  BY <1>1, <1>3 DEF Device
<1>6. /\ e.stream \notin MediaStreams /\ ~SettingUp(d) /\ d.addr # NoAddr
      /\ LabelInStep(e) /\ Bounded(e)
  BY <1>5 DEF Outcome, Sound, StreamAndMedia, Unused, Joined, SettingUp, LabelInStep, Bounded
<1>7. Outcome(b, e, M)
  BY <1>2, <1>4, <1>5, <1>6, MediaOutcome DEF MediaKept
<1> QED BY <1>7 DEF e

(* a2dpDisconnectAllMedia and a2dpMediaDisconnectReq: the fields that      *)
(* change.                                                                 *)
ClosesMedia(d, e) ==
  /\ e.addr = d.addr /\ e.inCid = d.inCid /\ e.sig = d.sig /\ e.sink = d.sink
  /\ e.linkloss = d.linkloss /\ e.timers = d.timers /\ e.rx = d.rx /\ e.stream = d.stream
  /\ e.issued = d.issued /\ e.sent = d.sent /\ e.label = d.label
  /\ e.out.sdp = d.out.sdp /\ e.mSink = d.mSink
  /\ d.media = "idle" => e.media = "idle"
  /\ e.media = "disconnecting" => d.media \in MediaKept
  /\ e.out.drop = d.out.drop \/ (d.media = "connected" /\ e.out.drop = d.out.drop \cup {d.mSink})

LEMMA SinkCloses ==
  ASSUME NEW d \in Device, d.media = "connected"
  PROVE  /\ DisconnectMediaSink(d) \in Device /\ ClosesMedia(d, DisconnectMediaSink(d))
         /\ DisconnectMediaSink(d).media = "disconnecting"
<1> DEFINE o == [d.out EXCEPT !.drop = @ \cup {d.mSink}]
           e == DisconnectMediaSink(d)
<1>1. d.out \in Output /\ d.mSink \in Ends
  BY DEF Device
<1>2. o \in Output /\ o.sdp = d.out.sdp /\ o.drop = d.out.drop \cup {d.mSink}
  BY <1>1, OutputType DEF Output
<1>3. e = [d EXCEPT !.media = "disconnecting", !.out = o]
  BY DEF DisconnectMediaSink, Device
<1> HIDE DEF o, e
<1>4. e \in Device /\ e.media = "disconnecting"
  BY ZenonT(60), <1>2, <1>3 DEF Device, LinkState
<1>5. ClosesMedia(d, e)
  BY <1>2, <1>3 DEF Device, ClosesMedia, MediaKept
<1> QED BY <1>4, <1>5 DEF e

LEMMA AllMediaCloses ==
  ASSUME NEW d \in Device
  PROVE  /\ DisconnectAllMedia(d) \in Device /\ ClosesMedia(d, DisconnectAllMedia(d))
         /\ DisconnectAllMedia(d).media # "connected"
<1>1. CASE d.media \in {"paging", "paged"}
  <2> DEFINE e == [d EXCEPT !.media = "disconnect_pending"]
  <2>1. DisconnectAllMedia(d) = e
    BY <1>1 DEF DisconnectAllMedia
  <2>2. e \in Device /\ e.media = "disconnect_pending"
    BY DEF Device, LinkState
  <2>3. ClosesMedia(d, e)
    BY <1>1 DEF Device, ClosesMedia
  <2> QED BY <2>1, <2>2, <2>3
<1>2. CASE d.media = "connected"
  <2>1. DisconnectAllMedia(d) = DisconnectMediaSink(d)
    BY <1>2 DEF DisconnectAllMedia
  <2> QED BY <1>2, <2>1, SinkCloses
<1>3. CASE d.media \notin {"paging", "paged", "connected"}
  <2>1. DisconnectAllMedia(d) = d
    BY <1>3 DEF DisconnectAllMedia
  <2> QED BY <1>3, <2>1 DEF ClosesMedia, MediaKept
<1> QED BY <1>1, <1>2, <1>3
LEMMA ClosesOutcome ==
  ASSUME NEW M, NEW b, NEW d, Outcome(b, d, M), NEW e \in Device, ClosesMedia(d, e),
         e.media # "connected", d.sig \in Joined => d.stream \notin MediaStreams
  PROVE  Outcome(b, e, M)
<1>1. LabelInStep(e) /\ Bounded(e)
  BY DEF Outcome, Sound, LabelInStep, Bounded, ClosesMedia
<1>2. /\ SettingUp(d) => e.stream = "idle"
      /\ d.addr = NoAddr => e.stream = "idle" /\ e.media = "idle"
      /\ e.media \in MediaKept => d.media \in MediaKept /\ e.mSink = d.mSink
  BY DEF Outcome, Sound, StreamAndMedia, Unused, ClosesMedia, MediaKept
<1> QED BY <1>1, <1>2, MediaOutcome DEF ClosesMedia

LEMMA ResetFields ==
  ASSUME NEW d \in Device
  PROVE  /\ StreamReset(d) \in Device
         /\ StreamReset(d).stream = "idle" /\ ~StreamReset(d).issued /\ ~StreamReset(d).received
         /\ \A f \in {"addr", "inCid", "sig", "sink", "linkloss", "rx", "sent", "media", "mSink", "out", "owed",
                     "manage", "expired", "ask"} :
               StreamReset(d)[f] = d[f]
         /\ "retry" \in d.timers => "retry" \in StreamReset(d).timers
<1> DEFINE t == d.timers \ {"clientRsp", "remoteCmd", "watchdog"}
           e == StreamReset(d)
<1>1. t \in SUBSET Timer /\ ("retry" \in d.timers => "retry" \in t)
  BY DEF Device
<1>2. 0 \in 0..MaxLabel
  BY LabelAssumption
<1>3. e = [d EXCEPT !.issued = FALSE, !.received = FALSE, !.label = 0, !.stream = "idle", !.timers = t]
  <2>1. "idle" \in Stable
    BY DEF Stable
  <2> QED BY <2>1 DEF StreamReset, SetStreamState, Device
<1> HIDE DEF t, e
<1>4. "idle" \in StreamState
  BY DEF StreamState, Stable
<1>5. e \in Device
  BY ZenonT(60), <1>1, <1>2, <1>3, <1>4 DEF Device
<1> QED BY <1>1, <1>3, <1>5 DEF Device, e

(* The stream is reset and its media channel taken down, in either order.  *)
LEMMA ResetClosesOutcome ==
  ASSUME NEW M, NEW b, NEW d, Outcome(b, d, M)
  PROVE  /\ Outcome(b, DisconnectAllMedia(StreamReset(d)), M)
         /\ Outcome(b, StreamReset(DisconnectAllMedia(d)), M)
<1>1. d \in Device
  BY OutcomeType
<1>2. "idle" \notin MediaStreams
  BY DEF MediaStreams
<1>3. Outcome(b, DisconnectAllMedia(StreamReset(d)), M)
  <2> DEFINE r == StreamReset(d)
             e == DisconnectAllMedia(r)
  <2>1. /\ r \in Device /\ r.stream = "idle" /\ ~r.issued
        /\ r.addr = d.addr /\ r.inCid = d.inCid /\ r.sig = d.sig /\ r.sink = d.sink
        /\ r.linkloss = d.linkloss /\ r.rx = d.rx /\ r.sent = d.sent /\ r.media = d.media
        /\ r.mSink = d.mSink /\ r.out = d.out
        /\ "retry" \in d.timers => "retry" \in r.timers
    BY <1>1, ResetFields
  <2>2. e \in Device /\ ClosesMedia(r, e) /\ e.media # "connected"
    BY <2>1, AllMediaCloses
  <2> HIDE DEF r, e
  <2>3. LabelInStep(e) /\ Bounded(e)
    BY <2>1, <2>2 DEF LabelInStep, Bounded, ClosesMedia, Outcome, Sound
  <2>4. d.addr = NoAddr => d.media = "idle"
    BY DEF Outcome, Sound, Unused
  <2>5. Outcome(b, e, M)
    BY <1>2, <2>1, <2>2, <2>3, <2>4, MediaOutcome DEF ClosesMedia, MediaKept
  <2> QED BY <2>5 DEF r, e
<1>4. Outcome(b, StreamReset(DisconnectAllMedia(d)), M)
  <2> DEFINE r == DisconnectAllMedia(d)
             e == StreamReset(r)
  <2>1. r \in Device /\ ClosesMedia(d, r) /\ r.media # "connected"
    BY <1>1, AllMediaCloses
  <2>2. /\ e \in Device /\ e.stream = "idle" /\ ~e.issued
        /\ e.addr = r.addr /\ e.inCid = r.inCid /\ e.sig = r.sig /\ e.sink = r.sink
        /\ e.linkloss = r.linkloss /\ e.rx = r.rx /\ e.sent = r.sent /\ e.media = r.media
        /\ e.mSink = r.mSink /\ e.out = r.out
        /\ "retry" \in r.timers => "retry" \in e.timers
    BY <2>1, ResetFields
  <2> HIDE DEF r, e
  <2>3. LabelInStep(e) /\ Bounded(e)
    BY <2>1, <2>2 DEF LabelInStep, Bounded, ClosesMedia, Outcome, Sound
  <2>4. d.addr = NoAddr => d.media = "idle"
    BY DEF Outcome, Sound, Unused
  <2>5. Outcome(b, e, M)
    BY <1>2, <2>1, <2>2, <2>3, <2>4, MediaOutcome DEF ClosesMedia, MediaKept
  <2> QED BY <2>5 DEF r, e
<1> QED BY <1>3, <1>4

LEMMA DropSignallingOutcome ==
  ASSUME NEW M, NEW b, NEW d, Outcome(b, d, M), d.sig \in Joined
  PROVE  Outcome(b, DisconnectSignalling(d), M)
<1> DEFINE o == [d.out EXCEPT !.drop = @ \cup {d.sink}]
           e == DisconnectSignalling(d)
<1>1. d \in Device /\ d.out \in Output /\ d.sink \in Ends
  BY OutcomeType DEF Device
<1>2. "disconnecting" \in LinkState /\ o \in Output /\ o.sdp = d.out.sdp /\ o.drop = d.out.drop \cup {d.sink}
  BY <1>1, OutputType DEF Output, LinkState
<1>3. e = [d EXCEPT !.sig = "disconnecting", !.out = o]
  BY <1>1 DEF DisconnectSignalling, Device
<1> HIDE DEF o, e
<1>4. e \in Device
  BY ZenonT(60), <1>1, <1>2, <1>3 DEF Device
<1>5. /\ e.addr = d.addr /\ e.inCid = d.inCid /\ e.sig = "disconnecting" /\ e.sink = d.sink
      /\ e.linkloss = d.linkloss /\ e.timers = d.timers /\ e.rx = d.rx /\ e.stream = d.stream
      /\ e.issued = d.issued /\ e.sent = d.sent /\ e.label = d.label
      /\ e.media = d.media /\ e.mSink = d.mSink /\ e.out = o
  BY <1>1, <1>3 DEF Device
<1>6. e.sig \in Joined /\ d.addr # NoAddr
  BY <1>5 DEF Joined, Outcome, Sound, Unused
<1>7. Sound(e, M)
  BY <1>2, <1>4, <1>5, <1>6 DEF Outcome, Sound, SinksOwned, StreamAndMedia, Unused, NoLoss, SettingUp,
     LabelInStep, Bounded, MediaKept
<1>8. Keeps(b, e) /\ e.rx = b.rx
  BY <1>5, <1>6 DEF Outcome, Keeps
<1> QED BY <1>7, <1>8 DEF Outcome, e

LEMMA PendingOutcome ==
  ASSUME NEW M, NEW b, NEW d, Outcome(b, d, M)
  PROVE  Outcome(b, SignallingDisconnectPending(d), M)
BY DropSignallingOutcome DEF SignallingDisconnectPending, Joined

LEMMA FinishAbortOutcome ==
  ASSUME NEW M, NEW b, NEW d, Outcome(b, d, M)
  PROVE  Outcome(b, FinishAbort(d), M)
<1> DEFINE r == StreamReset(d)
<1>1. CASE AnyMediaToDisconnect(r)
  BY <1>1, ResetClosesOutcome DEF FinishAbort
<1>2. CASE ~AnyMediaToDisconnect(r)
  <2>1. r.media = d.media
    BY OutcomeType, ResetFields
  <2>2. d.media # "connected"
    BY <1>2, <2>1 DEF AnyMediaToDisconnect
  <2>3. FinishAbort(d) = SignallingDisconnectPending(r)
    BY <1>2 DEF FinishAbort
  <2> QED BY <2>2, <2>3, ResetOutcome, PendingOutcome
<1> QED BY <1>1, <1>2
(***************************************************************************)
(* The stream's procedures.                                                *)
(***************************************************************************)
PreMedia == StreamState \ (MediaStreams \cup Behind)

LEMMA StreamNames ==
  /\ MediaStreams \subseteq StreamState /\ Behind \subseteq StreamState
  /\ {"idle", "discovering", "reading_caps", "processing_caps", "configuring", "configured",
      "local_opening", "remote_opening"} \subseteq PreMedia
  /\ MediaStreams \cap Behind = {} /\ "idle" \notin MediaStreams \cup Behind
BY DEF StreamState, Stable, MediaStreams, Behind, PreMedia

(* A stream that is not idle belongs to an established link. *)
LEMMA ActiveStream ==
  ASSUME NEW M, NEW b, NEW d, Outcome(b, d, M), d.stream # "idle" \/ d.sig \in Joined
  PROVE  ~SettingUp(d) /\ d.addr # NoAddr
BY DEF Outcome, Sound, StreamAndMedia, Unused, SettingUp, Joined

LEMMA NoMediaYet ==
  ASSUME NEW M, NEW b, NEW d, Outcome(b, d, M), d.stream \in PreMedia
  PROVE  d.media # "connected"
BY DEF Outcome, Sound, StreamAndMedia, PreMedia

LEMMA ToMediaStream ==
  ASSUME NEW M, NEW b, NEW d, Outcome(b, d, M), d.stream \in MediaStreams, NEW st \in MediaStreams
  PROVE  Outcome(b, SetStreamState(d, st), M)
<1>1. d.sig \in Joined => d.media = "connected"
  BY DEF Outcome, Sound, StreamAndMedia
<1>2. st \in StreamState /\ d.stream # "idle"
  BY StreamNames
<1> QED BY <1>1, <1>2, ActiveStream, StateOutcome

LEMMA ToBehindStream ==
  ASSUME NEW M, NEW b, NEW d, Outcome(b, d, M), d.stream # "idle", NEW st \in Behind
  PROVE  Outcome(b, SetStreamState(d, st), M)
<1>1. st \in StreamState \ MediaStreams
  BY StreamNames
<1> QED BY <1>1, ActiveStream, StateOutcome

LEMMA ToPreMedia ==
  ASSUME NEW M, NEW b, NEW d, Outcome(b, d, M), d.stream # "idle" \/ d.sig \in Joined,
         d.media # "connected", NEW st \in PreMedia
  PROVE  Outcome(b, SetStreamState(d, st), M)
<1>1. st \in StreamState \ MediaStreams
  BY DEF PreMedia
<1> QED BY <1>1, ActiveStream, StateOutcome

LEMMA StateFields ==
  ASSUME NEW d \in Device, NEW st
  PROVE  /\ SetStreamState(d, st).media = d.media /\ SetStreamState(d, st).sig = d.sig
         /\ SetStreamState(d, st).stream = st /\ SetStreamState(d, st).mSink = d.mSink
         /\ SetStreamState(d, st).addr = d.addr /\ SetStreamState(d, st).linkloss = d.linkloss
BY DEF SetStreamState, Device

LEMMA SendFields ==
  ASSUME NEW d \in Device, NEW c
  PROVE  /\ Send(d, c).media = d.media /\ Send(d, c).sig = d.sig
         /\ Send(d, c).stream = d.stream /\ Send(d, c).addr = d.addr
BY DEF Send, Device

LEMMA Commands ==
  {"discover", "get_capabilities", "set_configuration", "reconfigure", "open", "start",
   "close", "suspend", "abort", "delayreport"} \subseteq Issued
BY DEF Issued

LEMMA NextEndpointOutcome ==
  ASSUME NEW M, NEW b, NEW d, Outcome(b, d, M), d.media # "connected", d.stream # "idle", NEW pick
  PROVE  Outcome(b, NextEndpoint(d, pick), M)
<1>1. {"reading_caps", "configuring", "processing_caps"} \subseteq StreamState \ MediaStreams
  BY StreamNames DEF PreMedia
<1>2. CASE pick = "ask_caps"
  BY <1>1, <1>2, IssueOutcome, Commands DEF NextEndpoint
<1>3. CASE pick = "select"
  BY <1>1, <1>3, IssueOutcome, Commands DEF NextEndpoint
<1>4. CASE pick = "client"
  <2>1. Outcome(b, SetStreamState(d, "processing_caps"), M)
    BY StreamNames, ToPreMedia
  <2> QED BY <1>4, <2>1, AskOutcome DEF NextEndpoint, Question
<1>5. CASE pick \notin {"ask_caps", "select", "client"}
  BY <1>5, ResetOutcome, ConfirmOutcome DEF NextEndpoint
<1> QED BY <1>2, <1>3, <1>4, <1>5

LEMMA IssueOpenOutcome ==
  ASSUME NEW M, NEW b, NEW d, Outcome(b, d, M), d.media # "connected"
  PROVE  Outcome(b, IssueOpen(d), M)
<1>1. "local_opening" \in StreamState \ MediaStreams
  BY StreamNames DEF PreMedia
<1> QED BY <1>1, IssueOutcome, Commands DEF IssueOpen

LEMMA WaitOutcome ==
  ASSUME NEW M, NEW b, NEW d, Outcome(b, d, M), d.media # "connected", d.stream # "idle", NEW t \in Timer
  PROVE  Outcome(b, WaitWithTimer(d, t), M)
<1>1. Outcome(b, SetStreamState(d, "configured"), M)
  BY StreamNames, ToPreMedia
<1> QED BY <1>1, TimerOutcome DEF WaitWithTimer

LEMMA ContinueOutcome ==
  ASSUME NEW M, NEW b, NEW d, Outcome(b, d, M), d.media # "connected", d.stream # "idle", NEW pick
  PROVE  Outcome(b, ContinueConfigured(d, pick), M)
<1>1. {"clientRsp", "remoteCmd"} \subseteq Timer
  BY DEF Timer
<1>2. CASE pick = "client_delay"
  BY <1>1, <1>2, WaitOutcome DEF ContinueConfigured
<1>3. CASE pick = "remote_delay"
  BY <1>1, <1>3, WaitOutcome DEF ContinueConfigured
<1>4. CASE pick \notin {"client_delay", "remote_delay"}
  BY <1>4, IssueOpenOutcome DEF ContinueConfigured
<1> QED BY <1>2, <1>3, <1>4

LEMMA DelayReportOutcome ==
  ASSUME NEW M, NEW b, NEW d, Outcome(b, d, M)
  PROVE  Outcome(b, StreamDelayReport(d), M)
<1>1. CASE d.stream \notin DelayStates \/ d.sig # "connected"
  BY <1>1 DEF StreamDelayReport
<1>2. CASE ~(d.stream \notin DelayStates \/ d.sig # "connected") /\ CanSend(d, "delayreport")
  BY <1>2, SendOutcome, Commands DEF StreamDelayReport
<1>3. CASE ~(d.stream \notin DelayStates \/ d.sig # "connected") /\ ~CanSend(d, "delayreport")
  BY <1>3, FieldOutcome DEF StreamDelayReport
<1> QED BY <1>1, <1>2, <1>3
(* Responses of the remote device. *)
LEMMA MediaDisconnectOutcome ==
  ASSUME NEW M, NEW b, NEW d, Outcome(b, d, M), d.stream \notin MediaStreams
  PROVE  Outcome(b, MediaDisconnectReq(d), M)
<1>1. CASE d.media = "connected"
  <2> DEFINE e == DisconnectMediaSink(d)
  <2>1. e \in Device /\ ClosesMedia(d, e) /\ e.media # "connected"
    BY <1>1, OutcomeType, SinkCloses
  <2>2. MediaDisconnectReq(d) = e
    BY <1>1 DEF MediaDisconnectReq
  <2> HIDE DEF e
  <2> QED BY <2>1, <2>2, ClosesOutcome
<1>2. CASE d.media # "connected"
  BY <1>2 DEF MediaDisconnectReq
<1> QED BY <1>1, <1>2

LEMMA EstablishResponses ==
  ASSUME NEW M, NEW b, NEW d, Outcome(b, d, M), NEW p
  PROVE  /\ Outcome(b, DiscoverResponse(d, p), M)
         /\ Outcome(b, GetCapabilitiesResponse(d, p), M)
         /\ Outcome(b, SetConfigurationResponse(d, p), M)
         /\ Outcome(b, OpenResponse(d, p), M)
<1>1. Outcome(b, DiscoverResponse(d, p), M)
  <2>1. CASE d.stream # "discovering"
    BY <2>1 DEF DiscoverResponse
  <2>2. CASE d.stream = "discovering"
    <3>1. d.media # "connected" /\ "reading_caps" \in StreamState \ MediaStreams
      BY <2>2, StreamNames, NoMediaYet DEF PreMedia
    <3>2. Outcome(b, Issue(d, "get_capabilities", "reading_caps"), M)
      BY <3>1, IssueOutcome, Commands
    <3>3. Outcome(b, Confirm(StreamReset(d), "open"), M)
      BY <3>1, ResetOutcome, ConfirmOutcome
    <3> QED BY <2>2, <3>2, <3>3 DEF DiscoverResponse
  <2> QED BY <2>1, <2>2
<1>2. Outcome(b, GetCapabilitiesResponse(d, p), M)
  <2>1. CASE d.stream = "reading_caps"
    BY <2>1, StreamNames, NoMediaYet, NextEndpointOutcome DEF GetCapabilitiesResponse
  <2>2. CASE d.stream # "reading_caps"
    BY <2>2 DEF GetCapabilitiesResponse
  <2> QED BY <2>1, <2>2
<1>3. Outcome(b, SetConfigurationResponse(d, p), M)
  <2>1. CASE d.stream # "configuring"
    BY <2>1 DEF SetConfigurationResponse
  <2>2. CASE d.stream = "configuring"
    <3> DEFINE e == [d EXCEPT !.localSep = TRUE]
    <3>1. d.media # "connected"
      BY <2>2, StreamNames, NoMediaYet
    <3>2. Outcome(b, e, M)
      BY FieldOutcome
    <3>3. e.media = d.media /\ e.stream = d.stream
      BY OutcomeType DEF Device
    <3> HIDE DEF e
    <3>4. Outcome(b, ContinueConfigured(e, p.pick), M)
      BY <2>2, <3>1, <3>2, <3>3, ContinueOutcome
    <3>5. Outcome(b, NextEndpoint(d, p.pick), M)
      BY <2>2, <3>1, NextEndpointOutcome
    <3> QED BY <2>2, <3>4, <3>5 DEF SetConfigurationResponse, e
  <2> QED BY <2>1, <2>2
<1>4. Outcome(b, OpenResponse(d, p), M)
  BY MediaConnectOutcome, AbortOutcome, ConfirmOutcome DEF OpenResponse
<1> QED BY <1>1, <1>2, <1>3, <1>4

LEMMA CloseStreams ==
  /\ CloseStates \subseteq MediaStreams \cup Behind
  /\ CloseStates \ {"remote_closing", "local_closing"} \subseteq MediaStreams
  /\ "idle" \notin CloseStates
BY DEF CloseStates, MediaStreams, Behind

LEMMA StreamResponses ==
  ASSUME NEW M, NEW b, NEW d, Outcome(b, d, M), NEW p
  PROVE  /\ Outcome(b, ReconfigureResponse(d), M)
         /\ Outcome(b, StartResponse(d, p), M)
         /\ Outcome(b, SuspendResponse(d, p), M)
         /\ Outcome(b, CloseResponse(d, p), M)
         /\ Outcome(b, DelayReportResponse(d, p), M)
<1>1. {"open", "local_starting", "streaming", "local_suspending", "reconfiguring"} \subseteq MediaStreams
  BY DEF MediaStreams
<1>2. Outcome(b, ReconfigureResponse(d), M)
  BY <1>1, ToMediaStream DEF ReconfigureResponse
<1>3. Outcome(b, StartResponse(d, p), M)
  <2>1. CASE d.stream \notin {"open", "local_starting", "streaming"}
    BY <2>1 DEF StartResponse
  <2>2. CASE d.stream \in {"open", "local_starting", "streaming"}
    <3>1. Outcome(b, SetStreamState(d, "streaming"), M) /\ Outcome(b, SetStreamState(d, "open"), M)
      BY <1>1, <2>2, ToMediaStream
    <3> QED BY <2>2, <3>1 DEF StartResponse
  <2> QED BY <2>1, <2>2
<1>4. Outcome(b, SuspendResponse(d, p), M)
  <2>1. CASE d.stream \notin {"local_suspending", "open"}
    BY <2>1 DEF SuspendResponse
  <2>2. CASE d.stream \in {"local_suspending", "open"}
    <3>1. Outcome(b, SetStreamState(d, "streaming"), M) /\ Outcome(b, SetStreamState(d, "open"), M)
      BY <1>1, <2>2, ToMediaStream
    <3> QED BY <2>2, <3>1 DEF SuspendResponse
  <2> QED BY <2>1, <2>2
<1>5. Outcome(b, CloseResponse(d, p), M)
  <2>1. CASE d.stream \notin CloseStates
    BY <2>1 DEF CloseResponse
  <2>2. CASE d.stream \in CloseStates /\ p.type = "accept"
    <3> DEFINE e == SetStreamState(d, "local_closing")
    <3>1. Outcome(b, e, M)
      BY <2>2, CloseStreams, ToBehindStream DEF Behind
    <3>2. e.stream \notin MediaStreams
      BY OutcomeType, StateFields DEF MediaStreams
    <3> HIDE DEF e
    <3>3. Outcome(b, MediaDisconnectReq(e), M)
      BY <3>1, <3>2, MediaDisconnectOutcome
    <3> QED BY <2>2, <3>3 DEF CloseResponse, e
  <2>3. CASE d.stream \in CloseStates /\ p.type # "accept"
    BY <2>3, AbortOutcome DEF CloseResponse
  <2> QED BY <2>1, <2>2, <2>3
<1>6. Outcome(b, DelayReportResponse(d, p), M)
  <2>1. CASE d.stream = "configured"
    <3>1. Outcome(b, IssueOpen(d), M)
      BY <2>1, StreamNames, NoMediaYet, IssueOpenOutcome
    <3>2. Outcome(b, Confirm(StreamAbort(d), "open"), M)
      BY AbortOutcome, ConfirmOutcome
    <3> QED BY <2>1, <3>1, <3>2 DEF DelayReportResponse
  <2>2. CASE d.stream = "streaming"
    <3>1. Outcome(b, StreamDelayReport([d EXCEPT !.delayPending = FALSE]), M)
      BY FieldOutcome, DelayReportOutcome
    <3> QED BY <2>2, <3>1 DEF DelayReportResponse
  <2>3. CASE d.stream \notin {"configured", "streaming"}
    BY <2>3 DEF DelayReportResponse
  <2> QED BY <2>1, <2>2, <2>3
<1> QED BY <1>2, <1>3, <1>4, <1>5, <1>6

LEMMA ResponseOutcome ==
  ASSUME NEW M, NEW b, NEW d, Outcome(b, d, M), NEW p, p.sig \in Issued
  PROVE  Outcome(b, HandleReceiveResponse(d, p), M)
<1>1. CASE Mismatch(d, p)
  BY <1>1 DEF HandleReceiveResponse
<1>2. CASE ~Mismatch(d, p)
  <2> DEFINE e == [d EXCEPT !.issued = FALSE]
  <2>1. Outcome(b, e, M)
    BY FieldOutcome
  <2>2. HandleReceiveResponse(d, p) = ResponseTo(e, p)
    BY <1>2 DEF HandleReceiveResponse
  <2> HIDE DEF e
  <2>3. Outcome(b, ResponseTo(e, p), M)
    <3>1. CASE p.sig \in {"discover", "get_capabilities", "set_configuration", "open"}
      BY <2>1, <3>1, EstablishResponses DEF ResponseTo
    <3>2. CASE p.sig \in {"reconfigure", "start", "suspend", "close", "delayreport"}
      BY <2>1, <3>2, StreamResponses DEF ResponseTo
    <3>3. CASE p.sig = "abort"
      BY <2>1, <3>3, FinishAbortOutcome DEF ResponseTo
    <3> QED BY <3>1, <3>2, <3>3 DEF Issued
  <2> QED BY <2>2, <2>3
<1> QED BY <1>1, <1>2
(* Commands of the remote device. *)
LEMMA ReplyOutcome ==
  ASSUME NEW M, NEW b, NEW d, Outcome(b, d, M)
  PROVE  /\ Outcome(b, Reply(d), M) /\ Outcome(b, Reject(d), M)
         /\ Reply(d).media = d.media /\ Reply(d).stream = d.stream /\ Reply(d).sig = d.sig
<1>1. Reply(d).media = d.media /\ Reply(d).stream = d.stream /\ Reply(d).sig = d.sig
  BY OutcomeType DEF Reply, Device
<1> QED BY <1>1, FieldOutcome DEF Reply, Reject

LEMMA RejectOutcome ==
  ASSUME NEW M, NEW b, NEW d, Outcome(b, d, M), NEW p
  PROVE  /\ Outcome(b, ProcessGeneralReject(d, p), M)
         /\ Outcome(b, HandleBadHeader(d, p), M)
<1>1. {"open", "local_suspending"} \subseteq MediaStreams
  BY DEF MediaStreams
<1>2. Outcome(b, ProcessGeneralReject(d, p), M)
  <2>1. CASE Mismatch(d, p)
    BY <2>1 DEF ProcessGeneralReject
  <2>2. CASE ~Mismatch(d, p) /\ d.stream = "local_suspending"
    BY <1>1, <2>2, ToMediaStream DEF ProcessGeneralReject
  <2>3. CASE ~Mismatch(d, p) /\ d.stream # "local_suspending"
    BY <2>3, AbortOutcome DEF ProcessGeneralReject
  <2> QED BY <2>1, <2>2, <2>3
<1>3. Outcome(b, HandleBadHeader(d, p), M)
  BY FieldOutcome DEF HandleBadHeader
<1> QED BY <1>2, <1>3

LEMMA EstablishCommands ==
  ASSUME NEW M, NEW b, NEW d, Outcome(b, d, M), NEW p, d.sig \in Joined
  PROVE  /\ Outcome(b, SetConfigurationCommand(d, p), M)
         /\ Outcome(b, OpenCommand(d, p), M)
         /\ Outcome(b, DelayReportCommand(d), M)
<1>1. Outcome(b, SetConfigurationCommand(d, p), M)
  <2>1. CASE d.stream \in Configurable /\ p.pick = "good"
    <3> DEFINE e == [d EXCEPT !.localSep = FALSE]
    <3>1. d.media # "connected"
      BY <2>1, StreamNames, NoMediaYet DEF Configurable
    <3>2. Outcome(b, e, M)
      BY FieldOutcome
    <3>3. e.media = d.media /\ e.sig = d.sig
      BY OutcomeType DEF Device
    <3> HIDE DEF e
    <3>4. Outcome(b, SetStreamState(e, "configured"), M)
      BY <3>1, <3>2, <3>3, StreamNames, ToPreMedia
    <3> QED BY <2>1, <3>4, ReplyOutcome DEF SetConfigurationCommand, e
  <2>2. CASE ~(d.stream \in Configurable /\ p.pick = "good")
    BY <2>2, ReplyOutcome DEF SetConfigurationCommand
  <2> QED BY <2>1, <2>2
<1>2. Outcome(b, OpenCommand(d, p), M)
  <2>1. CASE d.stream = "configured" /\ p.pick = "good"
    <3>1. Outcome(b, SetStreamState(d, "remote_opening"), M)
      BY <2>1, StreamNames, NoMediaYet, ToPreMedia
    <3> QED BY <2>1, <3>1, AskOutcome DEF OpenCommand, Question
  <2>2. CASE ~(d.stream = "configured" /\ p.pick = "good")
    BY <2>2, ReplyOutcome DEF OpenCommand
  <2> QED BY <2>1, <2>2
<1>3. Outcome(b, DelayReportCommand(d), M)
  <2>1. CASE d.stream = "configured" /\ d.localSep
    <3>1. Outcome(b, Reply(d), M) /\ Reply(d).media # "connected"
      BY <2>1, StreamNames, NoMediaYet, ReplyOutcome
    <3> QED BY <2>1, <3>1, IssueOpenOutcome DEF DelayReportCommand
  <2>2. CASE ~(d.stream = "configured" /\ d.localSep)
    BY <2>2, ReplyOutcome DEF DelayReportCommand
  <2> QED BY <2>1, <2>2
<1> QED BY <1>1, <1>2, <1>3

LEMMA StreamCommands ==
  ASSUME NEW M, NEW b, NEW d, Outcome(b, d, M), NEW p
  PROVE  /\ Outcome(b, StartCommand(d, p), M)
         /\ Outcome(b, CloseCommand(d, p), M)
         /\ Outcome(b, SuspendCommand(d, p), M)
         /\ Outcome(b, AbortCommand(d, p), M)
<1>1. {"open", "local_starting", "remote_starting", "streaming", "local_suspending"} \subseteq MediaStreams
  BY DEF MediaStreams
<1>2. Outcome(b, StartCommand(d, p), M)
  <2>1. CASE d.stream \in {"open", "local_starting", "remote_starting"} /\ p.pick = "good"
    <3>1. Outcome(b, SetStreamState(d, "remote_starting"), M)
      BY <1>1, <2>1, ToMediaStream
    <3> QED BY <2>1, <3>1, AskOutcome DEF StartCommand, Question
  <2>2. CASE ~(d.stream \in {"open", "local_starting", "remote_starting"} /\ p.pick = "good")
    BY <2>2, ReplyOutcome DEF StartCommand
  <2> QED BY <2>1, <2>2
<1>3. Outcome(b, CloseCommand(d, p), M)
  <2>1. CASE d.stream \in CloseStates \ {"remote_closing", "local_closing"} /\ p.pick = "good"
    <3>1. Outcome(b, SetStreamState(d, "remote_closing"), M)
      BY <2>1, CloseStreams, ToBehindStream DEF Behind
    <3> QED BY <2>1, <3>1, ReplyOutcome DEF CloseCommand
  <2>2. CASE ~(d.stream \in CloseStates \ {"remote_closing", "local_closing"} /\ p.pick = "good")
    BY <2>2, ReplyOutcome DEF CloseCommand
  <2> QED BY <2>1, <2>2
<1>4. Outcome(b, SuspendCommand(d, p), M)
  <2>1. CASE d.stream \in {"streaming", "local_suspending"} /\ p.pick = "good"
    <3>1. Outcome(b, SetStreamState(d, "open"), M)
      BY <1>1, <2>1, ToMediaStream
    <3> QED BY <2>1, <3>1, ReplyOutcome DEF SuspendCommand
  <2>2. CASE ~(d.stream \in {"streaming", "local_suspending"} /\ p.pick = "good")
    BY <2>2, ReplyOutcome DEF SuspendCommand
  <2> QED BY <2>1, <2>2
<1>5. Outcome(b, AbortCommand(d, p), M)
  BY ReplyOutcome, ResetClosesOutcome DEF AbortCommand
<1> QED BY <1>2, <1>3, <1>4, <1>5

LEMMA CommandOutcome ==
  ASSUME NEW M, NEW b, NEW d, Outcome(b, d, M), NEW p, d.sig \in Joined
  PROVE  Outcome(b, HandleReceiveCommand(d, p), M)
<1> DEFINE r == [d EXCEPT !.received = TRUE]
<1>1. Outcome(b, r, M) /\ r.sig \in Joined
  <2>1. r.sig = d.sig
    BY OutcomeType DEF Device
  <2> QED BY <2>1, FieldOutcome
<1>2. HandleReceiveCommand(d, p) =
        CASE p.sig = "null"              -> ProcessGeneralReject(r, p)
          [] p.sig = "set_configuration" -> SetConfigurationCommand(r, p)
          [] p.sig = "open"              -> OpenCommand(r, p)
          [] p.sig = "start"             -> StartCommand(r, p)
          [] p.sig = "close"             -> CloseCommand(r, p)
          [] p.sig = "suspend"           -> SuspendCommand(r, p)
          [] p.sig = "abort"             -> AbortCommand(r, p)
          [] p.sig = "delayreport"       -> DelayReportCommand(r)
          [] OTHER                       -> Reply(r)
  BY DEF HandleReceiveCommand
<1> HIDE DEF r
<1>3. /\ Outcome(b, SetConfigurationCommand(r, p), M) /\ Outcome(b, OpenCommand(r, p), M)
      /\ Outcome(b, DelayReportCommand(r), M)
  BY <1>1, EstablishCommands
<1>4. /\ Outcome(b, StartCommand(r, p), M) /\ Outcome(b, CloseCommand(r, p), M)
      /\ Outcome(b, SuspendCommand(r, p), M) /\ Outcome(b, AbortCommand(r, p), M)
  BY <1>1, StreamCommands
<1>5. Outcome(b, ProcessGeneralReject(r, p), M) /\ Outcome(b, Reply(r), M)
  BY <1>1, RejectOutcome, ReplyOutcome
<1> QED BY <1>2, <1>3, <1>4, <1>5

(* handleSignalPacket: one packet is a command, a rejected header or a     *)
(* response.                                                               *)
LEMMA PacketOutcome ==
  ASSUME NEW M, NEW b, NEW d, Outcome(b, d, M), NEW p \in Received, d.sig \in Joined
  PROVE  Outcome(b, ProcessSignalPacket(d, p), M)
<1>1. CASE p.type = "command"
  BY <1>1, CommandOutcome DEF ProcessSignalPacket
<1>2. CASE p.type = "general"
  BY <1>2, RejectOutcome DEF ProcessSignalPacket
<1>3. CASE p.type \in {"accept", "reject"}
  <2>1. p.sig \in Issued
    BY <1>3 DEF Received
  <2> QED BY <1>3, <2>1, ResponseOutcome DEF ProcessSignalPacket
<1> QED BY <1>1, <1>2, <1>3 DEF Received, Packet
(***************************************************************************)
(* a2dpHandleSignalPacket: any number of packets, one after the other.     *)
(***************************************************************************)
LEMMA KeepsSelf == ASSUME NEW d PROVE Keeps(d, d)
BY DEF Keeps

LEMMA KeepsOn ==
  ASSUME NEW b, NEW d, NEW e, Keeps(b, d), Keeps(d, e)
  PROVE  Keeps(b, e)
BY DEF Keeps

LEMMA SourceSound ==
  ASSUME NEW M, NEW d, Sound(d, M), NEW r \in Seq(Received)
  PROVE  /\ Sound([d EXCEPT !.rx = r], M) /\ Keeps(d, [d EXCEPT !.rx = r])
         /\ [d EXCEPT !.rx = r].rx = r /\ [d EXCEPT !.rx = r].sig = d.sig
<1> DEFINE e == [d EXCEPT !.rx = r]
<1>1. d \in Device
  BY DEF Sound
<1>2. /\ e \in Device /\ e.addr = d.addr /\ e.inCid = d.inCid /\ e.sig = d.sig /\ e.sink = d.sink
      /\ e.media = d.media /\ e.mSink = d.mSink /\ e.stream = d.stream /\ e.linkloss = d.linkloss
      /\ e.timers = d.timers /\ e.out = d.out /\ e.rx = r
      /\ e.issued = d.issued /\ e.sent = d.sent /\ e.label = d.label
  BY ZenonT(60), <1>1 DEF Device
<1> HIDE DEF e
<1>3. Sound(e, M)
  BY <1>2 DEF Sound, SinksOwned, StreamAndMedia, Unused, NoLoss, SettingUp, LabelInStep, Bounded
<1>4. Keeps(d, e)
  BY <1>2 DEF Keeps
<1> QED BY <1>2, <1>3, <1>4 DEF e

(* The records after n packets of d's source. *)
ReadsOn(d, n, f) ==
  f = [i \in 0..n |-> IF i = 0 THEN [d EXCEPT !.rx = << >>] ELSE TakePacket(f[i - 1], d.rx[i])]

LEMMA ReadsExist ==
  ASSUME NEW d
  PROVE  \A n \in Nat : \E f : ReadsOn(d, n, f)
<1> DEFINE x == [d EXCEPT !.rx = << >>]
           T == {n \in Nat : \E f : ReadsOn(d, n, f)}
<1>1. 0 \in T
  <2> DEFINE f == [i \in 0..0 |-> x]
  <2>1. f = [i \in 0..0 |-> IF i = 0 THEN x ELSE TakePacket(f[i - 1], d.rx[i])]
    OBVIOUS
  <2>2. ReadsOn(d, 0, f)
    BY <2>1 DEF ReadsOn
  <2> QED BY <2>2
<1>2. ASSUME NEW n \in T PROVE n + 1 \in T
  <2>1. PICK f : ReadsOn(d, n, f)
    OBVIOUS
  <2> DEFINE y == TakePacket(f[n], d.rx[n + 1])
             g == [i \in 0..n + 1 |-> IF i <= n THEN f[i] ELSE y]
  <2>2. f = [i \in 0..n |-> IF i = 0 THEN x ELSE TakePacket(f[i - 1], d.rx[i])]
    BY <2>1 DEF ReadsOn
  <2>3. ASSUME NEW i \in 0..n + 1
        PROVE  g[i] = IF i = 0 THEN x ELSE TakePacket(g[i - 1], d.rx[i])
    <3> HIDE DEF x
    <3>1. CASE i <= n
      <4>1. i \in 0..n /\ g[i] = f[i] /\ (i # 0 => g[i - 1] = f[i - 1])
        BY <3>1
      <4> HIDE DEF g
      <4> QED BY <4>1, <2>2
    <3>2. CASE i = n + 1
      <4>1. i # 0 /\ g[i] = y /\ g[i - 1] = f[n] /\ d.rx[i] = d.rx[n + 1]
        BY <3>2
      <4> HIDE DEF g
      <4> QED BY <4>1
    <3> QED BY <3>1, <3>2
  <2>4. g = [i \in 0..n + 1 |-> IF i = 0 THEN x ELSE TakePacket(g[i - 1], d.rx[i])]
    <3> HIDE DEF x, y
    <3> DEFINE h == [i \in 0..n + 1 |-> IF i = 0 THEN x ELSE TakePacket(g[i - 1], d.rx[i])]
    <3>1. \A i \in 0..n + 1 : g[i] = h[i]
      BY <2>3
    <3> QED BY <3>1
  <2> HIDE DEF g
  <2>5. ReadsOn(d, n + 1, g)
    BY <2>4 DEF ReadsOn
  <2> QED BY <2>5
<1> HIDE DEF T
<1>3. T \subseteq Nat
  BY DEF T
<1>4. T = Nat
  BY <1>1, <1>2, <1>3, SetInduction
<1> QED BY <1>4 DEF T

LEMMA SignalReads ==
  ASSUME NEW d, Len(d.rx) \in Nat, d.version # "not_requested", SinkValid(d)
  PROVE  \E f : ReadsOn(d, Len(d.rx), f) /\ HandleSignalPacket(d) = f[Len(d.rx)]
<1> DEFINE f == CHOOSE f : f = [n \in 0..Len(d.rx) |->
                             IF n = 0 THEN [d EXCEPT !.rx = << >>] ELSE TakePacket(f[n - 1], d.rx[n])]
<1>1. ReadsOn(d, Len(d.rx), f)
  <2>1. \E g : g = [n \in 0..Len(d.rx) |->
                       IF n = 0 THEN [d EXCEPT !.rx = << >>] ELSE TakePacket(g[n - 1], d.rx[n])]
    BY ReadsExist DEF ReadsOn
  <2> HIDE DEF f
  <2>2. f = [n \in 0..Len(d.rx) |->
               IF n = 0 THEN [d EXCEPT !.rx = << >>] ELSE TakePacket(f[n - 1], d.rx[n])]
    BY <2>1 DEF f
  <2> QED BY <2>2 DEF ReadsOn
<1>2. HandleSignalPacket(d) = f[Len(d.rx)]
  BY Zenon DEF HandleSignalPacket
<1> QED BY <1>1, <1>2
LEMMA TakeKeeps ==
  ASSUME NEW M, NEW d, Sound(d, M), d.sig \in Joined, NEW p \in Received
  PROVE  /\ Sound(TakePacket(d, p), M) /\ Keeps(d, TakePacket(d, p))
         /\ TakePacket(d, p).sig \in Joined /\ Len(TakePacket(d, p).rx) <= Len(d.rx) + 1
<1>0. d \in Device /\ d.rx \in Seq(Received)
  BY DEF Sound, Device
<1>1. CASE d.rx # << >> \/ Deferred(d, p)
  <2> DEFINE r == Append(d.rx, p)
             e == [d EXCEPT !.rx = r]
  <2>1. r \in Seq(Received) /\ Len(r) <= Len(d.rx) + 1
    BY <1>0
  <2>2. TakePacket(d, p) = e
    BY <1>0, <1>1 DEF TakePacket, Device
  <2> HIDE DEF r
  <2> QED BY <2>1, <2>2, SourceSound
<1>2. CASE ~(d.rx # << >> \/ Deferred(d, p))
  <2> DEFINE e == ProcessSignalPacket(d, p)
  <2>1. TakePacket(d, p) = e
    BY <1>2 DEF TakePacket
  <2> HIDE DEF e
  <2>2. Outcome(d, d, M)
    BY KeepsSelf DEF Outcome
  <2>3. Sound(e, M) /\ Keeps(d, e) /\ e.rx = d.rx
    BY <2>2, PacketOutcome DEF Outcome, e
  <2>4. e.sig \in Joined /\ Len(e.rx) <= Len(d.rx) + 1
    BY <1>0, <2>3 DEF Keeps
  <2> QED BY <2>1, <2>3, <2>4
<1> QED BY <1>1, <1>2

(* What e is of b, with no more packets left than b had. *)
Reads(b, e, M) == Sound(e, M) /\ Keeps(b, e) /\ Len(e.rx) <= Len(b.rx)

LEMMA SourceReads ==
  ASSUME NEW M, NEW d, Sound(d, M)
  PROVE  Reads(d, HandleSignalPacket(d), M)
<1>0. d \in Device /\ d.rx \in Seq(Received) /\ Len(d.rx) \in Nat
  BY DEF Sound, Device
<1>1. CASE d.version = "not_requested" \/ ~SinkValid(d)
  BY <1>0, <1>1, KeepsSelf DEF HandleSignalPacket, Reads
<1>2. CASE ~(d.version = "not_requested" \/ ~SinkValid(d))
  <2>1. PICK f : ReadsOn(d, Len(d.rx), f) /\ HandleSignalPacket(d) = f[Len(d.rx)]
    BY <1>0, <1>2, SignalReads
  <2> DEFINE n == Len(d.rx)
             Good(i) == /\ Sound(f[i], M) /\ Keeps(d, f[i])
                        /\ f[i].sig \in Joined /\ Len(f[i].rx) <= i
             T == {i \in Nat : i <= n => Good(i)}
  <2>2. f = [i \in 0..n |-> IF i = 0 THEN [d EXCEPT !.rx = << >>] ELSE TakePacket(f[i - 1], d.rx[i])]
    BY <2>1 DEF ReadsOn
  <2>3. n \in Nat
    BY <1>0
  <2> HIDE DEF n
  <2>4. f[0] = [d EXCEPT !.rx = << >>] /\ \A i \in 1..n : f[i] = TakePacket(f[i - 1], d.rx[i])
    BY <2>2, <2>3
  <2>5. Good(0)
    <3>1. << >> \in Seq(Received) /\ Len(<< >>) = 0
      OBVIOUS
    <3>2. d.sig \in Joined
      BY <1>2 DEF SinkValid
    <3>3. f[0] = [d EXCEPT !.rx = << >>]
      BY <2>4
    <3> DEFINE z == << >>
    <3>4. z \in Seq(Received) /\ Len(z) = 0 /\ f[0] = [d EXCEPT !.rx = z]
      BY <3>1, <3>3
    <3> HIDE DEF z
    <3>5. /\ Sound([d EXCEPT !.rx = z], M) /\ Keeps(d, [d EXCEPT !.rx = z])
          /\ [d EXCEPT !.rx = z].sig = d.sig /\ [d EXCEPT !.rx = z].rx = z
      BY <1>0, <3>4, SourceSound DEF Device
    <3> QED BY <3>2, <3>4, <3>5
  <2>6. ASSUME NEW i \in T PROVE i + 1 \in T
    <3>1. SUFFICES ASSUME i + 1 <= n PROVE Good(i + 1)
      OBVIOUS
    <3>2. i \in Nat /\ Good(i)
      BY <2>3, <3>1
    <3> HIDE DEF T
    <3>3. f[i + 1] = TakePacket(f[i], d.rx[i + 1])
      <4>1. i + 1 \in 1..n /\ (i + 1) - 1 = i
        BY <2>3, <3>1, <3>2
      <4> QED BY <2>4, <4>1
    <3>4. d.rx[i + 1] \in Received
      BY <1>0, <2>3, <3>1, <3>2 DEF n
    <3>5. /\ Sound(f[i + 1], M) /\ Keeps(f[i], f[i + 1]) /\ f[i + 1].sig \in Joined
          /\ Len(f[i + 1].rx) <= Len(f[i].rx) + 1
      BY <3>2, <3>3, <3>4, TakeKeeps
    <3>6. Keeps(d, f[i + 1])
      BY <3>2, <3>5, KeepsOn
    <3>7. Len(f[i].rx) \in Nat /\ Len(f[i + 1].rx) \in Nat
      BY <3>2, <3>5 DEF Sound, Device
    <3>8. Len(f[i + 1].rx) <= i + 1
      BY <3>2, <3>5, <3>7
    <3> QED BY <3>5, <3>6, <3>8
  <2> HIDE DEF Good
  <2>7. T = Nat
    <3>1. T \subseteq Nat /\ 0 \in T
      BY <2>3, <2>5
    <3> HIDE DEF T
    <3> QED BY <2>6, <3>1, SetInduction
  <2>8. Good(n)
    BY <2>3, <2>7
  <2> QED BY <2>1, <2>8 DEF Good, Reads, n
<1> QED BY <1>1, <1>2
(***************************************************************************)
(* Requests and answers of the client, and timeouts.                       *)
(***************************************************************************)
LEMMA CloseOutcome ==
  ASSUME NEW M, NEW b, NEW d, Outcome(b, d, M), d.stream \in MediaStreams
  PROVE  Outcome(b, StreamClose(d), M) /\ StreamClose(d).sig = d.sig
<1> DEFINE e == Send(d, "close")
<1>1. Outcome(b, e, M)
  BY SendOutcome, Commands
<1>2. e.stream = d.stream /\ e.sig = d.sig
  BY OutcomeType, SendFields
<1>3. StreamClose(d) = SetStreamState(e, "local_closing")
  BY DEF StreamClose
<1>4. d.stream # "idle"
  BY StreamNames
<1> HIDE DEF e
<1>5. Outcome(b, SetStreamState(e, "local_closing"), M)
  BY <1>1, <1>2, <1>4, ToBehindStream DEF Behind
<1>6. SetStreamState(e, "local_closing").sig = e.sig
  BY <1>1, OutcomeType, StateFields
<1> QED BY <1>2, <1>3, <1>5, <1>6

LEMMA EstablishOutcome ==
  ASSUME NEW M, NEW b, NEW d, Outcome(b, d, M), NEW known
  PROVE  Outcome(b, StreamEstablish(d, known), M)
<1>1. CASE d.sig # "connected" \/ d.stream # "idle"
  BY <1>1 DEF StreamEstablish
<1>2. CASE d.sig = "connected" /\ d.stream = "idle" /\ ~known
  BY <1>2, AbortOutcome DEF StreamEstablish
<1>3. CASE d.sig = "connected" /\ d.stream = "idle" /\ known
  <2> DEFINE e == [d EXCEPT !.owed = @ \cup {"open"}]
  <2>1. Outcome(b, e, M)
    BY FieldOutcome
  <2>2. e.media = d.media
    BY OutcomeType DEF Device
  <2>3. d.media # "connected" /\ "discovering" \in StreamState \ MediaStreams
    BY <1>3, StreamNames, NoMediaYet DEF PreMedia
  <2>4. StreamEstablish(d, known) = Issue(e, "discover", "discovering")
    BY <1>3 DEF StreamEstablish
  <2> HIDE DEF e
  <2> QED BY <2>1, <2>2, <2>3, <2>4, IssueOutcome, Commands
<1> QED BY <1>1, <1>2, <1>3

LEMMA RequestOutcome ==
  ASSUME NEW M, NEW b, NEW d, Outcome(b, d, M), NEW from \in MediaStreams, NEW c \in Issued,
         NEW st \in MediaStreams
  PROVE  Outcome(b, RequestInState(d, from, c, st), M)
<1>1. CASE d.sig # "connected" \/ d.media # "connected" \/ d.stream # from
  BY <1>1 DEF RequestInState
<1>2. CASE ~(d.sig # "connected" \/ d.media # "connected" \/ d.stream # from) /\ CanSend(d, c)
  <2> DEFINE e == Send(d, c)
  <2>1. Outcome(b, e, M)
    BY SendOutcome
  <2>2. e.stream = d.stream
    BY OutcomeType, SendFields
  <2>3. RequestInState(d, from, c, st) = SetStreamState(e, st)
    BY <1>2 DEF RequestInState
  <2> HIDE DEF e
  <2> QED BY <1>2, <2>1, <2>2, <2>3, ToMediaStream
<1>3. CASE ~(d.sig # "connected" \/ d.media # "connected" \/ d.stream # from) /\ ~CanSend(d, c)
  BY <1>3, AbortOutcome DEF RequestInState
<1> QED BY <1>1, <1>2, <1>3

LEMMA RequestsOutcome ==
  ASSUME NEW M, NEW b, NEW d, Outcome(b, d, M)
  PROVE  /\ Outcome(b, StreamStart(d), M) /\ Outcome(b, StreamSuspend(d), M)
         /\ Outcome(b, StreamReconfigure(d), M) /\ Outcome(b, StreamRelease(d), M)
<1>1. {"open", "streaming", "local_starting", "local_suspending", "reconfiguring"} \subseteq MediaStreams
  BY DEF MediaStreams
<1>2. Outcome(b, StreamStart(d), M)
  BY <1>1, Commands, RequestOutcome DEF StreamStart
<1>3. Outcome(b, StreamSuspend(d), M)
  BY <1>1, Commands, RequestOutcome DEF StreamSuspend
<1>4. Outcome(b, StreamReconfigure(d), M)
  BY <1>1, Commands, RequestOutcome DEF StreamReconfigure
<1>5. Outcome(b, StreamRelease(d), M)
  <2>1. CASE d.stream \in CloseStates \ {"remote_closing", "local_closing"}
    BY <2>1, CloseStreams, CloseOutcome DEF StreamRelease
  <2>2. CASE d.stream \notin CloseStates \ {"remote_closing", "local_closing"}
    BY <2>2 DEF StreamRelease
  <2> QED BY <2>1, <2>2
<1> QED BY <1>2, <1>3, <1>4, <1>5

LEMMA AnswersOutcome ==
  ASSUME NEW M, NEW b, NEW d, Outcome(b, d, M), NEW accept, NEW pick
  PROVE  /\ Outcome(b, StreamOpenResponse(d, accept), M)
         /\ Outcome(b, StreamStartResponse(d, accept), M)
         /\ Outcome(b, CodecConfigureResponse(d, accept, pick), M)
<1>1. Outcome(b, StreamOpenResponse(d, accept), M)
  <2>1. CASE d.sig # "connected" \/ d.stream # "remote_opening"
    BY <2>1 DEF StreamOpenResponse
  <2>2. CASE d.sig = "connected" /\ d.stream = "remote_opening"
    <3>1. d.media # "connected"
      BY <2>2, StreamNames, NoMediaYet
    <3>2. Outcome(b, Reply(d), M) /\ Reply(d).media # "connected"
      BY <3>1, ReplyOutcome
    <3>3. Outcome(b, StreamReset(Reply(d)), M)
      BY <3>2, ResetOutcome
    <3> QED BY <2>2, <3>2, <3>3 DEF StreamOpenResponse
  <2> QED BY <2>1, <2>2
<1>2. Outcome(b, StreamStartResponse(d, accept), M)
  <2>1. CASE d.stream \notin Startable
    BY <2>1, ReplyOutcome DEF StreamStartResponse
  <2>2. CASE d.stream \in Startable
    <3>1. d.stream \in MediaStreams /\ {"streaming", "open"} \subseteq MediaStreams
      BY <2>2 DEF Startable, MediaStreams
    <3>2. Outcome(b, SetStreamState(d, "streaming"), M) /\ Outcome(b, SetStreamState(d, "open"), M)
      BY <3>1, ToMediaStream
    <3>3. Outcome(b, Reply(SetStreamState(d, "streaming")), M) /\ Outcome(b, Reject(SetStreamState(d, "open")), M)
      BY <3>2, ReplyOutcome
    <3> QED BY <2>2, <3>3 DEF StreamStartResponse
  <2> QED BY <2>1, <2>2
<1>3. Outcome(b, CodecConfigureResponse(d, accept, pick), M)
  <2>1. CASE d.stream # "processing_caps"
    BY <2>1 DEF CodecConfigureResponse
  <2>2. CASE d.stream = "processing_caps"
    <3>1. d.media # "connected" /\ "configuring" \in StreamState \ MediaStreams
      BY <2>2, StreamNames, NoMediaYet DEF PreMedia
    <3>2. Outcome(b, Issue(d, "set_configuration", "configuring"), M)
      BY <3>1, IssueOutcome, Commands
    <3>3. Outcome(b, NextEndpoint(d, pick), M)
      BY <2>2, <3>1, NextEndpointOutcome
    <3> QED BY <2>2, <3>2, <3>3 DEF CodecConfigureResponse
  <2> QED BY <2>1, <2>2
<1> QED BY <1>1, <1>2, <1>3

LEMMA TimeoutOutcome ==
  ASSUME NEW M, NEW b, NEW d, Outcome(b, d, M)
  PROVE  /\ Outcome(b, WatchdogTimeout(d), M) /\ Outcome(b, ClientRspTimeout(d), M)
         /\ Outcome(b, RemoteCmdTimeout(d), M) /\ Outcome(b, LinklossTimeout(d), M)
<1>1. Outcome(b, WatchdogTimeout(d), M)
  BY FinishAbortOutcome, AbortOutcome DEF WatchdogTimeout
<1>2. Outcome(b, ClientRspTimeout(d), M)
  BY SendOutcome, Commands DEF ClientRspTimeout
<1>3. Outcome(b, RemoteCmdTimeout(d), M)
  BY StreamNames, NoMediaYet, IssueOpenOutcome DEF RemoteCmdTimeout
<1>4. Outcome(b, LinklossTimeout(d), M)
  <2> DEFINE e == LinklossTimeout(d)
  <2>1. d \in Device
    BY OutcomeType
  <2>2. (d.expired \/ d.linkloss) \in BOOLEAN
    OBVIOUS
  <2>3. e \in Device /\ Alike(d, e) /\ e.issued = d.issued /\ e.sent = d.sent /\ e.label = d.label
    BY <2>1, <2>2 DEF Device, Alike, LinklossTimeout
  <2> HIDE DEF e
  <2>4. Outcome(b, e, M)
    BY <2>3, SameOutcome
  <2> QED BY <2>4 DEF e
<1> QED BY <1>1, <1>2, <1>3, <1>4

(* a2dpHandleSignallingDisconnectReq *)
LEMMA DisconnectReqOutcome ==
  ASSUME NEW M, NEW b, NEW d, Outcome(b, d, M)
  PROVE  Outcome(b, SignallingDisconnectReq(d), M)
<1> DEFINE r == [d EXCEPT !.manage = FALSE]
           Pending(e) == [e EXCEPT !.sig = "disconnect_pending"]
<1>1. Outcome(b, r, M)
  <2>1. d \in Device
    BY OutcomeType
  <2>2. r \in Device /\ Alike(d, r) /\ r.issued = d.issued /\ r.sent = d.sent /\ r.label = d.label
    BY ZenonT(60), <2>1 DEF Device, Alike
  <2> HIDE DEF r
  <2> QED BY <2>2, SameOutcome
<1>2. SignallingDisconnectReq(d) =
        CASE r.sig # "connected" -> r
          [] StreamClosable(r)   -> Pending(StreamClose(r))
          [] r.sig = "connected" /\ ~StreamClosable(r) /\ r.stream # "idle" -> Pending(StreamAbort(r))
          [] OTHER               -> DisconnectSignalling(r)
  BY DEF SignallingDisconnectReq
<1> HIDE DEF r
<1>3. ASSUME NEW x, Outcome(b, x, M), x.sig = "connected" PROVE Outcome(b, Pending(x), M)
  <2> DEFINE e == Pending(x)
  <2>1. x \in Device
    BY <1>3, OutcomeType
  <2>2. /\ e \in Device /\ e.addr = x.addr /\ e.inCid = x.inCid /\ e.sig = "disconnect_pending"
        /\ e.sink = x.sink /\ e.media = x.media /\ e.mSink = x.mSink /\ e.stream = x.stream
        /\ e.linkloss = x.linkloss /\ e.timers = x.timers /\ e.out = x.out /\ e.rx = x.rx
        /\ e.issued = x.issued /\ e.sent = x.sent /\ e.label = x.label
    BY <2>1 DEF Device, LinkState
  <2> HIDE DEF e
  <2>3. Sound(e, M)
    BY <1>3, <2>2 DEF Outcome, Sound, SinksOwned, StreamAndMedia, Unused, NoLoss, SettingUp, LabelInStep,
       Bounded, Joined
  <2>4. Keeps(b, e) /\ e.rx = b.rx
    BY <1>3, <2>2 DEF Outcome, Keeps, Joined
  <2> QED BY <2>3, <2>4 DEF Outcome, e
<1> HIDE DEF Pending
<1>4. CASE r.sig # "connected"
  <2>1. ~StreamClosable(r)
    BY <1>4 DEF StreamClosable
  <2> QED BY <1>1, <1>2, <1>4, <2>1
<1>5. CASE r.sig = "connected" /\ StreamClosable(r)
  <2>1. r.stream \in MediaStreams
    BY <1>5 DEF StreamClosable, MediaStreams
  <2>2. Outcome(b, StreamClose(r), M) /\ StreamClose(r).sig = "connected"
    BY <1>1, <1>5, <2>1, CloseOutcome
  <2> QED BY <1>2, <1>3, <1>5, <2>2
<1>6. CASE r.sig = "connected" /\ ~StreamClosable(r) /\ r.stream # "idle"
  <2>1. StreamAbort(r).sig = "connected"
    <3>1. Outcome(b, Send(r, "abort"), M) /\ Send(r, "abort").sig = r.sig
      BY <1>1, OutcomeType, SendOutcome, SendFields, Commands
    <3>2. SetStreamState(Send(r, "abort"), "local_aborting").sig = r.sig
      BY <3>1, OutcomeType, StateFields
    <3> QED BY <1>6, <3>2 DEF StreamAbort
  <2> QED BY <1>1, <1>2, <1>3, <1>6, <2>1, AbortOutcome
<1>7. CASE r.sig = "connected" /\ ~StreamClosable(r) /\ r.stream = "idle"
  BY <1>1, <1>2, <1>7, DropSignallingOutcome DEF Joined
<1> QED BY <1>4, <1>5, <1>6, <1>7
=============================================================================
