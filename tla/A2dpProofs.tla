----------------------------- MODULE A2dpProofs -----------------------------
(***************************************************************************)
(* The inductive invariant of the A2DP library and the safety properties   *)
(* that follow from it, for any number of records, channels and addresses, *)
(* any behaviour of the client, of the remote devices and of the radio     *)
(* link, and any bounds.                                                   *)
(***************************************************************************)
EXTENDS A2dpStreamProofs

(* Inbound channels not set up yet, and all the channels not set up yet.   *)
Inbound == {"ringing", "accepted", "refused"}
Pending == Inbound \cup {"requested", "calling"}

LiveOn(ch, a) == {c \in Chan : ch[c].addr = a /\ ch[c].st \in {"up", "lost", "closing"}}

(* Something other than the channels of X is under way to connect d.       *)
UnderWay(d, ch, X) ==
  \/ "retry" \in d.timers \/ d.out.call
  \/ \E c \in Chan \ X : ch[c].addr = d.addr /\ ch[c].st \in Pending

(* Where the record d stands with the channels: its media channel outlives *)
(* the signalling channel only while the loss of both is being indicated,  *)
(* and an attempt to connect belongs to a channel or to the retry timer.   *)
Placed(d, ch) ==
  /\ d.media = "connected" => ch[d.mSink].st # "closing" /\ (d.sig \in Joined \/ ch[d.mSink].st = "lost")
  /\ d.sig \in {"paged", "crossover"} =>
        d.inCid \in Chan /\ ch[d.inCid].addr = d.addr /\ ch[d.inCid].st \in Inbound
  /\ d.sig = "paging" => UnderWay(d, ch, {})
  /\ d.sig = "crossover" => UnderWay(d, ch, {d.inCid})

RecordOK(d, ch) == Sound(d, LiveOn(ch, d.addr)) /\ Placed(d, ch)

(* A lost link has no channel that is up, and a channel to nobody, which a *)
(* retry for a record that was removed requests, never comes up.           *)
ChannelsOK(ch) ==
  /\ ch \in [Chan -> [st : ChanState, addr : Addr \cup {NoAddr}]]
  /\ \A c, x \in Chan : ch[c].addr = ch[x].addr /\ ch[c].st = "lost" => ch[x].st # "up"
  /\ \A c \in Chan : ch[c].addr = NoAddr => ch[c].st \in {"free", "requested", "calling"}

AtRest(d) == d.out = NoOutput /\ Len(d.rx) <= MaxRx

Distinct(f) == \A s, t \in Slot : s # t /\ f[s].addr # NoAddr => f[s].addr # f[t].addr

Records(f, ch) ==
  /\ f \in [Slot -> Device] /\ Distinct(f)
  /\ \A s \in Slot : RecordOK(f[s], ch) /\ AtRest(f[s])

IInv ==
  /\ Records(dev, chan)
  /\ ChannelsOK(chan)
  /\ sdp \subseteq Addr
  /\ waiting \subseteq Slot \X Addr
  /\ panicked \in BOOLEAN

(***************************************************************************)
(* Records and channels.                                                   *)
(***************************************************************************)
(* What may happen to the channels of a without the record of a noticing.  *)
Follows(a, ch, ch2) ==
  \A c \in Chan : ch[c].addr = a /\ ch[c].st # "free" =>
     /\ ch2[c].addr = a
     /\ \/ ch2[c].st = ch[c].st
        \/ {ch[c].st, ch2[c].st} \subseteq Inbound
        \/ {ch[c].st, ch2[c].st} \subseteq {"requested", "calling"}
        \/ ch[c].st = "up" /\ ch2[c].st = "lost"

LEMMA Monotone ==
  ASSUME NEW d, NEW M, NEW N, M \subseteq N, Sound(d, M)
  PROVE  Sound(d, N)
BY DEF Sound, SinksOwned

LEMMA FollowsOK ==
  ASSUME NEW d, NEW ch, NEW ch2, RecordOK(d, ch), Follows(d.addr, ch, ch2)
  PROVE  RecordOK(d, ch2)
<1>1. LiveOn(ch, d.addr) \subseteq LiveOn(ch2, d.addr)
  BY DEF LiveOn, Follows, Inbound
<1>2. Sound(d, LiveOn(ch2, d.addr))
  BY <1>1, Monotone DEF RecordOK
<1>3. d.media = "connected" => d.mSink \in LiveOn(ch, d.addr)
  BY DEF RecordOK, Sound, SinksOwned, MediaKept
<1>4. d.media = "connected" => ch2[d.mSink].st # "closing" /\ (d.sig \in Joined \/ ch2[d.mSink].st = "lost")
  BY <1>3 DEF RecordOK, Placed, Follows, LiveOn, Inbound
<1>5. d.sig \in {"paged", "crossover"} =>
        d.inCid \in Chan /\ ch2[d.inCid].addr = d.addr /\ ch2[d.inCid].st \in Inbound
  BY DEF RecordOK, Placed, Follows, Inbound
<1>6. ASSUME NEW X, UnderWay(d, ch, X) PROVE UnderWay(d, ch2, X)
  <2>1. ASSUME NEW c \in Chan, ch[c].addr = d.addr, ch[c].st \in Pending
        PROVE  ch2[c].addr = d.addr /\ ch2[c].st \in Pending
    BY <2>1 DEF Follows, Pending, Inbound
  <2> QED BY <1>6, <2>1 DEF UnderWay
<1> QED BY <1>2, <1>4, <1>5, <1>6 DEF RecordOK, Placed

(* A record that is not in use has nothing to do with any channel.         *)
LEMMA UnusedOK ==
  ASSUME NEW d, NEW ch, NEW ch2, RecordOK(d, ch), d.addr = NoAddr, d.out.drop = {}
  PROVE  RecordOK(d, ch2)
<1>1. d.sig = "idle" /\ d.media = "idle"
  BY DEF RecordOK, Sound, Unused
<1> QED BY <1>1 DEF RecordOK, Sound, SinksOwned, StreamAndMedia, Placed, Joined, MediaKept

(* What the connection library does to one channel at the end of a step.   *)
LEMMA AppliedChannel ==
  ASSUME NEW ch, ChannelsOK(ch), NEW out, NEW c \in Chan
  PROVE  /\ Applied(ch, out)[c] \in [st : ChanState, addr : Addr \cup {NoAddr}]
         /\ Applied(ch, out)[c].addr = ch[c].addr
         /\ \/ Applied(ch, out)[c].st = ch[c].st
            \/ {ch[c].st, Applied(ch, out)[c].st} \subseteq Inbound
            \/ c \in out.drop /\ ch[c].st = "up" /\ Applied(ch, out)[c].st = "closing"
<1>1. ch[c] \in [st : ChanState, addr : Addr \cup {NoAddr}]
  BY DEF ChannelsOK
<1> DEFINE x == ch[c]
<1>2. Applied(ch, out)[c] = CASE x.st = "ringing" /\ c \in out.yes          -> [x EXCEPT !.st = "accepted"]
                              [] x.st = "ringing" /\ c \in out.no \ out.yes -> [x EXCEPT !.st = "refused"]
                              [] x.st = "up" /\ c \in out.drop              -> [x EXCEPT !.st = "closing"]
                              [] OTHER                                      -> x
  BY DEF Applied
<1> HIDE DEF x
<1>3. x \in [st : ChanState, addr : Addr \cup {NoAddr}]
  BY <1>1 DEF x
<1>4. CASE x.st = "ringing" /\ c \in out.yes
  BY <1>2, <1>3, <1>4 DEF x, Inbound, ChanState
<1>5. CASE x.st = "ringing" /\ c \in out.no \ out.yes
  BY <1>2, <1>3, <1>5 DEF x, Inbound, ChanState
<1>6. CASE x.st = "up" /\ c \in out.drop
  BY <1>2, <1>3, <1>6 DEF x, ChanState
<1>7. CASE ~(x.st = "ringing" /\ c \in out.yes) /\ ~(x.st = "ringing" /\ c \in out.no \ out.yes)
           /\ ~(x.st = "up" /\ c \in out.drop)
  BY <1>2, <1>3, <1>7 DEF x
<1> QED BY <1>4, <1>5, <1>6, <1>7

(* The channels after a step, ch being those after the event it handles.   *)
Emitted(ch, ch2, out, a) ==
  /\ \A c \in Chan : ch[c].st # "free" =>
        /\ ch2[c].addr = ch[c].addr
        /\ \/ ch2[c].st = ch[c].st
           \/ {ch[c].st, ch2[c].st} \subseteq Inbound
           \/ c \in out.drop /\ ch[c].st = "up" /\ ch2[c].st = "closing"
  /\ \A c \in Chan : ch[c].st = "free" =>
        \/ ch2[c].st = "free" /\ ch2[c].addr = ch[c].addr
        \/ ch2[c].st = "requested" /\ ch2[c].addr = a
  /\ out.call => \E c \in Chan : ch[c].st = "free" /\ ch2[c].st = "requested" /\ ch2[c].addr = a

LEMMA EmittedOK ==
  ASSUME NEW ch, NEW ch2, NEW out, NEW a, ChannelsOK(ch), Emitted(ch, ch2, out, a),
         ch2 \in [Chan -> [st : ChanState, addr : Addr \cup {NoAddr}]]
  PROVE  ChannelsOK(ch2)
<1>1. ASSUME NEW c \in Chan, NEW x \in Chan, ch2[c].addr = ch2[x].addr, ch2[c].st = "lost", ch2[x].st = "up"
      PROVE  FALSE
  <2>1. ch[c].st = "lost" /\ ch[x].st = "up" /\ ch[c].addr = ch[x].addr
    BY <1>1 DEF Emitted, Inbound
  <2> QED BY <2>1 DEF ChannelsOK
<1>2. ASSUME NEW c \in Chan, ch2[c].addr = NoAddr PROVE ch2[c].st \in {"free", "requested", "calling"}
  BY <1>2 DEF Emitted, ChannelsOK, Inbound
<1> QED BY <1>1, <1>2 DEF ChannelsOK

LEMMA EmitChannels ==
  ASSUME NEW s, NEW d \in Device, NEW ch, ChannelsOK(ch), Emit(s, d, ch)
  PROVE  Emitted(ch, chan', d.out, d.addr) /\ ChannelsOK(chan')
<1> DEFINE applied == Applied(ch, d.out)
           new == [st |-> "requested", addr |-> d.addr]
<1>1. /\ applied \in [Chan -> [st : ChanState, addr : Addr \cup {NoAddr}]]
      /\ \A c \in Chan : /\ applied[c].addr = ch[c].addr
                         /\ \/ applied[c].st = ch[c].st
                            \/ {ch[c].st, applied[c].st} \subseteq Inbound
                            \/ c \in d.out.drop /\ ch[c].st = "up" /\ applied[c].st = "closing"
  <2>1. applied = [c \in Chan |-> applied[c]]
    BY DEF Applied
  <2>2. \A c \in Chan : /\ applied[c] \in [st : ChanState, addr : Addr \cup {NoAddr}]
                        /\ applied[c].addr = ch[c].addr
                        /\ \/ applied[c].st = ch[c].st
                           \/ {ch[c].st, applied[c].st} \subseteq Inbound
                           \/ c \in d.out.drop /\ ch[c].st = "up" /\ applied[c].st = "closing"
    BY AppliedChannel
  <2> HIDE DEF applied
  <2> QED BY <2>1, <2>2
<1>2. new \in [st : ChanState, addr : Addr \cup {NoAddr}] /\ new.st = "requested" /\ new.addr = d.addr
  BY DEF Device, ChanState
<1>3. IF d.out.call THEN \E c \in Free(applied) : chan' = [applied EXCEPT ![c] = new] ELSE chan' = applied
  BY DEF Emit
<1> HIDE DEF applied, new
<1>4. CASE d.out.call
  <2>1. PICK c \in Free(applied) : chan' = [applied EXCEPT ![c] = new]
    BY <1>3, <1>4
  <2>2. c \in Chan /\ ch[c].st = "free"
    BY <1>1 DEF Free, Inbound
  <2>3. chan' \in [Chan -> [st : ChanState, addr : Addr \cup {NoAddr}]]
    BY <1>1, <1>2, <2>1, <2>2
  <2>4. chan'[c] = new /\ \A x \in Chan : x # c => chan'[x] = applied[x]
    BY <1>1, <2>1, <2>2
  <2>5. Emitted(ch, chan', d.out, d.addr)
    BY <1>1, <1>2, <2>2, <2>4 DEF Emitted, Inbound
  <2> QED BY <2>3, <2>5, EmittedOK
<1>5. CASE ~d.out.call
  <2>1. chan' = applied
    BY <1>3, <1>5
  <2>2. Emitted(ch, chan', d.out, d.addr)
    BY <1>1, <1>5, <2>1 DEF Emitted, Inbound
  <2> QED BY <1>1, <2>1, <2>2, EmittedOK
<1> QED BY <1>4, <1>5

(* The record a step leaves, once its output has been taken.               *)
LEMMA EmitOwn ==
  ASSUME NEW d, NEW ch, NEW ch2, RecordOK(d, ch), Emitted(ch, ch2, d.out, d.addr)
  PROVE  RecordOK([d EXCEPT !.out = NoOutput], ch2)
<1> DEFINE e == [d EXCEPT !.out = NoOutput]
           a == d.addr
<1>1. d \in Device /\ NoOutput \in Output
  BY DEF RecordOK, Sound, NoOutput, Output
<1>2. /\ e \in Device /\ e.out = NoOutput /\ e.addr = a /\ e.inCid = d.inCid
      /\ e.sig = d.sig /\ e.sink = d.sink /\ e.media = d.media /\ e.mSink = d.mSink /\ e.stream = d.stream
      /\ e.linkloss = d.linkloss /\ e.timers = d.timers
      /\ e.issued = d.issued /\ e.sent = d.sent /\ e.label = d.label
  BY ZenonT(60), <1>1 DEF Device
<1>3. NoOutput.drop = {} /\ NoOutput.sdp = FALSE /\ NoOutput.call = FALSE
  BY DEF NoOutput
<1> HIDE DEF e
<1>4. Sound(d, LiveOn(ch, a))
  BY DEF RecordOK
<1>5. LiveOn(ch, a) \subseteq LiveOn(ch2, a)
  BY DEF LiveOn, Emitted, Inbound
<1>6. Sound(e, LiveOn(ch2, a))
  <2>1. Sound(d, LiveOn(ch2, a))
    BY <1>4, <1>5, Monotone
  <2> QED BY <1>2, <1>3, <2>1 DEF Sound, SinksOwned, StreamAndMedia, Unused, NoLoss, SettingUp, LabelInStep, Bounded
<1>7. d.media = "connected" => ch2[d.mSink].st # "closing" /\ (d.sig \in Joined \/ ch2[d.mSink].st = "lost")
  <2>1. d.media = "connected" => d.mSink \in LiveOn(ch, a) /\ d.mSink \notin d.out.drop
    BY <1>4 DEF Sound, SinksOwned, MediaKept
  <2> QED BY <2>1 DEF RecordOK, Placed, LiveOn, Emitted, Inbound
<1>8. d.sig \in {"paged", "crossover"} =>
        d.inCid \in Chan /\ ch[d.inCid].st \in Inbound /\ ch2[d.inCid].addr = a /\ ch2[d.inCid].st \in Inbound
  BY DEF RecordOK, Placed, Emitted, Inbound
<1>9. ASSUME NEW X, \A c \in X \cap Chan : ch[c].st # "free", UnderWay(d, ch, X)
      PROVE  UnderWay(e, ch2, X)
  <2>1. CASE "retry" \in d.timers
    BY <1>2, <2>1 DEF UnderWay
  <2>2. CASE d.out.call
    <3>1. PICK c \in Chan : ch[c].st = "free" /\ ch2[c].st = "requested" /\ ch2[c].addr = a
      BY <2>2 DEF Emitted
    <3> QED BY <1>2, <1>9, <3>1 DEF UnderWay, Pending
  <2>3. CASE \E c \in Chan \ X : ch[c].addr = a /\ ch[c].st \in Pending
    <3>1. PICK c \in Chan \ X : ch[c].addr = a /\ ch[c].st \in Pending
      BY <2>3
    <3>2. ch2[c].addr = a /\ ch2[c].st \in Pending
      BY <3>1 DEF Emitted, Pending, Inbound
    <3> QED BY <1>2, <3>1, <3>2 DEF UnderWay
  <2> QED BY <1>9, <2>1, <2>2, <2>3 DEF UnderWay
<1>10. d.sig = "paging" => UnderWay(e, ch2, {})
  BY <1>9 DEF RecordOK, Placed
<1>11. d.sig = "crossover" => UnderWay(e, ch2, {d.inCid})
  BY <1>8, <1>9 DEF RecordOK, Placed, Inbound
<1>12. Placed(e, ch2)
  BY <1>2, <1>7, <1>8, <1>10, <1>11 DEF Placed
<1> QED BY <1>2, <1>6, <1>12 DEF RecordOK, e

LEMMA EmitOther ==
  ASSUME NEW d, NEW ch, NEW ch2, RecordOK(d, ch), AtRest(d), NEW out, NEW a, Emitted(ch, ch2, out, a),
         out.drop \subseteq LiveOn(ch, a), d.addr # NoAddr => d.addr # a
  PROVE  RecordOK(d, ch2)
<1>1. CASE d.addr = NoAddr
  <2>1. d.out.drop = {}
    BY DEF AtRest, NoOutput
  <2> QED BY <1>1, <2>1, UnusedOK
<1>2. CASE d.addr # a
  <2>1. Follows(d.addr, ch, ch2)
    BY <1>2 DEF Follows, Emitted, LiveOn
  <2> QED BY <2>1, FollowsOK
<1> QED BY <1>1, <1>2

(* A step that leaves one record with d and the others alone.              *)
LEMMA EmitRecords ==
  ASSUME NEW s \in Slot, NEW d, NEW ch, ChannelsOK(ch), Emit(s, d, ch), dev \in [Slot -> Device], Distinct(dev),
         RecordOK(d, ch), Len(d.rx) <= MaxRx,
         \A t \in Slot \ {s} : RecordOK(dev[t], ch) /\ AtRest(dev[t]),
         \A t \in Slot \ {s} : d.addr # NoAddr => dev[t].addr # d.addr
  PROVE  /\ Records(dev', chan') /\ ChannelsOK(chan')
         /\ dev'[s] = [d EXCEPT !.out = NoOutput] /\ \A t \in Slot \ {s} : dev'[t] = dev[t]
<1> DEFINE e == [d EXCEPT !.out = NoOutput]
<1>1. d \in Device /\ d.out.drop \subseteq LiveOn(ch, d.addr)
  BY DEF RecordOK, Sound, SinksOwned
<1>2. Emitted(ch, chan', d.out, d.addr) /\ ChannelsOK(chan')
  BY <1>1, EmitChannels
<1>3. RecordOK(e, chan')
  BY <1>2, EmitOwn
<1>4. NoOutput \in Output
  BY DEF NoOutput, Output
<1>5. e \in Device /\ e.out = NoOutput /\ e.addr = d.addr /\ e.rx = d.rx
  BY ZenonT(60), <1>1, <1>4 DEF Device
<1>6. dev' = [dev EXCEPT ![s] = e]
  BY DEF Emit
<1> HIDE DEF e
<1>7. dev' \in [Slot -> Device] /\ dev'[s] = e /\ \A t \in Slot \ {s} : dev'[t] = dev[t]
  BY <1>5, <1>6
<1>8. Distinct(dev')
  BY <1>5, <1>7 DEF Distinct
<1>9. ASSUME NEW t \in Slot PROVE RecordOK(dev'[t], chan') /\ AtRest(dev'[t])
  <2>1. CASE t = s
    BY <1>3, <1>5, <1>7, <2>1 DEF AtRest
  <2>2. CASE t # s
    <3>1. RecordOK(dev[t], ch) /\ AtRest(dev[t]) /\ (dev[t].addr # NoAddr => dev[t].addr # d.addr)
      BY <2>2
    <3>2. RecordOK(dev[t], chan')
      BY <1>1, <1>2, <3>1, EmitOther
    <3> QED BY <1>7, <2>2, <3>1, <3>2
  <2> QED BY <2>1, <2>2
<1> QED BY <1>2, <1>7, <1>8, <1>9 DEF Records, e

(***************************************************************************)
(* What a step makes of a record.                                          *)
(***************************************************************************)
Kept(d) == d.linkloss /\ d.manage /\ ~d.expired /\ d.media \notin Joined

Aborting(d) == d.stream = "local_aborting" /\ d.sig = "connected"

(* A record under link loss management stays, and an abort ends in idle    *)
(* where a step reads one packet at most.                                  *)
Allowed(d, e) ==
  /\ Kept(d) => e.addr = d.addr
  /\ MaxRx <= 1 /\ Aborting(d) => e.stream \in {"local_aborting", "idle"}

(* What a step may leave of the record d, with channels ch: it keeps the   *)
(* record's address or removes the record.                                 *)
Settles(d, e, ch) ==
  RecordOK(e, ch) /\ Len(e.rx) <= MaxRx /\ e.addr \in {d.addr, NoAddr} /\ Allowed(d, e)

(* The procedures of an established link keep the record's place.          *)
LEMMA ProcedureOK ==
  ASSUME NEW ch, NEW d, NEW e, RecordOK(d, ch), ~d.out.call, Reads(d, e, LiveOn(ch, d.addr))
  PROVE  RecordOK(e, ch) /\ e.addr = d.addr /\ Len(e.rx) <= Len(d.rx) /\ e.rx \in Seq(Received)
<1>1. /\ Sound(e, LiveOn(ch, d.addr)) /\ e.addr = d.addr /\ e.inCid = d.inCid
      /\ e.sig = d.sig \/ {d.sig, e.sig} \subseteq Joined
      /\ "retry" \in d.timers => "retry" \in e.timers
      /\ e.media = "connected" => d.media = "connected" /\ e.mSink = d.mSink
      /\ Len(e.rx) <= Len(d.rx)
  BY DEF Reads, Keeps
<1>2. \A X : UnderWay(d, ch, X) => UnderWay(e, ch, X)
  BY <1>1 DEF UnderWay
<1>3. Placed(e, ch)
  BY <1>1, <1>2 DEF RecordOK, Placed, Joined
<1>4. e.rx \in Seq(Received)
  BY <1>1 DEF Sound, Device
<1> QED BY <1>1, <1>3, <1>4 DEF RecordOK

LEMMA OutcomeReads ==
  ASSUME NEW M, NEW d, NEW e, Outcome(d, e, M)
  PROVE  Reads(d, e, M)
<1>1. Len(e.rx) \in Nat
  BY DEF Outcome, Sound, Device
<1> QED BY <1>1 DEF Outcome, Reads

LEMMA SelfOutcome ==
  ASSUME NEW ch, NEW d, RecordOK(d, ch)
  PROVE  Outcome(d, d, LiveOn(ch, d.addr))
BY KeepsSelf DEF Outcome, RecordOK

(* The same for a record at rest, whose rx and out are within bounds.      *)
LEMMA OutcomeSettles ==
  ASSUME NEW ch, NEW d, NEW e, RecordOK(d, ch), AtRest(d), Outcome(d, e, LiveOn(ch, d.addr)),
         MaxRx <= 1 /\ Aborting(d) => e.stream \in {"local_aborting", "idle"}
  PROVE  Settles(d, e, ch)
<1>1. ~d.out.call /\ Len(d.rx) <= MaxRx
  BY DEF AtRest, NoOutput
<1>2. Reads(d, e, LiveOn(ch, d.addr))
  BY OutcomeReads
<1>3. RecordOK(e, ch) /\ e.addr = d.addr
  BY <1>1, <1>2, ProcedureOK
<1>4. e.rx = d.rx
  BY DEF Outcome
<1> QED BY <1>1, <1>3, <1>4 DEF Settles, Allowed

(***************************************************************************)
(* An abort under way.                                                     *)
(***************************************************************************)
LEMMA FinishAbortStream ==
  ASSUME NEW d \in Device
  PROVE  FinishAbort(d).stream = "idle"
<1> DEFINE r == StreamReset(d)
<1>1. r \in Device /\ r.stream = "idle"
  BY ResetFields
<1>2. FinishAbort(d) = IF AnyMediaToDisconnect(r) THEN DisconnectAllMedia(r) ELSE SignallingDisconnectPending(r)
  BY DEF FinishAbort
<1> HIDE DEF r
<1>3. DisconnectAllMedia(r).stream = "idle"
  BY <1>1, AllMediaCloses DEF ClosesMedia
<1>4. SignallingDisconnectPending(r).stream = "idle"
  BY <1>1 DEF SignallingDisconnectPending, DisconnectSignalling, Device
<1> QED BY <1>2, <1>3, <1>4

LEMMA AbortStays ==
  ASSUME NEW d \in Device, d.stream = "local_aborting"
  PROVE  /\ StreamAbort(d) = d /\ StreamDelayReport(d) = d
         /\ Reply(d).stream = "local_aborting" /\ Reject(d).stream = "local_aborting"
         /\ \A q \in {"connect", "open"} : Confirm(d, q).stream = "local_aborting"
BY DEF StreamAbort, StreamDelayReport, DelayStates, Reply, Reject, Confirm, Device

LEMMA AbortedResponse ==
  ASSUME NEW d \in Device, d.stream = "local_aborting", NEW p, p.sig \in Issued
  PROVE  HandleReceiveResponse(d, p).stream \in {"local_aborting", "idle"}
<1> DEFINE e == [d EXCEPT !.issued = FALSE]
<1>1. e \in Device /\ e.stream = "local_aborting"
  BY ZenonT(60) DEF Device
<1>2. HandleReceiveResponse(d, p) = IF Mismatch(d, p) THEN d ELSE ResponseTo(e, p)
  BY DEF HandleReceiveResponse
<1> HIDE DEF e
<1>3. CASE p.sig \in {"discover", "get_capabilities", "set_configuration", "open"}
  <2>1. ResponseTo(e, p) = e
    BY <1>1, <1>3 DEF ResponseTo, DiscoverResponse, GetCapabilitiesResponse, SetConfigurationResponse, OpenResponse
  <2> QED BY <1>1, <1>2, <2>1
<1>4. CASE p.sig \in {"reconfigure", "start", "suspend", "close", "delayreport"}
  <2>1. ResponseTo(e, p) = e
    BY <1>1, <1>4 DEF ResponseTo, ReconfigureResponse, StartResponse, SuspendResponse, CloseResponse, CloseStates,
       DelayReportResponse
  <2> QED BY <1>1, <1>2, <2>1
<1>5. CASE p.sig = "abort"
  <2>1. ResponseTo(e, p) = FinishAbort(e)
    BY <1>5 DEF ResponseTo
  <2> QED BY <1>1, <1>2, <2>1, FinishAbortStream
<1> QED BY <1>3, <1>4, <1>5 DEF Issued

LEMMA AbortedCommand ==
  ASSUME NEW d \in Device, d.stream = "local_aborting", NEW p
  PROVE  HandleReceiveCommand(d, p).stream \in {"local_aborting", "idle"}
<1> DEFINE r == [d EXCEPT !.received = TRUE]
<1>1. r \in Device /\ r.stream = "local_aborting"
  BY ZenonT(60) DEF Device
<1>2. HandleReceiveCommand(d, p) =
        CASE p.sig = "null"              -> ProcessGeneralReject(r, p)
          [] p.sig = "set_configuration" -> SetConfigurationCommand(r, p)
          [] p.sig = "open"              -> OpenCommand(r, p)
          [] p.sig = "start"             -> StartCommand(r, p)
          [] p.sig = "close"             -> CloseCommand(r, p)
          [] p.sig = "suspend"           -> SuspendCommand(r, p)
          [] p.sig = "abort"             -> AbortCommand(r, p)
          [] p.sig = "delayreport"       -> DelayReportCommand(r)
          [] OTHER                       -> Reply(r)
  BY DEF HandleReceiveCommand
<1> HIDE DEF r
<1>3. Reply(r) \in Device /\ Reply(r).stream = "local_aborting"
  BY ZenonT(60), <1>1 DEF Reply, Device
<1>4. CASE p.sig = "null"
  <2>1. ProcessGeneralReject(r, p) = r
    BY <1>1, AbortStays DEF ProcessGeneralReject
  <2> QED BY <1>1, <1>2, <1>4, <2>1
<1>5. CASE p.sig \in {"set_configuration", "open", "start"}
  <2>1. SetConfigurationCommand(r, p) = Reply(r) /\ OpenCommand(r, p) = Reply(r) /\ StartCommand(r, p) = Reply(r)
    BY <1>1 DEF SetConfigurationCommand, Configurable, OpenCommand, StartCommand
  <2> QED BY <1>2, <1>3, <1>5, <2>1
<1>6. CASE p.sig \in {"close", "suspend", "delayreport"}
  <2>1. CloseCommand(r, p) = Reply(r) /\ SuspendCommand(r, p) = Reply(r) /\ DelayReportCommand(r) = Reply(r)
    BY <1>1 DEF CloseCommand, CloseStates, SuspendCommand, DelayReportCommand
  <2> QED BY <1>2, <1>3, <1>6, <2>1
<1>7. CASE p.sig = "abort"
  <2>1. DisconnectAllMedia(Reply(r)) \in Device
    BY <1>3, AllMediaCloses
  <2>2. StreamReset(DisconnectAllMedia(Reply(r))).stream = "idle"
    BY <2>1, ResetFields
  <2>3. AbortCommand(r, p) \in {StreamReset(DisconnectAllMedia(Reply(r))), r}
    BY DEF AbortCommand
  <2>4. AbortCommand(r, p).stream \in {"local_aborting", "idle"}
    BY <1>1, <2>2, <2>3
  <2> QED BY <1>2, <1>7, <2>4
<1>8. CASE p.sig \notin {"null", "set_configuration", "open", "start", "close", "suspend", "delayreport", "abort"}
  BY <1>2, <1>3, <1>8
<1> QED BY <1>4, <1>5, <1>6, <1>7, <1>8

LEMMA AbortedPacket ==
  ASSUME NEW d \in Device, d.stream = "local_aborting", NEW p \in Received
  PROVE  ProcessSignalPacket(d, p).stream \in {"local_aborting", "idle"}
<1>1. CASE p.type = "command"
  BY <1>1, AbortedCommand DEF ProcessSignalPacket
<1>2. CASE p.type = "general" /\ d.version = "v13"
  <2>1. ProcessGeneralReject(d, p) = d
    BY AbortStays DEF ProcessGeneralReject
  <2> QED BY <1>2, <2>1 DEF ProcessSignalPacket
<1>3. CASE p.type = "general" /\ d.version # "v13"
  <2>1. HandleBadHeader(d, p).stream = "local_aborting"
    BY DEF HandleBadHeader, Device
  <2> QED BY <1>3, <2>1 DEF ProcessSignalPacket
<1>4. CASE p.type \in {"accept", "reject"}
  <2>1. p.sig \in Issued
    BY <1>4 DEF Received
  <2> QED BY <1>4, <2>1, AbortedResponse DEF ProcessSignalPacket
<1> QED BY <1>1, <1>2, <1>3, <1>4 DEF Received, Packet

(* The source holds one packet at most: it is deferred or handled.         *)
LEMMA AbortedReads ==
  ASSUME NEW d \in Device, d.stream = "local_aborting", Len(d.rx) <= 1
  PROVE  HandleSignalPacket(d).stream \in {"local_aborting", "idle"}
<1>1. CASE d.version = "not_requested" \/ ~SinkValid(d)
  BY <1>1 DEF HandleSignalPacket
<1>2. CASE ~(d.version = "not_requested" \/ ~SinkValid(d))
  <2>1. d.rx \in Seq(Received) /\ Len(d.rx) \in Nat
    BY DEF Device
  <2>2. PICK f : ReadsOn(d, Len(d.rx), f) /\ HandleSignalPacket(d) = f[Len(d.rx)]
    BY <1>2, <2>1, SignalReads
  <2> DEFINE x == [d EXCEPT !.rx = << >>]
  <2>3. x \in Device /\ x.stream = "local_aborting" /\ x.rx = << >>
    <3>1. << >> \in Seq(Received)
      OBVIOUS
    <3> QED BY ZenonT(60), <3>1 DEF Device
  <2>4. f = [i \in 0..Len(d.rx) |-> IF i = 0 THEN x ELSE TakePacket(f[i - 1], d.rx[i])]
    BY <2>2 DEF ReadsOn
  <2> HIDE DEF x
  <2>5. f[0] = x
    BY <2>1, <2>4
  <2>6. CASE Len(d.rx) = 0
    BY <2>2, <2>3, <2>5, <2>6
  <2>7. CASE Len(d.rx) = 1
    <3> DEFINE p == d.rx[1]
    <3>1. p \in Received /\ f[1] = TakePacket(x, p)
      BY <2>1, <2>4, <2>5, <2>7
    <3> HIDE DEF p
    <3>2. ProcessSignalPacket(x, p).stream \in {"local_aborting", "idle"}
      BY <2>3, <3>1, AbortedPacket
    <3>3. [x EXCEPT !.rx = Append(@, p)].stream = "local_aborting"
      BY <2>3 DEF Device
    <3> DEFINE y == [x EXCEPT !.rx = Append(@, p)]
    <3>4. TakePacket(x, p) \in {y, ProcessSignalPacket(x, p)} /\ y.stream = "local_aborting"
      BY <3>3 DEF TakePacket
    <3> HIDE DEF y
    <3>5. TakePacket(x, p).stream \in {"local_aborting", "idle"}
      BY <3>2, <3>4
    <3> QED BY <2>2, <2>7, <3>1, <3>5
  <2>8. Len(d.rx) = 0 \/ Len(d.rx) = 1
    <3> DEFINE n == Len(d.rx)
    <3>1. n \in Nat /\ n <= 1
      BY <2>1
    <3> HIDE DEF n
    <3>2. n = 0 \/ n = 1
      BY <3>1
    <3> QED BY <3>2 DEF n
  <2> QED BY <2>6, <2>7, <2>8
<1> QED BY <1>1, <1>2

LEMMA AbortedRequests ==
  ASSUME NEW d \in Device, d.stream = "local_aborting", NEW accept, NEW pick
  PROVE  /\ StreamEstablish(d, accept) = d
         /\ StreamStart(d) = d /\ StreamSuspend(d) = d /\ StreamReconfigure(d) = d
         /\ StreamRelease(d) = d /\ StreamDelayReport(d) = d
         /\ StreamOpenResponse(d, accept) = d
         /\ StreamStartResponse(d, accept) = Reject(d)
         /\ CodecConfigureResponse(d, accept, pick) = d
BY DEF StreamEstablish, StreamStart, StreamSuspend, StreamReconfigure, RequestInState, StreamRelease, CloseStates,
   StreamDelayReport, DelayStates, StreamOpenResponse, StreamStartResponse, Startable, CodecConfigureResponse

LEMMA AbortedTimeouts ==
  ASSUME NEW d \in Device, d.stream = "local_aborting"
  PROVE  /\ WatchdogTimeout(d).stream = "idle"
         /\ ClientRspTimeout(d) = d /\ RemoteCmdTimeout(d) = d
         /\ LinklossTimeout(d).stream = "local_aborting"
<1>1. WatchdogTimeout(d).stream = "idle"
  BY FinishAbortStream DEF WatchdogTimeout
<1>2. ClientRspTimeout(d) = d /\ RemoteCmdTimeout(d) = d
  BY DEF ClientRspTimeout, RemoteCmdTimeout
<1>3. LinklossTimeout(d).stream = "local_aborting"
  BY DEF LinklossTimeout, Device
<1> QED BY <1>1, <1>2, <1>3

LEMMA AbortedDisconnectReq ==
  ASSUME NEW d \in Device, Aborting(d)
  PROVE  SignallingDisconnectReq(d).stream = "local_aborting"
<1> DEFINE r == [d EXCEPT !.manage = FALSE]
<1>1. r \in Device /\ r.stream = "local_aborting" /\ r.sig = "connected"
  BY ZenonT(60) DEF Device, Aborting
<1>2. SignallingDisconnectReq(d) =
        CASE r.sig # "connected" -> r
          [] StreamClosable(r)   -> [StreamClose(r) EXCEPT !.sig = "disconnect_pending"]
          [] r.sig = "connected" /\ ~StreamClosable(r) /\ r.stream # "idle" ->
                 [StreamAbort(r) EXCEPT !.sig = "disconnect_pending"]
          [] OTHER               -> DisconnectSignalling(r)
  BY DEF SignallingDisconnectReq
<1> HIDE DEF r
<1>3. ~StreamClosable(r) /\ StreamAbort(r) = r
  BY <1>1 DEF StreamClosable, StreamAbort
<1>4. SignallingDisconnectReq(d) = [r EXCEPT !.sig = "disconnect_pending"]
  BY <1>1, <1>2, <1>3
<1> QED BY <1>1, <1>4 DEF Device

(***************************************************************************)
(* What the steps do to a record before they call its handler.             *)
(***************************************************************************)
LEMMA AskedOutcome ==
  ASSUME NEW M, NEW b, NEW d, Outcome(b, d, M), NEW A \in SUBSET d.ask
  PROVE  Outcome(b, [d EXCEPT !.ask = A], M)
<1> DEFINE e == [d EXCEPT !.ask = A]
<1>1. d \in Device
  BY OutcomeType
<1>2. e \in Device /\ Alike(d, e) /\ e.issued = d.issued /\ e.sent = d.sent /\ e.label = d.label
  BY ZenonT(60), <1>1 DEF Device, Alike
<1> HIDE DEF e
<1> QED BY <1>2, SameOutcome DEF e

LEMMA ManageOutcome ==
  ASSUME NEW M, NEW b, NEW d, Outcome(b, d, M), NEW v \in BOOLEAN
  PROVE  Outcome(b, [d EXCEPT !.manage = v], M)
<1> DEFINE e == [d EXCEPT !.manage = v]
<1>1. d \in Device
  BY OutcomeType
<1>2. e \in Device /\ Alike(d, e) /\ e.issued = d.issued /\ e.sent = d.sent /\ e.label = d.label
  BY ZenonT(60), <1>1 DEF Device, Alike
<1> HIDE DEF e
<1> QED BY <1>2, SameOutcome DEF e

LEMMA ExpiredOutcome ==
  ASSUME NEW M, NEW b, NEW d, Outcome(b, d, M), NEW t \in Timer \ {"retry"}
  PROVE  Outcome(b, [d EXCEPT !.timers = @ \ {t}], M)
<1> DEFINE e == [d EXCEPT !.timers = @ \ {t}]
<1>1. d \in Device
  BY OutcomeType
<1>2. d.timers \ {t} \in SUBSET Timer /\ ("retry" \in d.timers => "retry" \in d.timers \ {t})
  BY <1>1 DEF Device
<1>3. e \in Device /\ Alike(d, e) /\ e.issued = d.issued /\ e.sent = d.sent /\ e.label = d.label
  BY <1>1, <1>2 DEF Device, Alike
<1> HIDE DEF e
<1> QED BY <1>3, SameOutcome DEF e

(* Answers are given in order: what is left to answer ends the same way.   *)
LEMMA SentOutcome ==
  ASSUME NEW M, NEW b, NEW d, Outcome(b, d, M), NEW i \in 1..Len(d.sent)
  PROVE  Outcome(b, [d EXCEPT !.sent = SubSeq(@, i + 1, Len(@))], M)
<1> DEFINE n == Len(d.sent)
           s == SubSeq(d.sent, i + 1, n)
           e == [d EXCEPT !.sent = s]
<1>1. d \in Device /\ d.sent \in Seq(SentCommand)
  BY OutcomeType DEF Device
<1>2. n \in Nat /\ i \in 1..n /\ n <= MaxSent /\ MaxSent \in Nat
  BY <1>1, LabelAssumption DEF Outcome, Sound, Bounded
<1>3. /\ s \in Seq(SentCommand) /\ Len(s) <= n
      /\ s # << >> => d.sent # << >> /\ s[Len(s)] = d.sent[n]
  <2>1. CASE i = n
    <3>1. s = << >>
      BY <1>1, <1>2, <2>1
    <3>2. << >> \in Seq(SentCommand) /\ Len(<< >>) = 0
      OBVIOUS
    <3>3. Len(s) = 0 /\ s \in Seq(SentCommand)
      BY <3>1, <3>2
    <3> HIDE DEF n, s
    <3> QED BY <1>2, <3>1, <3>3
  <2>2. CASE i < n
    <3>1. s \in Seq(SentCommand) /\ Len(s) = n - i /\ s[n - i] = d.sent[n]
      BY <1>1, <1>2, <2>2
    <3>2. d.sent # << >>
      BY <1>2, <2>2
    <3> HIDE DEF s, n
    <3>3. n - i <= n
      BY <1>2
    <3>4. Len(s) <= n /\ s[Len(s)] = d.sent[n] /\ s \in Seq(SentCommand)
      BY <3>1, <3>3, Zenon
    <3> QED BY <3>2, <3>4
  <2>3. i = n \/ i < n
    <3> HIDE DEF n
    <3> QED BY <1>2
  <2> QED BY <2>1, <2>2, <2>3, Zenon
<1> HIDE DEF n, s
<1>4. e \in Device /\ Alike(d, e) /\ e.sent = s /\ e.issued = d.issued /\ e.label = d.label
  BY ZenonT(60), <1>1, <1>3 DEF Device, Alike
<1> HIDE DEF e
<1>5. LabelInStep(e)
  BY <1>3, <1>4 DEF LabelInStep, n, Outcome, Sound
<1>6. Len(s) \in Nat
  BY <1>3
<1>7. Bounded(e)
  BY <1>2, <1>3, <1>4, <1>6 DEF Bounded
<1> QED BY <1>4, <1>5, <1>7, AlikeOutcome DEF e, s, n

(* What is asked of the connection library, other than to take down.       *)
LEMMA OutOutcome ==
  ASSUME NEW M, NEW b, NEW d, Outcome(b, d, M), NEW o \in Output, o.drop = d.out.drop,
         d.addr = NoAddr => ~o.sdp
  PROVE  Outcome(b, [d EXCEPT !.out = o], M)
<1> DEFINE e == [d EXCEPT !.out = o]
<1>1. d \in Device
  BY OutcomeType
<1>2. /\ e \in Device /\ e.out = o /\ e.addr = d.addr /\ e.inCid = d.inCid /\ e.rx = d.rx
      /\ e.sig = d.sig /\ e.sink = d.sink /\ e.media = d.media /\ e.mSink = d.mSink /\ e.stream = d.stream
      /\ e.linkloss = d.linkloss /\ e.timers = d.timers
      /\ e.issued = d.issued /\ e.sent = d.sent /\ e.label = d.label
  BY ZenonT(60), <1>1 DEF Device
<1> HIDE DEF e
<1>3. Sound(e, M)
  BY <1>2 DEF Outcome, Sound, SinksOwned, StreamAndMedia, Unused, NoLoss, SettingUp, LabelInStep, Bounded
<1>4. Keeps(b, e) /\ e.rx = b.rx
  BY <1>2 DEF Outcome, Keeps
<1> QED BY <1>3, <1>4 DEF Outcome, e

LEMMA RefuseOutcome ==
  ASSUME NEW M, NEW b, NEW d, Outcome(b, d, M), NEW c \in Ends
  PROVE  Outcome(b, Refuse(d, c), M)
<1> DEFINE o == [d.out EXCEPT !.no = @ \cup {c}]
<1>1. d \in Device /\ d.out \in Output
  BY OutcomeType DEF Device
<1>2. o \in Output
  BY <1>1, OutputType
<1>3. o.drop = d.out.drop /\ o.sdp = d.out.sdp
  BY <1>1 DEF Output
<1>4. d.addr = NoAddr => ~d.out.sdp
  BY DEF Outcome, Sound, Unused
<1>5. Refuse(d, c) = [d EXCEPT !.out = o]
  BY <1>1 DEF Refuse, Device
<1> HIDE DEF o
<1> QED BY <1>2, <1>3, <1>4, <1>5, OutOutcome

LEMMA Within ==
  ASSUME NEW x \in Seq(Received), NEW y \in Seq(Received), Len(x) <= Len(y), Len(y) <= MaxRx
  PROVE  Len(x) <= MaxRx
<1>1. Len(x) \in Nat /\ Len(y) \in Nat /\ MaxRx \in Nat
  BY EnvironmentAssumption
<1> QED BY <1>1

LEMMA UpReads ==
  ASSUME NEW M, NEW d, Sound(d, M)
  PROVE  Reads(d, SignallingUp(d), M)
<1>1. d \in Device /\ Len(d.rx) \in Nat
  BY DEF Sound, Device
<1>2. CASE d.version = "not_requested"
  <2>1. SignallingUp(d) = d
    BY <1>2 DEF SignallingUp
  <2> QED BY <1>1, <2>1, KeepsSelf DEF Reads
<1>3. CASE d.version # "not_requested"
  <2> DEFINE r == SignallingConnectCfm(d)
             e == HandleSignalPacket(r)
  <2>1. SignallingUp(d) = e
    BY <1>3 DEF SignallingUp
  <2>2. Outcome(d, d, M)
    BY KeepsSelf DEF Outcome
  <2>3. Outcome(d, r, M)
    BY <2>2, ConfirmOutcome DEF SignallingConnectCfm
  <2> HIDE DEF r
  <2>4. Reads(r, e, M)
    BY <2>3, SourceReads DEF Outcome
  <2> HIDE DEF e
  <2>5. Keeps(d, e) /\ r.rx = d.rx
    BY <2>3, <2>4, KeepsOn DEF Outcome, Reads
  <2> QED BY <2>1, <2>4, <2>5 DEF Reads
<1> QED BY <1>2, <1>3

(***************************************************************************)
(* The confirmations of the connection library.                            *)
(***************************************************************************)
(* Channel c of d's device is the only one the event changes.              *)
Differ(ch0, ch, c) == \A x \in Chan \ {c} : ch[x] = ch0[x]

(* A channel comes up.                                                     *)
Comes(d, ch0, ch, c) ==
  /\ c \in Chan /\ Differ(ch0, ch, c) /\ d.addr # NoAddr
  /\ ch0[c].addr = d.addr /\ ch0[c].st \in {"calling", "accepted"}
  /\ ch[c].addr = d.addr /\ ch[c].st = "up"

LEMMA ComesLive ==
  ASSUME NEW d, NEW ch0, NEW ch, NEW c, RecordOK(d, ch0), Comes(d, ch0, ch, c)
  PROVE  /\ Sound(d, LiveOn(ch, d.addr)) /\ c \in LiveOn(ch, d.addr)
         /\ d.sig \in Joined => d.sink # c
         /\ d.media \in MediaKept => d.mSink # c /\ ch[d.mSink] = ch0[d.mSink]
<1> DEFINE a == d.addr
<1>1. LiveOn(ch0, a) \subseteq LiveOn(ch, a) /\ c \in LiveOn(ch, a) /\ c \notin LiveOn(ch0, a)
  BY DEF LiveOn, Comes, Differ
<1>2. Sound(d, LiveOn(ch0, a))
  BY DEF RecordOK
<1>3. LiveOn(ch0, a) \subseteq Chan
  BY DEF LiveOn
<1>4. Sound(d, LiveOn(ch, a))
  BY <1>1, <1>2, Monotone
<1>5. /\ d.sig \in Joined => d.sink \in LiveOn(ch0, a)
      /\ d.media \in MediaKept => d.mSink \in LiveOn(ch0, a)
  BY <1>2 DEF Sound, SinksOwned
<1> QED BY <1>1, <1>3, <1>4, <1>5 DEF Comes, Differ

LEMMA SignallingConnectedOK ==
  ASSUME NEW d, NEW ch0, NEW ch, NEW c, RecordOK(d, ch0), AtRest(d), Comes(d, ch0, ch, c), SettingUp(d)
  PROVE  Settles(d, SignallingConnected(d, c), ch)
<1> DEFINE M == LiveOn(ch, d.addr)
           q == RefuseCrossing(d, c)
           T == (q.timers \ {"linkloss"}) \ {"retry"}
           r == [StopLinklossTimer(CompleteSignalling(q, c)) EXCEPT !.timers = @ \ {"retry"}]
           e == SignallingUp(r)
<1>1. SignallingConnected(d, c) = e
  BY DEF SignallingConnected
<1>2. Outcome(d, d, M)
  BY ComesLive, KeepsSelf DEF Outcome
<1>3. d \in Device /\ d.inCid \in Ends /\ Len(d.rx) <= MaxRx /\ ~d.out.call /\ c \in Ends
  BY DEF RecordOK, Sound, Device, AtRest, NoOutput, Comes, Ends
<1>4. Outcome(d, q, M)
  BY <1>2, <1>3, RefuseOutcome DEF RefuseCrossing
<1>5. /\ q.addr = d.addr /\ q.rx = d.rx /\ q.sig = d.sig /\ q.media = d.media /\ q.mSink = d.mSink
      /\ q.stream = d.stream /\ q.out.call = FALSE
  <2>1. q \in {d, Refuse(d, d.inCid)}
    BY DEF RefuseCrossing
  <2>2. /\ Refuse(d, d.inCid).addr = d.addr /\ Refuse(d, d.inCid).rx = d.rx /\ Refuse(d, d.inCid).sig = d.sig
        /\ Refuse(d, d.inCid).media = d.media /\ Refuse(d, d.inCid).mSink = d.mSink
        /\ Refuse(d, d.inCid).stream = d.stream /\ Refuse(d, d.inCid).out.call = FALSE
    BY <1>3 DEF Refuse, Device, Output
  <2> HIDE DEF q
  <2> QED BY <1>3, <2>1, <2>2 DEF Device, Output
<1>6. q \in Device /\ T \in SUBSET Timer
  BY <1>4, OutcomeType DEF Device
<1>7. r = [q EXCEPT !.sig = "connected", !.sink = c, !.timers = T, !.linkloss = FALSE, !.expired = FALSE]
  BY <1>6 DEF StopLinklossTimer, CompleteSignalling, Device
<1> HIDE DEF q, T, r
<1>8. /\ r \in Device /\ r.sig = "connected" /\ r.sink = c /\ r.linkloss = FALSE
      /\ r.addr = q.addr /\ r.rx = q.rx /\ r.media = q.media /\ r.mSink = q.mSink /\ r.stream = q.stream
      /\ r.out = q.out /\ r.issued = q.issued /\ r.sent = q.sent /\ r.label = q.label
  <2>1. "connected" \in LinkState /\ FALSE \in BOOLEAN /\ c \in Ends
    BY <1>3 DEF LinkState
  <2> QED BY ZenonT(60), <1>6, <1>7, <2>1 DEF Device
<1>9. r.media # "connected" /\ r.stream = "idle" /\ r.addr # NoAddr
  BY <1>5, <1>8 DEF RecordOK, Sound, StreamAndMedia, Comes
<1>10. c \in M /\ (r.media \in MediaKept => r.mSink # c)
  BY <1>5, <1>8, ComesLive
<1>11. Sound(q, M)
  BY <1>4 DEF Outcome
<1> HIDE DEF M
<1>12. Sound(r, M)
  BY <1>8, <1>9, <1>10, <1>11 DEF Sound, SinksOwned, StreamAndMedia, Unused, NoLoss, SettingUp, LabelInStep,
     Bounded, MediaStreams, Joined
<1>13. RecordOK(r, ch)
  BY <1>5, <1>8, <1>9, <1>12 DEF RecordOK, Placed, M
<1>14. Reads(r, e, M)
  BY <1>12, UpReads
<1> HIDE DEF e
<1>15. RecordOK(e, ch) /\ e.addr = r.addr /\ Len(e.rx) <= Len(r.rx) /\ e.rx \in Seq(Received)
  BY <1>5, <1>8, <1>13, <1>14, ProcedureOK DEF M
<1>16. ~Aborting(d)
  BY DEF Aborting, SettingUp
<1>17. Len(e.rx) <= MaxRx
  BY <1>3, <1>5, <1>8, <1>15, Within DEF Device
<1> QED BY <1>1, <1>5, <1>8, <1>15, <1>16, <1>17 DEF Settles, Allowed

LEMMA MediaConnectedOK ==
  ASSUME NEW d, NEW ch0, NEW ch, NEW c, RecordOK(d, ch0), AtRest(d), Comes(d, ch0, ch, c), d.sig \in Joined
  PROVE  Settles(d, MediaConnected(d, c), ch)
<1> DEFINE M == LiveOn(ch, d.addr)
           q == Confirm([d EXCEPT !.media = "connected", !.mSink = c], "open")
           O == d.owed \ {"open"}
           r == IF d.stream = "local_aborting" THEN q ELSE SetStreamState(q, "open")
           e == HandleSignalPacket(r)
<1>1. MediaConnected(d, c) = e
  BY DEF MediaConnected
<1>2. d \in Device /\ Len(d.rx) <= MaxRx /\ d.out = NoOutput /\ c \in Ends
  BY DEF RecordOK, Sound, AtRest, Comes, Ends
<1>3. q = [d EXCEPT !.media = "connected", !.mSink = c, !.owed = O]
  BY <1>2 DEF Confirm, Device
<1>4. O \in SUBSET {"connect", "open"} /\ "connected" \in LinkState \ {"crossover"}
  BY <1>2 DEF Device, LinkState
<1> HIDE DEF O, q
<1>5. /\ q \in Device /\ q.addr = d.addr /\ q.sig = d.sig /\ q.sink = d.sink /\ q.media = "connected" /\ q.mSink = c
      /\ q.stream = d.stream /\ q.linkloss = d.linkloss /\ q.rx = d.rx /\ q.out = d.out
      /\ q.issued = d.issued /\ q.sent = d.sent /\ q.label = d.label
  BY ZenonT(60), <1>2, <1>3, <1>4 DEF Device
<1>6. /\ r \in Device /\ r.addr = d.addr /\ r.sig = d.sig /\ r.sink = d.sink /\ r.media = "connected" /\ r.mSink = c
      /\ r.stream = (IF d.stream = "local_aborting" THEN "local_aborting" ELSE "open")
      /\ r.linkloss = d.linkloss /\ r.rx = d.rx /\ r.out = d.out
      /\ r.issued = d.issued /\ r.sent = d.sent /\ r.label = d.label
  <2>1. CASE d.stream = "local_aborting"
    BY <1>5, <2>1
  <2>2. CASE d.stream # "local_aborting"
    <3> DEFINE T == (q.timers \ {"clientRsp", "remoteCmd", "watchdog"}) \cup {}
    <3>1. T \in SUBSET Timer /\ "open" \in StreamState
      BY <1>5 DEF Device, StreamState, Stable
    <3>2. r = [q EXCEPT !.stream = "open", !.timers = T]
      BY <1>5, <2>2 DEF SetStreamState, Stable, Device
    <3> HIDE DEF T, r
    <3> QED BY ZenonT(60), <1>5, <2>2, <3>1, <3>2 DEF Device
  <2> QED BY <2>1, <2>2
<1> HIDE DEF r
<1>7. Sound(d, M) /\ c \in M /\ d.sink # c
  BY ComesLive
<1>8. c \notin NoOutput.drop /\ ~NoOutput.call
  BY DEF NoOutput
<1> HIDE DEF M
<1>9. r.stream \in MediaStreams \cup Behind /\ r.stream # "idle" /\ ~SettingUp(r) /\ r.addr # NoAddr
  BY <1>6 DEF MediaStreams, Behind, SettingUp, Joined, Comes
<1>10. Sound(r, M)
  BY <1>2, <1>6, <1>7, <1>8, <1>9 DEF Sound, SinksOwned, StreamAndMedia, Unused, NoLoss, LabelInStep, Bounded,
     MediaKept
<1>11. RecordOK(r, ch)
  BY <1>6, <1>10 DEF RecordOK, Placed, M, Comes, Joined
<1>12. Reads(r, e, M)
  BY <1>10, SourceReads
<1>13. Aborting(d) /\ MaxRx <= 1 => e.stream \in {"local_aborting", "idle"}
  <2>1. SUFFICES ASSUME Aborting(d), MaxRx <= 1 PROVE e.stream \in {"local_aborting", "idle"}
    OBVIOUS
  <2>2. Len(r.rx) \in Nat /\ Len(r.rx) <= MaxRx /\ MaxRx \in Nat
    BY <1>2, <1>6, EnvironmentAssumption DEF Device
  <2>3. Len(r.rx) <= 1
    BY <2>1, <2>2
  <2>4. r.stream = "local_aborting"
    BY <1>6, <2>1 DEF Aborting
  <2> QED BY <1>6, <2>3, <2>4, AbortedReads
<1> HIDE DEF e
<1>14. RecordOK(e, ch) /\ e.addr = r.addr /\ Len(e.rx) <= Len(r.rx) /\ e.rx \in Seq(Received)
  BY <1>2, <1>6, <1>8, <1>11, <1>12, ProcedureOK DEF M
<1>15. Len(e.rx) <= MaxRx
  BY <1>2, <1>6, <1>14, Within DEF Device
<1> QED BY <1>1, <1>6, <1>13, <1>14, <1>15 DEF Settles, Allowed

LEMMA DropChannelOK ==
  ASSUME NEW d, NEW ch0, NEW ch, NEW c, RecordOK(d, ch0), AtRest(d), Comes(d, ch0, ch, c), ~SettingUp(d)
  PROVE  Settles(d, DropChannel(d, c), ch)
<1> DEFINE M == LiveOn(ch, d.addr)
           o == [d.out EXCEPT !.drop = @ \cup {c}]
           e == DropChannel(d, c)
<1>1. d \in Device /\ Len(d.rx) <= MaxRx /\ d.out = NoOutput /\ c \in Ends /\ NoOutput \in Output
  BY DEF RecordOK, Sound, AtRest, Comes, Ends, NoOutput, Output
<1>2. o \in Output
  BY <1>1, OutputType
<1>3. o.drop = {c} /\ o.sdp = FALSE
  BY <1>1 DEF NoOutput
<1>4. e = [d EXCEPT !.out = o]
  BY <1>1 DEF DropChannel, Device
<1> HIDE DEF o, e
<1>5. /\ e \in Device /\ e.out = o /\ e.addr = d.addr /\ e.inCid = d.inCid /\ e.rx = d.rx
      /\ e.sig = d.sig /\ e.sink = d.sink /\ e.media = d.media /\ e.mSink = d.mSink /\ e.stream = d.stream
      /\ e.linkloss = d.linkloss /\ e.timers = d.timers
      /\ e.issued = d.issued /\ e.sent = d.sent /\ e.label = d.label
  BY ZenonT(60), <1>1, <1>2, <1>4 DEF Device
<1>6. /\ Sound(d, M) /\ c \in M
      /\ d.media \in MediaKept => d.mSink # c /\ ch[d.mSink] = ch0[d.mSink]
  BY ComesLive
<1> HIDE DEF M
<1>7. Sound(e, M)
  BY <1>3, <1>5, <1>6 DEF Sound, SinksOwned, StreamAndMedia, Unused, NoLoss, SettingUp, LabelInStep, Bounded,
     MediaKept
<1>8. Placed(e, ch)
  BY <1>5, <1>6 DEF RecordOK, Placed, SettingUp, MediaKept
<1> QED BY <1>1, <1>5, <1>7, <1>8 DEF Settles, Allowed, RecordOK, Aborting, M, e

LEMMA ConnectSuccessOK ==
  ASSUME NEW d, NEW ch0, NEW ch, NEW c, RecordOK(d, ch0), AtRest(d), Comes(d, ch0, ch, c)
  PROVE  Settles(d, ConnectSuccess(d, c), ch)
<1>1. CASE SettingUp(d)
  <2>1. ConnectSuccess(d, c) = SignallingConnected(d, c)
    BY <1>1 DEF ConnectSuccess, SettingUp, Joined
  <2> QED BY <1>1, <2>1, SignallingConnectedOK
<1>2. CASE ~SettingUp(d) /\ d.sig \in Joined /\ IsMedia(d, c)
  BY <1>2, MediaConnectedOK DEF ConnectSuccess
<1>3. CASE ~SettingUp(d) /\ ~(d.sig \in Joined /\ IsMedia(d, c))
  <2>1. ConnectSuccess(d, c) = DropChannel(d, c)
    BY <1>3 DEF ConnectSuccess
  <2> QED BY <1>3, <2>1, DropChannelOK
<1> QED BY <1>1, <1>2, <1>3

LEMMA ConnectPendingOK ==
  ASSUME NEW d, NEW ch, NEW c \in Chan, RecordOK(d, ch), AtRest(d)
  PROVE  Settles(d, ConnectPending(d, c), ch)
<1> DEFINE x == [d EXCEPT !.outCid = c]
           y == [d EXCEPT !.mOutCid = c]
           M == LiveOn(ch, d.addr)
<1>1. d \in Device /\ c \in Ends
  BY DEF RecordOK, Sound, Ends
<1>2. Outcome(d, d, M)
  BY SelfOutcome
<1> HIDE DEF M
<1>3. x \in Device /\ Alike(d, x) /\ x.issued = d.issued /\ x.sent = d.sent /\ x.label = d.label
  BY ZenonT(60), <1>1 DEF Device, Alike
<1>4. y \in Device /\ Alike(d, y) /\ y.issued = d.issued /\ y.sent = d.sent /\ y.label = d.label
  BY ZenonT(60), <1>1 DEF Device, Alike
<1>5. ConnectPending(d, c) \in {d, x, y}
  <2>1. CASE SettingUp(d)
    BY <2>1 DEF ConnectPending, SettingUp, Joined
  <2>2. CASE ~SettingUp(d)
    BY <2>2 DEF ConnectPending, MediaPending
  <2> QED BY <2>1, <2>2
<1> HIDE DEF x, y
<1>6. Outcome(d, ConnectPending(d, c), M) /\ ConnectPending(d, c).stream = d.stream
  <2>1. Outcome(d, x, M) /\ x.stream = d.stream
    BY <1>2, <1>3, SameOutcome DEF Alike
  <2>2. Outcome(d, y, M) /\ y.stream = d.stream
    BY <1>2, <1>4, SameOutcome DEF Alike
  <2> QED BY <1>2, <1>5, <2>1, <2>2
<1> QED BY <1>6, OutcomeSettles DEF M, Aborting

(* A channel that was not set up yet is gone.                              *)
Fails(d, ch0, ch, c) ==
  /\ c \in Chan /\ Differ(ch0, ch, c) /\ ch[c] = FreeChan
  /\ ch0[c].addr = d.addr /\ ch0[c].st \in {"refused", "calling", "ringing", "accepted"}

LEMMA FailsLive ==
  ASSUME NEW d, NEW ch0, NEW ch, NEW c, RecordOK(d, ch0), Fails(d, ch0, ch, c)
  PROVE  /\ Sound(d, LiveOn(ch, d.addr))
         /\ d.media \in MediaKept => d.mSink # c /\ ch[d.mSink] = ch0[d.mSink]
<1> DEFINE a == d.addr
<1>1. LiveOn(ch0, a) \subseteq LiveOn(ch, a) /\ c \notin LiveOn(ch0, a) /\ LiveOn(ch0, a) \subseteq Chan
  BY DEF LiveOn, Fails, Differ
<1>2. Sound(d, LiveOn(ch0, a))
  BY DEF RecordOK
<1>3. Sound(d, LiveOn(ch, a))
  BY <1>1, <1>2, Monotone
<1>4. d.media \in MediaKept => d.mSink \in LiveOn(ch0, a)
  BY <1>2 DEF Sound, SinksOwned
<1> QED BY <1>1, <1>3, <1>4 DEF Fails, Differ

(* A confirmation to the client changes nothing but what is owed to it.    *)
LEMMA ConfirmOK ==
  ASSUME NEW x, NEW ch, RecordOK(x, ch), AtRest(x), NEW q
  PROVE  /\ RecordOK(Confirm(x, q), ch) /\ Len(Confirm(x, q).rx) <= MaxRx
         /\ Confirm(x, q).addr = x.addr /\ Confirm(x, q).stream = x.stream
<1> DEFINE e == Confirm(x, q)
<1>1. x \in Device
  BY DEF RecordOK, Sound
<1>2. e.addr = x.addr /\ e.stream = x.stream
  BY <1>1 DEF Confirm, Device
<1>3. Outcome(x, e, LiveOn(ch, x.addr))
  BY SelfOutcome, ConfirmOutcome
<1> HIDE DEF e
<1>4. Settles(x, e, ch)
  BY <1>2, <1>3, OutcomeSettles DEF Aborting
<1> QED BY <1>2, <1>4 DEF Settles, e

LEMMA CrossoverFailedOK ==
  ASSUME NEW d, NEW ch0, NEW ch, NEW c, RecordOK(d, ch0), AtRest(d), Fails(d, ch0, ch, c), d.sig = "crossover"
  PROVE  Settles(d, CrossoverFailed(d, c), ch)
<1> DEFINE x == [d EXCEPT !.inCid = NoChan, !.inId = FALSE, !.sig = "paging"]
           y == [d EXCEPT !.outCid = NoChan, !.sig = "paged"]
           M == LiveOn(ch, d.addr)
<1>1. d \in Device /\ ~d.out.call
  BY DEF RecordOK, Sound, AtRest, NoOutput
<1>2. Sound(d, M) /\ d.media # "connected"
  BY FailsLive DEF RecordOK, Sound, StreamAndMedia, SettingUp
<1> HIDE DEF M
<1>3. NoChan \in Ends /\ {"paging", "paged"} \subseteq LinkState /\ FALSE \in BOOLEAN
  BY DEF Ends, LinkState
<1>4. UnderWay(d, ch0, {d.inCid})
  BY DEF RecordOK, Placed
<1>5. d.inCid = c => RecordOK(x, ch) /\ AtRest(x) /\ x.addr = d.addr
  <2>1. /\ x \in Device /\ x.addr = d.addr /\ x.sig = "paging" /\ x.sink = d.sink /\ x.media = d.media
        /\ x.mSink = d.mSink /\ x.stream = d.stream /\ x.linkloss = d.linkloss /\ x.rx = d.rx /\ x.out = d.out
        /\ x.issued = d.issued /\ x.sent = d.sent /\ x.label = d.label /\ x.timers = d.timers
    BY ZenonT(60), <1>1, <1>3 DEF Device
  <2> HIDE DEF x
  <2>2. Sound(x, M)
    BY <1>2, <2>1 DEF Sound, SinksOwned, StreamAndMedia, Unused, NoLoss, SettingUp, LabelInStep, Bounded, Joined
  <2>3. d.inCid = c => UnderWay(x, ch, {})
    BY <1>1, <1>4, <2>1 DEF UnderWay, Fails, Differ
  <2>4. d.inCid = c => Placed(x, ch)
    BY <1>2, <2>1, <2>3 DEF Placed
  <2>5. AtRest(x)
    BY <2>1 DEF AtRest
  <2> QED BY <2>1, <2>2, <2>4, <2>5 DEF RecordOK, M
<1>6. d.inCid # c => RecordOK(y, ch) /\ AtRest(y) /\ y.addr = d.addr
  <2>1. /\ y \in Device /\ y.addr = d.addr /\ y.sig = "paged" /\ y.sink = d.sink /\ y.media = d.media
        /\ y.mSink = d.mSink /\ y.stream = d.stream /\ y.linkloss = d.linkloss /\ y.rx = d.rx /\ y.out = d.out
        /\ y.issued = d.issued /\ y.sent = d.sent /\ y.label = d.label /\ y.inCid = d.inCid
    BY ZenonT(60), <1>1, <1>3 DEF Device
  <2> HIDE DEF y
  <2>2. Sound(y, M)
    BY <1>2, <2>1 DEF Sound, SinksOwned, StreamAndMedia, Unused, NoLoss, SettingUp, LabelInStep, Bounded, Joined
  <2>3. d.inCid # c => Placed(y, ch)
    BY <1>2, <2>1 DEF RecordOK, Placed, Fails, Differ
  <2>4. AtRest(y)
    BY <2>1 DEF AtRest
  <2> QED BY <2>1, <2>2, <2>3, <2>4 DEF RecordOK, M
<1>7. ~Aborting(d)
  BY DEF Aborting
<1>8. CrossoverFailed(d, c) = Confirm(IF d.inCid = c THEN x ELSE y, "connect")
  BY DEF CrossoverFailed, SignallingConnectCfm
<1> HIDE DEF x, y
<1> QED BY <1>5, <1>6, <1>7, <1>8, ConfirmOK DEF Settles, Allowed

(* a2dpInitialiseRemoteDevice                                              *)
LEMMA FreshFields ==
  /\ FreshDevice \in Device /\ FreshDevice.addr = NoAddr /\ FreshDevice.sig = "idle"
  /\ FreshDevice.media = "idle" /\ FreshDevice.stream = "idle" /\ FreshDevice.linkloss = FALSE
  /\ FreshDevice.issued = FALSE /\ FreshDevice.sent = << >> /\ FreshDevice.rx = << >>
  /\ FreshDevice.out = NoOutput
<1>1. /\ NoAddr \in Addr \cup {NoAddr} /\ "idle" \in LinkState \ {"crossover"} /\ "idle" \in StreamState
      /\ NoChan \in Ends /\ 0 \in 0..MaxLabel /\ "not_requested" \in Version /\ FALSE \in BOOLEAN
      /\ NoOutput \in Output
  BY LabelAssumption DEF LinkState, StreamState, Stable, Ends, Version, NoOutput, Output
<1>2. << >> \in Seq(SentCommand) /\ << >> \in Seq(Received)
      /\ {} \in SUBSET Timer /\ {} \in SUBSET (Question \X (Addr \cup {NoAddr})) /\ {} \in SUBSET {"connect", "open"}
  OBVIOUS
<1> QED BY <1>1, <1>2 DEF FreshDevice, Device

(* removeDevice: the record is that of a device never used, but for its    *)
(* timers and the questions put to the client.                             *)
LEMMA RemoveOK ==
  ASSUME NEW d \in Device, d.out = NoOutput, NEW ch
  PROVE  /\ RecordOK(RemoveDevice(d), ch) /\ Len(RemoveDevice(d).rx) <= MaxRx
         /\ RemoveDevice(d).stream = "idle" /\ RemoveDevice(d).addr = NoAddr
<1> DEFINE f == FreshDevice
           e == RemoveDevice(d)
           M == LiveOn(ch, e.addr)
<1>1. e = [f EXCEPT !.timers = d.timers, !.ask = d.ask, !.owed = d.owed, !.out = d.out]
  BY DEF RemoveDevice
<1> HIDE DEF f, e
<1>2. << >> \in Seq(Received) /\ Len(<< >>) = 0
  OBVIOUS
<1>3. /\ e \in Device /\ e.addr = NoAddr /\ e.sig = "idle" /\ e.media = "idle" /\ e.stream = "idle"
      /\ e.linkloss = FALSE /\ e.issued = FALSE /\ e.sent = << >> /\ e.rx = << >> /\ e.out = NoOutput
  <2>1. d.timers \in SUBSET Timer /\ d.ask \in SUBSET (Question \X (Addr \cup {NoAddr}))
        /\ d.owed \in SUBSET {"connect", "open"} /\ d.out \in Output
    BY DEF Device
  <2>2. /\ f \in Device /\ f.addr = NoAddr /\ f.sig = "idle" /\ f.media = "idle" /\ f.stream = "idle"
        /\ f.linkloss = FALSE /\ f.issued = FALSE /\ f.sent = << >> /\ f.rx = << >>
    BY FreshFields DEF f
  <2>3. e \in Device
    BY ZenonT(60), <1>1, <2>1, <2>2 DEF Device
  <2>4. /\ e.addr = f.addr /\ e.sig = f.sig /\ e.media = f.media /\ e.stream = f.stream
        /\ e.linkloss = f.linkloss /\ e.issued = f.issued /\ e.sent = f.sent /\ e.rx = f.rx /\ e.out = d.out
    BY <1>1, <2>2 DEF Device
  <2> QED BY <2>2, <2>3, <2>4
<1>4. NoOutput.drop = {} /\ ~NoOutput.sdp
  BY DEF NoOutput
<1>5. Sound(e, M)
  BY <1>2, <1>3, <1>4, LabelAssumption DEF Sound, SinksOwned, StreamAndMedia, Unused, NoLoss, SettingUp,
     LabelInStep, Bounded, Joined, MediaKept
<1>6. Placed(e, ch)
  BY <1>3 DEF Placed
<1>7. Len(e.rx) <= MaxRx
  BY <1>2, <1>3, EnvironmentAssumption
<1> QED BY <1>3, <1>5, <1>6, <1>7 DEF RecordOK, e

(* The record keeps its media channel, if that one was being taken down.   *)
LEMMA ReconnectOK ==
  ASSUME NEW d \in Device, NEW ch, d.out = NoOutput, d.addr # NoAddr, d.media # "connected",
         d.media \in MediaKept => d.mSink \in LiveOn(ch, d.addr)
  PROVE  /\ RecordOK(Reconnect(d), ch) /\ Len(Reconnect(d).rx) <= MaxRx
         /\ Reconnect(d).addr = d.addr /\ Reconnect(d).stream = "idle"
<1> DEFINE T == d.timers \cup {"retry"}
           e == Reconnect(d)
           M == LiveOn(ch, d.addr)
<1>1. d \in Device
  OBVIOUS
<1>2. e = [d EXCEPT !.sink = NoChan, !.outCid = NoChan, !.inCid = NoChan, !.inId = FALSE,
                    !.stream = "idle", !.issued = FALSE, !.received = FALSE, !.label = 0,
                    !.sent = << >>, !.rx = << >>, !.sig = "paging", !.timers = T]
  BY <1>1 DEF Reconnect, RetryLater, InitiateSignallingOut, ClearSignalling, Device
<1>3. /\ "paging" \in LinkState /\ "idle" \in StreamState
      /\ NoChan \in Ends /\ 0 \in 0..MaxLabel /\ FALSE \in BOOLEAN
      /\ T \in SUBSET Timer /\ "retry" \in T
  BY <1>1, LabelAssumption DEF LinkState, StreamState, Stable, Ends, Timer, Device
<1>4. << >> \in Seq(SentCommand) /\ << >> \in Seq(Received) /\ Len(<< >>) = 0
  OBVIOUS
<1> HIDE DEF T, e
<1>5. /\ e \in Device /\ e.addr = d.addr /\ e.sig = "paging" /\ e.media = d.media /\ e.mSink = d.mSink
      /\ e.stream = "idle" /\ e.linkloss = d.linkloss /\ e.issued = FALSE /\ e.sent = << >> /\ e.rx = << >>
      /\ e.out = d.out /\ e.timers = T
  BY ZenonT(60), <1>1, <1>2, <1>3, <1>4 DEF Device
<1>6. NoOutput.drop = {} /\ ~NoOutput.sdp
  BY DEF NoOutput
<1>7. Sound(e, M)
  BY <1>4, <1>5, <1>6, LabelAssumption DEF Sound, SinksOwned, StreamAndMedia, Unused, NoLoss, SettingUp,
     LabelInStep, Bounded, Joined, MediaKept
<1>8. Placed(e, ch)
  BY <1>3, <1>5 DEF Placed, UnderWay
<1>9. Len(e.rx) <= MaxRx
  BY <1>4, <1>5, EnvironmentAssumption
<1> QED BY <1>5, <1>7, <1>8, <1>9 DEF RecordOK, M, e

LEMMA SetupFailedOK ==
  ASSUME NEW d, NEW ch0, NEW ch, NEW c, RecordOK(d, ch0), AtRest(d), Fails(d, ch0, ch, c),
         d.sig \in {"paging", "paged"}
  PROVE  Settles(d, SetupFailed(d), ch)
<1>1. Sound(d, LiveOn(ch, d.addr)) /\ d.media # "connected" /\ d.addr # NoAddr
  BY FailsLive DEF RecordOK, Sound, StreamAndMedia, SettingUp, Unused
<1>2. d \in Device /\ d.out = NoOutput /\ ~Aborting(d)
  BY DEF RecordOK, Sound, AtRest, Aborting
<1>3. CASE d.linkloss /\ d.manage /\ ~d.expired
  <2>1. SetupFailed(d) = Reconnect(d)
    BY <1>3 DEF SetupFailed
  <2>2. d.media \in MediaKept => d.mSink \in LiveOn(ch, d.addr)
    BY <1>1 DEF Sound, SinksOwned
  <2> QED BY <1>1, <1>2, <2>1, <2>2, ReconnectOK DEF Settles, Allowed
<1>4. CASE ~(d.linkloss /\ d.manage /\ ~d.expired)
  <2> DEFINE q == SignallingConnectCfm(d)
  <2>1. SetupFailed(d) \in {RemoveDevice(d), RemoveDevice(q)}
    BY <1>4 DEF SetupFailed
  <2>2. q \in Device /\ q.out = NoOutput
    <3>1. d.owed \ {"connect"} \in SUBSET {"connect", "open"}
      BY <1>2 DEF Device
    <3> QED BY ZenonT(60), <1>2, <3>1 DEF SignallingConnectCfm, Confirm, Device
  <2> HIDE DEF q
  <2>3. ~Kept(d)
    BY <1>4 DEF Kept
  <2> QED BY <1>2, <2>1, <2>2, <2>3, RemoveOK DEF Settles, Allowed
<1> QED BY <1>3, <1>4

(* What a failed event leaves of a record that it is not about.            *)
LEMMA FailsStays ==
  ASSUME NEW d, NEW ch0, NEW ch, NEW c, RecordOK(d, ch0), AtRest(d), Fails(d, ch0, ch, c), ~SettingUp(d)
  PROVE  RecordOK(d, ch)
<1>1. Placed(d, ch)
  BY FailsLive DEF RecordOK, Placed, SettingUp, MediaKept
<1> QED BY <1>1, FailsLive DEF RecordOK

LEMMA MediaFailedOK ==
  ASSUME NEW d, NEW ch0, NEW ch, NEW c, RecordOK(d, ch0), AtRest(d), Fails(d, ch0, ch, c),
         d.sig \in Joined, IsMedia(d, c)
  PROVE  Settles(d, StreamAbort(RemoveMedia(Confirm(d, "open"))), ch)
<1> DEFINE M == LiveOn(ch, d.addr)
           q == Confirm(d, "open")
           r == RemoveMedia(q)
           e == StreamAbort(r)
<1>1. ~SettingUp(d) /\ d \in Device
  BY DEF SettingUp, Joined, RecordOK, Sound
<1>2. RecordOK(d, ch)
  BY <1>1, FailsStays
<1>3. d.media # "connected"
  BY FailsLive DEF IsMedia, Joined, MediaKept
<1>4. Outcome(d, q, M) /\ q \in Device
  BY <1>2, SelfOutcome, ConfirmOutcome, OutcomeType
<1>5. q.stream = d.stream /\ q.media = d.media /\ q.sig = d.sig
  BY <1>1 DEF Confirm, Device
<1> HIDE DEF q, M
<1>6. /\ r \in Device /\ r.addr = q.addr /\ r.inCid = q.inCid /\ r.sig = q.sig /\ r.sink = q.sink
      /\ r.media = "idle" /\ r.mSink = NoChan /\ r.stream = q.stream /\ r.linkloss = q.linkloss
      /\ r.timers = q.timers /\ r.rx = q.rx /\ r.out = q.out
      /\ r.issued = q.issued /\ r.sent = q.sent /\ r.label = q.label
  <2>1. NoChan \in Ends /\ "idle" \in LinkState \ {"crossover"} /\ FALSE \in BOOLEAN
    BY DEF Ends, LinkState
  <2> QED BY ZenonT(60), <1>4, <2>1 DEF RemoveMedia, Device
<1> HIDE DEF r
<1>7. Outcome(d, r, M)
  <2>1. q.sig \in Joined => r.stream \notin MediaStreams
    BY <1>3, <1>4, <1>5, <1>6 DEF Outcome, Sound, StreamAndMedia
  <2>2. LabelInStep(r) /\ Bounded(r)
    BY <1>4, <1>6 DEF Outcome, Sound, LabelInStep, Bounded
  <2>3. (SettingUp(q) => r.stream = "idle") /\ (q.addr = NoAddr => r.stream = "idle")
    BY <1>4, <1>6 DEF Outcome, Sound, StreamAndMedia, Unused
  <2> QED BY <1>4, <1>6, <2>1, <2>2, <2>3, MediaOutcome DEF MediaKept
<1>8. Outcome(d, e, M)
  BY <1>7, AbortOutcome
<1>9. Aborting(d) => e.stream = "local_aborting"
  BY <1>5, <1>6, AbortStays DEF Aborting
<1> HIDE DEF e
<1>10. Settles(d, e, ch)
  BY <1>2, <1>8, <1>9, OutcomeSettles DEF M
<1> QED BY <1>10 DEF e, r, q

LEMMA ConnectFailureOK ==
  ASSUME NEW d, NEW ch0, NEW ch, NEW c, RecordOK(d, ch0), AtRest(d), Fails(d, ch0, ch, c)
  PROVE  Settles(d, ConnectFailure(d, c), ch)
<1>1. CASE d.sig = "crossover"
  <2>1. ConnectFailure(d, c) = CrossoverFailed(d, c)
    BY <1>1 DEF ConnectFailure, Joined
  <2> QED BY <1>1, <2>1, CrossoverFailedOK
<1>2. CASE d.sig \in {"paging", "paged"}
  <2>1. ConnectFailure(d, c) = SetupFailed(d)
    BY <1>2 DEF ConnectFailure, Joined
  <2> QED BY <1>2, <2>1, SetupFailedOK
<1>3. CASE d.sig \in Joined /\ IsMedia(d, c)
  <2>1. ConnectFailure(d, c) = StreamAbort(RemoveMedia(Confirm(d, "open")))
    BY <1>3 DEF ConnectFailure, Joined
  <2> QED BY <1>3, <2>1, MediaFailedOK
<1>4. CASE d.sig \notin {"crossover", "paging", "paged"} /\ ~(d.sig \in Joined /\ IsMedia(d, c))
  <2>1. ConnectFailure(d, c) = d
    BY <1>4 DEF ConnectFailure
  <2>2. RecordOK(d, ch)
    BY <1>4, FailsStays DEF SettingUp
  <2> QED BY <2>1, <2>2 DEF Settles, Allowed, AtRest, Aborting
<1> QED BY <1>1, <1>2, <1>3, <1>4

(***************************************************************************)
(* Disconnections and losses.                                              *)
(***************************************************************************)
(* A channel that was up, or was being taken down, is gone.                *)
Ended(d, ch0, ch, c, linkloss) ==
  /\ c \in Chan /\ Differ(ch0, ch, c) /\ ch[c] = FreeChan /\ d.addr # NoAddr
  /\ ch0[c].addr = d.addr /\ ch0[c].st \in (IF linkloss THEN {"lost"} ELSE {"up", "closing"})

LEMMA EndedLive ==
  ASSUME NEW d, NEW ch0, NEW ch, NEW c, NEW linkloss, RecordOK(d, ch0), Ended(d, ch0, ch, c, linkloss)
  PROVE  /\ d.sig \in Joined /\ d.sink # c => d.sink \in LiveOn(ch, d.addr)
         /\ d.media \in MediaKept /\ d.mSink # c => d.mSink \in LiveOn(ch, d.addr) /\ ch[d.mSink] = ch0[d.mSink]
<1>1. /\ d.sig \in Joined => d.sink \in LiveOn(ch0, d.addr)
      /\ d.media \in MediaKept => d.mSink \in LiveOn(ch0, d.addr)
  BY DEF RecordOK, Sound, SinksOwned
<1>2. \A x \in LiveOn(ch0, d.addr) : x # c => x \in LiveOn(ch, d.addr) /\ ch[x] = ch0[x]
  BY DEF LiveOn, Ended, Differ
<1> QED BY <1>1, <1>2

(* The signalling channel leaves the record with its media channel.        *)
LEMMA LeaveOK ==
  ASSUME NEW x \in Device, NEW ch, x.addr # NoAddr,
         x.media \in MediaKept => x.mSink \in LiveOn(ch, x.addr),
         x.out.drop \subseteq LiveOn(ch, x.addr),
         x.media = "connected" => /\ x.stream \in MediaStreams \cup Behind /\ x.mSink \notin x.out.drop
                                  /\ ch[x.mSink].st = "lost"
  PROVE  /\ RecordOK(LeaveSignalling(x), ch) /\ Len(LeaveSignalling(x).rx) <= MaxRx
         /\ LeaveSignalling(x).addr = x.addr /\ LeaveSignalling(x).stream = x.stream
<1> DEFINE e == LeaveSignalling(x)
           M == LiveOn(ch, x.addr)
<1>1. << >> \in Seq(SentCommand) /\ << >> \in Seq(Received) /\ Len(<< >>) = 0 /\ "idle" \in LinkState
  BY DEF LinkState
<1>2. /\ e \in Device /\ e.addr = x.addr /\ e.sig = "idle" /\ e.media = x.media /\ e.mSink = x.mSink
      /\ e.stream = x.stream /\ e.out = x.out /\ e.sent = << >> /\ e.rx = << >>
  BY <1>1 DEF LeaveSignalling, Device
<1> HIDE DEF e
<1>3. Sound(e, M)
  BY <1>1, <1>2, LabelAssumption DEF Sound, SinksOwned, StreamAndMedia, Unused, NoLoss, SettingUp, LabelInStep,
     Bounded, Joined
<1>4. Placed(e, ch)
  BY <1>2 DEF Placed
<1>5. Len(e.rx) <= MaxRx
  BY <1>1, <1>2, EnvironmentAssumption
<1> QED BY <1>2, <1>3, <1>4, <1>5 DEF RecordOK, e

LEMMA SignallingDisconnectedOK ==
  ASSUME NEW d, NEW ch0, NEW ch, NEW c, NEW linkloss \in BOOLEAN, RecordOK(d, ch0), AtRest(d), ChannelsOK(ch0),
         Ended(d, ch0, ch, c, linkloss), OwnsAsSignalling(d, c)
  PROVE  Settles(d, SignallingDisconnected(d, linkloss), ch)
<1> DEFINE r == IF linkloss THEN StartLinklossTimer(d) ELSE d
<1>1. d \in Device /\ d.sig \in Joined /\ d.sink = c /\ d.out = NoOutput /\ d.addr # NoAddr
  BY DEF RecordOK, Sound, OwnsAsSignalling, AtRest, Ended
<1>2. /\ r \in Device /\ r.addr = d.addr /\ r.media = d.media /\ r.mSink = d.mSink /\ r.stream = d.stream
      /\ r.out = d.out
  <2>1. d.timers \cup {"linkloss"} \in SUBSET Timer
    BY <1>1 DEF Device, Timer
  <2>2. StartLinklossTimer(d) \in Device
    BY ZenonT(60), <1>1, <2>1 DEF StartLinklossTimer, Device
  <2>3. /\ StartLinklossTimer(d).addr = d.addr /\ StartLinklossTimer(d).media = d.media
        /\ StartLinklossTimer(d).mSink = d.mSink /\ StartLinklossTimer(d).stream = d.stream
        /\ StartLinklossTimer(d).out = d.out
    BY <1>1 DEF StartLinklossTimer, Device
  <2> QED BY <1>1, <2>2, <2>3
<1>3. ~Kept(d)
  BY <1>1 DEF RecordOK, Sound, NoLoss, Kept
<1>4. d.media \in MediaKept => d.mSink \in LiveOn(ch, d.addr) /\ d.mSink # c /\ ch[d.mSink] = ch0[d.mSink]
  <2>1. d.media \in MediaKept => d.mSink # c
    BY <1>1 DEF RecordOK, Sound, SinksOwned
  <2> QED BY <2>1, EndedLive
<1>5. SignallingDisconnected(d, linkloss) =
        CASE linkloss /\ d.manage /\ d.media \in Joined    -> LeaveSignalling(r)
          [] linkloss /\ d.manage /\ d.media \notin Joined -> Reconnect(r)
          [] ~(linkloss /\ d.manage) /\ AnyMediaToDisconnect(d) -> LeaveSignalling(DisconnectAllMedia(r))
          [] OTHER -> RemoveDevice(StreamReset(r))
  BY DEF SignallingDisconnected
<1> HIDE DEF r
<1>6. NoOutput.drop = {}
  BY DEF NoOutput
<1>7. Aborting(d) => d.stream = "local_aborting"
  BY DEF Aborting
<1>8. CASE linkloss /\ d.manage /\ d.media \in Joined
  <2>1. d.media = "connected" => d.stream \in MediaStreams \cup Behind /\ ch0[d.mSink].st # "closing"
    BY DEF RecordOK, Sound, StreamAndMedia, Placed
  <2>2. d.media = "connected" => ch0[d.mSink].st # "up"
    <3>1. SUFFICES ASSUME d.media = "connected" PROVE ch0[d.mSink].st # "up"
      OBVIOUS
    <3>2. d.mSink \in Chan /\ ch0[d.mSink].addr = d.addr
      BY <3>1, <1>4 DEF LiveOn, MediaKept
    <3> QED BY <1>8, <3>2 DEF Ended, ChannelsOK
  <2>3. d.media = "connected" => ch[d.mSink].st = "lost"
    BY <1>4, <2>1, <2>2 DEF LiveOn, MediaKept
  <2>4. SignallingDisconnected(d, linkloss) = LeaveSignalling(r)
    BY <1>5, <1>8
  <2> QED BY <1>1, <1>2, <1>3, <1>4, <1>6, <1>7, <2>1, <2>3, <2>4, LeaveOK DEF Settles, Allowed
<1>9. CASE linkloss /\ d.manage /\ d.media \notin Joined
  <2>1. SignallingDisconnected(d, linkloss) = Reconnect(r)
    BY <1>5, <1>9
  <2>2. d.media \notin MediaKept /\ d.media # "connected"
    BY <1>9 DEF MediaKept, Joined
  <2> QED BY <1>1, <1>2, <1>3, <2>1, <2>2, ReconnectOK DEF Settles, Allowed
<1>10. CASE ~(linkloss /\ d.manage) /\ AnyMediaToDisconnect(d)
  <2> DEFINE x == DisconnectAllMedia(r)
  <2>1. SignallingDisconnected(d, linkloss) = LeaveSignalling(x)
    BY <1>5, <1>10
  <2>2. x \in Device /\ ClosesMedia(r, x) /\ x.media # "connected"
    BY <1>2, AllMediaCloses
  <2> HIDE DEF x
  <2>3. x.media \in MediaKept => x.mSink \in LiveOn(ch, x.addr)
    BY <1>2, <1>4, <2>2 DEF ClosesMedia, MediaKept
  <2>4. x.out.drop \subseteq LiveOn(ch, x.addr)
    BY <1>1, <1>2, <1>4, <1>6, <2>2 DEF ClosesMedia, MediaKept
  <2>5. x.addr = d.addr /\ x.stream = d.stream
    BY <1>2, <2>2 DEF ClosesMedia
  <2> QED BY <1>1, <1>3, <1>7, <2>1, <2>2, <2>3, <2>4, <2>5, LeaveOK DEF Settles, Allowed
<1>11. CASE ~(linkloss /\ d.manage) /\ ~AnyMediaToDisconnect(d)
  <2>1. SignallingDisconnected(d, linkloss) = RemoveDevice(StreamReset(r))
    BY <1>5, <1>11
  <2>2. StreamReset(r) \in Device /\ StreamReset(r).out = NoOutput
    BY <1>1, <1>2, ResetFields
  <2> QED BY <1>3, <2>1, <2>2, RemoveOK DEF Settles, Allowed
<1> QED BY <1>8, <1>9, <1>10, <1>11

LEMMA MediaDisconnectedOK ==
  ASSUME NEW d, NEW ch0, NEW ch, NEW c, NEW linkloss, RecordOK(d, ch0), AtRest(d),
         Ended(d, ch0, ch, c, linkloss), ~OwnsAsSignalling(d, c), OwnsAsMedia(d, c)
  PROVE  Settles(d, MediaDisconnected(d), ch)
<1> DEFINE q == RemoveMedia(d)
           r == StreamReset(q)
           M == LiveOn(ch, d.addr)
<1>1. d \in Device /\ d.out = NoOutput /\ d.addr # NoAddr /\ Len(d.rx) <= MaxRx
  BY DEF RecordOK, Sound, AtRest, Ended
<1>2. ~Kept(d)
  BY DEF OwnsAsMedia, Kept
<1>3. d.sig \in Joined => d.sink \in M
  BY EndedLive DEF OwnsAsSignalling
<1>4. /\ q \in Device /\ q.addr = d.addr /\ q.sig = d.sig /\ q.sink = d.sink /\ q.media = "idle"
      /\ q.linkloss = d.linkloss /\ q.rx = d.rx /\ q.sent = d.sent /\ q.out = d.out
  <2>1. NoChan \in Ends /\ "idle" \in LinkState \ {"crossover"} /\ FALSE \in BOOLEAN
    BY DEF Ends, LinkState
  <2> QED BY ZenonT(60), <1>1, <2>1 DEF RemoveMedia, Device
<1>5. MediaDisconnected(d) = CASE d.sig = "disconnect_pending" -> DisconnectSignalling(r)
                               [] d.sig \notin Joined          -> RemoveDevice(r)
                               [] OTHER                        -> r
  BY DEF MediaDisconnected
<1> HIDE DEF q, M
<1>6. /\ r \in Device /\ r.addr = d.addr /\ r.sig = d.sig /\ r.sink = d.sink /\ r.media = "idle"
      /\ r.linkloss = d.linkloss /\ r.rx = d.rx /\ r.sent = d.sent /\ r.out = d.out
      /\ r.stream = "idle" /\ ~r.issued
  BY <1>4, ResetFields
<1> HIDE DEF r
<1>7. CASE d.sig \notin Joined
  <2>1. MediaDisconnected(d) = RemoveDevice(r)
    BY <1>5, <1>7 DEF Joined
  <2> QED BY <1>1, <1>2, <1>6, <2>1, RemoveOK DEF Settles, Allowed
<1>8. CASE d.sig \in Joined
  <2>1. NoOutput.drop = {}
    BY DEF NoOutput
  <2>2. Sound(r, M)
    BY <1>1, <1>3, <1>6, <1>8, <2>1 DEF RecordOK, Sound, SinksOwned, StreamAndMedia, Unused, NoLoss, SettingUp, LabelInStep,
       Bounded, MediaKept, MediaStreams
  <2>3. RecordOK(r, ch)
    BY <1>6, <1>8, <2>2 DEF RecordOK, Placed, M, Joined
  <2>4. AtRest(r) /\ ~Aborting(r)
    BY <1>1, <1>6 DEF AtRest, Aborting
  <2>5. Outcome(r, r, M)
    BY <1>6, <2>3, SelfOutcome DEF M
  <2>6. CASE d.sig = "disconnect_pending"
    <3> DEFINE e == DisconnectSignalling(r)
    <3>1. MediaDisconnected(d) = e
      BY <1>5, <1>8, <2>6
    <3>2. e.stream = "idle"
      BY <1>6 DEF DisconnectSignalling, Device
    <3>3. Outcome(r, e, M)
      BY <1>6, <1>8, <2>5, DropSignallingOutcome
    <3> HIDE DEF e
    <3>4. Settles(r, e, ch) /\ e.addr = d.addr
      BY <1>6, <2>3, <2>4, <3>3, OutcomeSettles DEF M, Outcome, Keeps
    <3> QED BY <3>1, <3>2, <3>4 DEF Settles, Allowed
  <2>7. CASE d.sig # "disconnect_pending"
    <3>1. MediaDisconnected(d) = r
      BY <1>5, <1>8, <2>7
    <3> QED BY <1>1, <1>2, <1>6, <2>3, <3>1 DEF Settles, Allowed
  <2> QED BY <2>6, <2>7
<1> QED BY <1>7, <1>8

LEMMA DisconnectedOK ==
  ASSUME NEW d, NEW ch0, NEW ch, NEW c, NEW linkloss \in BOOLEAN, RecordOK(d, ch0), AtRest(d), ChannelsOK(ch0),
         Ended(d, ch0, ch, c, linkloss)
  PROVE  Settles(d, Disconnected(d, c, linkloss), ch)
<1>1. CASE OwnsAsSignalling(d, c)
  BY <1>1, SignallingDisconnectedOK DEF Disconnected
<1>2. CASE ~OwnsAsSignalling(d, c) /\ OwnsAsMedia(d, c)
  BY <1>2, MediaDisconnectedOK DEF Disconnected
<1>3. CASE ~OwnsAsSignalling(d, c) /\ ~OwnsAsMedia(d, c)
  <2>1. Disconnected(d, c, linkloss) = d
    BY <1>3 DEF Disconnected
  <2>2. (d.sig \in Joined => d.sink # c) /\ (d.media \in MediaKept => d.mSink # c)
    BY <1>3 DEF OwnsAsSignalling, OwnsAsMedia, MediaKept, Joined
  <2>3. /\ d.sig \in Joined => d.sink \in LiveOn(ch, d.addr)
        /\ d.media \in MediaKept => d.mSink \in LiveOn(ch, d.addr) /\ ch[d.mSink] = ch0[d.mSink]
    BY <2>2, EndedLive
  <2>4. d.out.drop = {}
    BY DEF AtRest, NoOutput
  <2>5. Sound(d, LiveOn(ch, d.addr))
    BY <2>3, <2>4 DEF RecordOK, Sound, SinksOwned
  <2>6. \A x \in Chan : ch0[x].st \in Pending => ch[x] = ch0[x]
    BY DEF Ended, Differ, Pending, Inbound
  <2>7. \A X : UnderWay(d, ch0, X) => UnderWay(d, ch, X)
    BY <2>6 DEF UnderWay
  <2>8. Inbound \subseteq Pending
    BY DEF Pending
  <2>9. Placed(d, ch)
    BY <2>3, <2>6, <2>7, <2>8 DEF RecordOK, Placed, MediaKept
  <2> QED BY <2>1, <2>5, <2>9 DEF Settles, Allowed, RecordOK, AtRest, Aborting
<1> QED BY <1>1, <1>2, <1>3

(***************************************************************************)
(* A remote device sets up a channel, which was free.                      *)
(***************************************************************************)
Rings(d, ch0, ch, c) ==
  /\ c \in Chan /\ Differ(ch0, ch, c) /\ d.addr # NoAddr
  /\ ch0[c].st = "free" /\ ch[c].addr = d.addr /\ ch[c].st = "ringing"
  /\ \A x \in Chan : ch0[x].addr = d.addr => ch0[x].st # "lost"

LEMMA RingsOK ==
  ASSUME NEW d, NEW ch0, NEW ch, NEW c, RecordOK(d, ch0), AtRest(d), Rings(d, ch0, ch, c)
  PROVE  /\ RecordOK(d, ch)
         /\ d.sig = "paging" => UnderWay(d, ch, {c})
         /\ d.sig \notin Joined => d.media # "connected"
<1>1. Follows(d.addr, ch0, ch)
  BY DEF Follows, Rings, Differ
<1>2. RecordOK(d, ch)
  BY <1>1, FollowsOK
<1>3. ASSUME d.sig = "paging" PROVE UnderWay(d, ch, {c})
  <2>1. UnderWay(d, ch0, {}) /\ ~d.out.call
    BY <1>3 DEF RecordOK, Placed, AtRest, NoOutput
  <2>2. \A x \in Chan : ch0[x].st \in Pending => x # c /\ ch[x] = ch0[x]
    BY DEF Rings, Differ, Pending, Inbound
  <2> QED BY <2>1, <2>2 DEF UnderWay
<1>4. d.media = "connected" => d.mSink \in LiveOn(ch0, d.addr)
  BY DEF RecordOK, Sound, SinksOwned, MediaKept
<1>5. d.sig \notin Joined => d.media # "connected"
  BY <1>4 DEF RecordOK, Placed, LiveOn, Rings
<1> QED BY <1>2, <1>3, <1>5

(* initiateSignalling for an inbound channel.                              *)
LEMMA RingsIn ==
  ASSUME NEW d, NEW ch0, NEW ch, NEW c, RecordOK(d, ch0), AtRest(d), Rings(d, ch0, ch, c),
         d.sig \in {"idle", "paging"}, NEW o \in Output, o.drop = {}
  PROVE  LET e == [InitiateSignallingIn(d, c) EXCEPT !.out = o]
         IN  RecordOK(e, ch) /\ Len(e.rx) <= MaxRx /\ e.addr = d.addr
<1> DEFINE e == [InitiateSignallingIn(d, c) EXCEPT !.out = o]
           M == LiveOn(ch, d.addr)
<1>1. d \in Device /\ d.out = NoOutput /\ Len(d.rx) <= MaxRx /\ d.addr # NoAddr
  BY DEF RecordOK, Sound, AtRest, Rings
<1>2. /\ Sound(d, M) /\ Placed(d, ch) /\ d.media # "connected"
      /\ d.sig = "paging" => UnderWay(d, ch, {c})
  BY RingsOK DEF RecordOK, Joined
<1>3. c \in Ends /\ c \in Chan /\ ch[c].addr = d.addr /\ ch[c].st \in Inbound
  BY DEF Rings, Ends, Inbound
<1> HIDE DEF M
<1>4. CASE d.sig = "paging"
  <2>1. e = [d EXCEPT !.sig = "crossover", !.inCid = c, !.inId = TRUE, !.out = o]
    BY <1>1, <1>4 DEF InitiateSignallingIn, Device
  <2> HIDE DEF e
  <2>2. /\ e \in Device /\ e.addr = d.addr /\ e.sig = "crossover" /\ e.inCid = c /\ e.media = d.media
        /\ e.mSink = d.mSink /\ e.stream = d.stream /\ e.linkloss = d.linkloss /\ e.timers = d.timers
        /\ e.issued = d.issued /\ e.sent = d.sent /\ e.label = d.label /\ e.rx = d.rx /\ e.out = o
    BY ZenonT(60), <1>1, <1>3, <2>1 DEF Device, LinkState
  <2>3. Sound(e, M)
    BY <1>1, <1>2, <1>4, <2>2 DEF Sound, SinksOwned, StreamAndMedia, Unused, NoLoss, SettingUp, LabelInStep,
       Bounded, Joined
  <2>4. UnderWay(e, ch, {c})
    BY <1>1, <1>2, <1>4, <2>2 DEF UnderWay, NoOutput
  <2>5. Placed(e, ch)
    BY <1>2, <1>3, <2>2, <2>4 DEF Placed
  <2> QED BY <1>1, <2>2, <2>3, <2>5 DEF RecordOK, M, e
<1>5. CASE d.sig = "idle"
  <2>1. e = [d EXCEPT !.sink = NoChan, !.outCid = NoChan, !.inCid = c, !.inId = TRUE,
                      !.stream = "idle", !.issued = FALSE, !.received = FALSE, !.label = 0,
                      !.sent = << >>, !.rx = << >>, !.sig = "paged", !.out = o]
    BY ZenonT(60), <1>1, <1>5 DEF InitiateSignallingIn, ClearSignalling, Device
  <2>2. /\ "paged" \in LinkState /\ "idle" \in StreamState /\ NoChan \in Ends /\ 0 \in 0..MaxLabel
        /\ FALSE \in BOOLEAN /\ TRUE \in BOOLEAN
    BY LabelAssumption DEF LinkState, StreamState, Stable, Ends
  <2>3. << >> \in Seq(SentCommand) /\ << >> \in Seq(Received) /\ Len(<< >>) = 0
    OBVIOUS
  <2> HIDE DEF e
  <2>4. /\ e \in Device /\ e.addr = d.addr /\ e.sig = "paged" /\ e.inCid = c /\ e.media = d.media
        /\ e.mSink = d.mSink /\ e.stream = "idle" /\ e.linkloss = d.linkloss
        /\ e.issued = FALSE /\ e.sent = << >> /\ e.rx = << >> /\ e.out = o
    BY ZenonT(60), <1>1, <1>3, <2>1, <2>2, <2>3 DEF Device
  <2>5. Sound(e, M)
    BY <1>1, <1>2, <2>3, <2>4, LabelAssumption DEF Sound, SinksOwned, StreamAndMedia, Unused, NoLoss, SettingUp,
       LabelInStep, Bounded, Joined
  <2>6. Placed(e, ch)
    BY <1>2, <1>3, <2>4 DEF Placed
  <2>7. Len(e.rx) <= MaxRx
    BY <2>3, <2>4, EnvironmentAssumption
  <2> QED BY <2>4, <2>5, <2>6, <2>7 DEF RecordOK, M, e
<1> QED BY <1>4, <1>5

(* A question to the client changes nothing else.                          *)
LEMMA AskOK ==
  ASSUME NEW x, NEW ch, RecordOK(x, ch), Len(x.rx) <= MaxRx, ~x.out.call, NEW q \in Question
  PROVE  RecordOK(Ask(x, q), ch) /\ Len(Ask(x, q).rx) <= MaxRx /\ Ask(x, q).addr = x.addr
<1>1. Outcome(x, Ask(x, q), LiveOn(ch, x.addr))
  BY SelfOutcome, AskOutcome
<1>2. RecordOK(Ask(x, q), ch) /\ Ask(x, q).addr = x.addr
  BY <1>1, OutcomeReads, ProcedureOK
<1> QED BY <1>1, <1>2 DEF Outcome

LEMMA ConnectIndOK ==
  ASSUME NEW d, NEW ch0, NEW ch, NEW c, RecordOK(d, ch0), AtRest(d), Rings(d, ch0, ch, c)
  PROVE  Settles(d, ConnectInd(d, c), ch)
<1> DEFINE o == [NoOutput EXCEPT !.yes = @ \cup {c}]
           M == LiveOn(ch, d.addr)
<1>1. d \in Device /\ d.out = NoOutput /\ RecordOK(d, ch) /\ c \in Chan /\ c \in Ends
  BY RingsOK DEF RecordOK, Sound, AtRest, Rings, Ends
<1>2. NoOutput \in Output /\ o \in Output /\ NoOutput.drop = {} /\ o.drop = {} /\ NoOutput.call = FALSE
  BY <1>1 DEF NoOutput, Output
<1> HIDE DEF o
<1>3. CASE d.sig = "idle" \/ (d.sig = "paging" /\ d.linkloss)
  <2> DEFINE x == InitiateSignallingIn(d, c)
  <2>1. ConnectInd(d, c) = [x EXCEPT !.out.yes = @ \cup {c}]
    BY <1>3 DEF ConnectInd
  <2>2. x.out = NoOutput /\ x = [x EXCEPT !.out = NoOutput] /\ [x EXCEPT !.out.yes = @ \cup {c}] = [x EXCEPT !.out = o]
    BY ZenonT(60), <1>1 DEF InitiateSignallingIn, ClearSignalling, Device, o
  <2>3. LET e == [x EXCEPT !.out = o] IN RecordOK(e, ch) /\ Len(e.rx) <= MaxRx /\ e.addr = d.addr
    BY <1>2, <1>3, RingsIn
  <2> HIDE DEF x
  <2> QED BY <1>3, <2>1, <2>2, <2>3 DEF Settles, Allowed, Aborting
<1>4. CASE d.sig = "paging" /\ ~d.linkloss
  <2> DEFINE x == InitiateSignallingIn(d, c)
  <2>1. ConnectInd(d, c) = Ask(x, "connect")
    BY <1>4 DEF ConnectInd
  <2>2. x.out = NoOutput /\ x = [x EXCEPT !.out = NoOutput]
    BY ZenonT(60), <1>1 DEF InitiateSignallingIn, ClearSignalling, Device
  <2>3. LET e == [x EXCEPT !.out = NoOutput] IN RecordOK(e, ch) /\ Len(e.rx) <= MaxRx /\ e.addr = d.addr
    BY <1>2, <1>4, RingsIn
  <2> HIDE DEF x
  <2>4. RecordOK(x, ch) /\ Len(x.rx) <= MaxRx /\ x.addr = d.addr /\ ~x.out.call
    BY <1>2, <2>2, <2>3
  <2>5. RecordOK(Ask(x, "connect"), ch) /\ Len(Ask(x, "connect").rx) <= MaxRx /\ Ask(x, "connect").addr = x.addr
    BY <2>4, AskOK DEF Question
  <2> QED BY <1>4, <2>1, <2>4, <2>5 DEF Settles, Allowed, Aborting
<1>5. CASE d.sig = "connected" /\ d.stream = "remote_opening" /\ d.media = "idle"
  <2>1. ConnectInd(d, c) = InitiateMediaIn(d, c)
    BY <1>5 DEF ConnectInd
  <2>2. Outcome(d, d, M)
    BY <1>1, SelfOutcome
  <2>3. Outcome(d, InitiateMediaIn(d, c), M)
    BY <1>1, <1>5, <2>2, MediaInOutcome
  <2> QED BY <1>1, <1>5, <2>1, <2>3, OutcomeSettles DEF Aborting
<1>6. CASE ~(d.sig = "idle" \/ (d.sig = "paging" /\ d.linkloss)) /\ ~(d.sig = "paging" /\ ~d.linkloss)
           /\ ~(d.sig = "connected" /\ d.stream = "remote_opening" /\ d.media = "idle")
  <2>1. ConnectInd(d, c) = Refuse(d, c)
    BY <1>6 DEF ConnectInd
  <2>2. Outcome(d, Refuse(d, c), M)
    BY <1>1, SelfOutcome, RefuseOutcome
  <2>3. Refuse(d, c).stream = d.stream
    BY <1>1 DEF Refuse, Device
  <2> QED BY <1>1, <2>1, <2>2, <2>3, OutcomeSettles DEF Aborting
<1> QED BY <1>3, <1>4, <1>5, <1>6

(***************************************************************************)
(* A record is taken into use.                                             *)
(***************************************************************************)
LEMMA AddOK ==
  ASSUME NEW d \in Device, NEW a \in Addr, NEW ch
  PROVE  LET f == AddDevice(d, a)
         IN  RecordOK(f, ch) /\ AtRest(f) /\ f.addr = a /\ f.sig = "idle" /\ f.media = "idle"
<1> DEFINE g == FreshDevice
           f == AddDevice(d, a)
           M == LiveOn(ch, a)
<1>1. f = [g EXCEPT !.addr = a, !.timers = d.timers, !.ask = d.ask]
  BY DEF AddDevice
<1>2. d.timers \in SUBSET Timer /\ d.ask \in SUBSET (Question \X (Addr \cup {NoAddr})) /\ a # NoAddr
  BY AddrAssumption DEF Device
<1>3. /\ g \in Device /\ g.sig = "idle" /\ g.media = "idle" /\ g.stream = "idle" /\ g.issued = FALSE
      /\ g.sent = << >> /\ g.rx = << >> /\ g.out = NoOutput /\ g.linkloss = FALSE
  BY FreshFields
<1> HIDE DEF f, g
<1>4. f \in Device
  BY ZenonT(60), <1>1, <1>2, <1>3 DEF Device
<1>5. /\ f.addr = a /\ f.sig = "idle" /\ f.media = "idle" /\ f.stream = "idle" /\ f.issued = FALSE
      /\ f.sent = << >> /\ f.rx = << >> /\ f.out = NoOutput /\ f.linkloss = FALSE
  BY <1>1, <1>3 DEF Device
<1>6. Len(<< >>) = 0
  OBVIOUS
<1>7. Sound(f, M)
  BY <1>2, <1>4, <1>5, <1>6, LabelAssumption DEF Sound, SinksOwned, StreamAndMedia, Unused, NoLoss, SettingUp,
     LabelInStep, Bounded, Joined, MediaKept, NoOutput, MediaStreams
<1>8. Placed(f, ch)
  BY <1>5 DEF Placed
<1>9. AtRest(f)
  BY <1>5, <1>6, EnvironmentAssumption DEF AtRest
<1> QED BY <1>5, <1>7, <1>8, <1>9 DEF RecordOK, f

(* a2dpHandleL2capConnectInd for a remote device without a record.         *)
LEMMA ConnectIndNewOK ==
  ASSUME NEW d \in Device, NEW a \in Addr, NEW ch0, NEW ch, NEW c \in Chan, Differ(ch0, ch, c),
         ch0[c].st = "free", ch[c].addr = a, ch[c].st = "ringing",
         \A x \in Chan : ch0[x].addr = a => ch0[x].st # "lost"
  PROVE  LET e == ConnectIndNew(d, a, c)
         IN  RecordOK(e, ch) /\ Len(e.rx) <= MaxRx /\ e.addr = a
<1> DEFINE f == AddDevice(d, a)
           x == InitiateSignallingIn(f, c)
<1>1. RecordOK(f, ch0) /\ AtRest(f) /\ f.addr = a /\ f.sig = "idle" /\ f \in Device
  BY AddOK DEF RecordOK, Sound
<1>2. ConnectIndNew(d, a, c) = Ask(x, "connect")
  BY DEF ConnectIndNew
<1> HIDE DEF f
<1>3. Rings(f, ch0, ch, c)
  BY <1>1, AddrAssumption DEF Rings
<1>4. NoOutput \in Output /\ NoOutput.drop = {} /\ ~NoOutput.call
  BY DEF NoOutput, Output
<1>5. LET e == [x EXCEPT !.out = NoOutput] IN RecordOK(e, ch) /\ Len(e.rx) <= MaxRx /\ e.addr = f.addr
  BY <1>1, <1>3, <1>4, RingsIn
<1>6. x.out = NoOutput /\ x = [x EXCEPT !.out = NoOutput]
  BY ZenonT(60), <1>1 DEF InitiateSignallingIn, ClearSignalling, Device, AtRest
<1> HIDE DEF x
<1>7. RecordOK(x, ch) /\ Len(x.rx) <= MaxRx /\ x.addr = a /\ ~x.out.call
  BY <1>1, <1>4, <1>5, <1>6
<1>8. RecordOK(Ask(x, "connect"), ch) /\ Len(Ask(x, "connect").rx) <= MaxRx /\ Ask(x, "connect").addr = x.addr
  BY <1>7, AskOK DEF Question
<1> QED BY <1>2, <1>7, <1>8

(***************************************************************************)
(* Requests and answers of the client on signalling channels.              *)
(***************************************************************************)
(* a2dpHandleSignallingConnectReq for a remote device without a record.    *)
LEMMA ConnectOutOK ==
  ASSUME NEW d \in Device, NEW a \in Addr, NEW ch
  PROVE  LET e == ConnectOut(d, a)
         IN  RecordOK(e, ch) /\ Len(e.rx) <= MaxRx /\ e.addr = a
<1> DEFINE f == AddDevice(d, a)
           o == [NoOutput EXCEPT !.call = TRUE, !.sdp = (f.version = "not_requested")]
           W == {"connect"}
           e == ConnectOut(d, a)
           M == LiveOn(ch, a)
<1>1. RecordOK(f, ch) /\ AtRest(f) /\ f.addr = a /\ f.media = "idle"
  BY AddOK
<1>2. f \in Device /\ f.out = NoOutput /\ a # NoAddr
  BY <1>1, AddrAssumption DEF RecordOK, Sound, AtRest
<1>3. o \in Output /\ o.drop = {} /\ o.call
  BY DEF NoOutput, Output
<1>4. e = [f EXCEPT !.sink = NoChan, !.outCid = NoChan, !.inCid = NoChan, !.inId = FALSE,
                    !.stream = "idle", !.issued = FALSE, !.received = FALSE, !.label = 0,
                    !.sent = << >>, !.rx = << >>, !.sig = "paging", !.owed = W, !.out = o]
  <2> DEFINE n == [InitiateSignallingOut(f) EXCEPT !.owed = W, !.out.call = TRUE]
  <2>1. e = RequestVersion(n)
    BY DEF ConnectOut
  <2> HIDE DEF f
  <2>2. n = [f EXCEPT !.sink = NoChan, !.outCid = NoChan, !.inCid = NoChan, !.inId = FALSE,
                      !.stream = "idle", !.issued = FALSE, !.received = FALSE, !.label = 0,
                      !.sent = << >>, !.rx = << >>, !.sig = "paging", !.owed = W,
                      !.out = [NoOutput EXCEPT !.call = TRUE]]
    BY <1>2 DEF InitiateSignallingOut, ClearSignalling, Device
  <2>3. n.version = f.version /\ n.out = [NoOutput EXCEPT !.call = TRUE]
    BY <1>2, <2>2 DEF Device
  <2>4. RequestVersion(n) = [n EXCEPT !.out = o]
    BY <2>3 DEF RequestVersion, NoOutput
  <2> HIDE DEF o, e, n
  <2> QED BY <1>2, <2>1, <2>2, <2>4 DEF Device
<1> HIDE DEF e, f, o
<1>5. /\ "paging" \in LinkState /\ "idle" \in StreamState /\ NoChan \in Ends /\ 0 \in 0..MaxLabel
      /\ FALSE \in BOOLEAN /\ W \in SUBSET {"connect", "open"}
  BY LabelAssumption DEF LinkState, StreamState, Stable, Ends
<1> HIDE DEF W
<1>6. << >> \in Seq(SentCommand) /\ << >> \in Seq(Received) /\ Len(<< >>) = 0
  OBVIOUS
<1>7. /\ e \in Device /\ e.addr = a /\ e.sig = "paging" /\ e.media = "idle" /\ e.stream = "idle"
      /\ e.issued = FALSE /\ e.sent = << >> /\ e.rx = << >> /\ e.out = o
  <2>1. e \in Device
    BY ZenonT(60), <1>2, <1>3, <1>4, <1>5, <1>6 DEF Device
  <2>2. /\ e.addr = f.addr /\ e.sig = "paging" /\ e.media = f.media /\ e.stream = "idle"
        /\ e.issued = FALSE /\ e.sent = << >> /\ e.rx = << >> /\ e.out = o
    BY <1>2, <1>4 DEF Device
  <2> QED BY <1>1, <2>1, <2>2
<1>8. Sound(e, M)
  BY <1>2, <1>3, <1>6, <1>7, LabelAssumption DEF Sound, SinksOwned, StreamAndMedia, Unused, NoLoss, SettingUp,
     LabelInStep, Bounded, Joined, MediaKept
<1>9. Placed(e, ch)
  BY <1>3, <1>7 DEF Placed, UnderWay
<1>10. Len(e.rx) <= MaxRx
  BY <1>6, <1>7, EnvironmentAssumption
<1> QED BY <1>7, <1>8, <1>9, <1>10 DEF RecordOK, e

(* a2dpHandleSignallingConnectRes: an attempt that was refused leaves the  *)
(* one it crossed.                                                         *)
LEMMA ConnectResOK ==
  ASSUME NEW d, NEW ch, RecordOK(d, ch), AtRest(d), NEW accept \in BOOLEAN
  PROVE  Settles(d, SignallingConnectRes(d, accept), ch)
<1> DEFINE e == SignallingConnectRes(d, accept)
           M == LiveOn(ch, d.addr)
<1>1. d \in Device /\ d.out = NoOutput /\ Len(d.rx) <= MaxRx /\ Sound(d, M) /\ Placed(d, ch)
  BY DEF RecordOK, Sound, AtRest
<1> HIDE DEF M
<1>2. CASE d.sig \notin {"paged", "crossover"}
  <2>1. e = d
    BY <1>2 DEF SignallingConnectRes
  <2> HIDE DEF e
  <2> QED BY <1>1, <2>1 DEF Settles, Allowed, Aborting, e
<1>3. CASE d.sig \in {"paged", "crossover"}
  <2> DEFINE g == IF d.sig = "crossover" /\ ~accept THEN "paging" ELSE d.sig
             y == IF accept THEN NoOutput.yes \cup {d.inCid} ELSE NoOutput.yes
             n == IF accept THEN NoOutput.no ELSE NoOutput.no \cup {d.inCid}
             z == [NoOutput EXCEPT !.yes = y, !.no = n]
             o == [z EXCEPT !.sdp = (d.version = "not_requested")]
  <2>1. d.addr # NoAddr /\ d.inCid \in Ends
    BY <1>1, <1>3 DEF Sound, Unused, Device
  <2>2. g \in {"paged", "crossover", "paging"} /\ g \in LinkState /\ (g = "crossover" => d.sig = "crossover")
        /\ (g = "paging" => d.sig = "crossover") /\ (g = "paged" => d.sig = "paged")
    BY <1>3 DEF LinkState
  <2>3. o \in Output /\ o.drop = {}
    <3>1. y \in SUBSET Ends /\ n \in SUBSET Ends
      BY <2>1 DEF NoOutput
    <3>2. NoOutput \in Output /\ NoOutput.drop = {}
      BY DEF NoOutput, Output
    <3> HIDE DEF y, n
    <3> QED BY <3>1, <3>2 DEF Output
  <2>4. e = [d EXCEPT !.sig = g, !.inId = FALSE, !.out = o]
    <3> DEFINE x == [d EXCEPT !.sig = g, !.inId = FALSE,
                      !.out.yes = IF accept THEN @ \cup {d.inCid} ELSE @,
                      !.out.no = IF accept THEN @ ELSE @ \cup {d.inCid}]
    <3>1. e = RequestVersion(x)
      BY <1>3 DEF SignallingConnectRes
    <3>2. x = [d EXCEPT !.sig = g, !.inId = FALSE, !.out = z]
      <4> DEFINE w == [[d.out EXCEPT !.yes = IF accept THEN d.out.yes \cup {d.inCid} ELSE d.out.yes]
                          EXCEPT !.no = IF accept THEN d.out.no ELSE d.out.no \cup {d.inCid}]
      <4>1. w = z
        BY <1>1 DEF NoOutput
      <4> HIDE DEF g
      <4>2. x = [d EXCEPT !.sig = g, !.inId = FALSE, !.out = w]
        BY <1>1 DEF Device, NoOutput
      <4> QED BY <4>1, <4>2
    <3> HIDE DEF x, g, z
    <3>3. x.version = d.version /\ x.out = z
      BY <1>1, <3>2 DEF Device
    <3>4. RequestVersion(x) = [x EXCEPT !.out = o]
      BY <3>3 DEF RequestVersion
    <3> HIDE DEF o, e
    <3> QED BY <1>1, <3>1, <3>2, <3>4 DEF Device
  <2> HIDE DEF g, o, e
  <2>5. /\ e \in Device /\ e.addr = d.addr /\ e.sig = g /\ e.inCid = d.inCid /\ e.media = d.media
        /\ e.mSink = d.mSink /\ e.stream = d.stream /\ e.linkloss = d.linkloss /\ e.timers = d.timers
        /\ e.issued = d.issued /\ e.sent = d.sent /\ e.label = d.label /\ e.rx = d.rx /\ e.out = o
    BY ZenonT(60), <1>1, <2>2, <2>3, <2>4 DEF Device
  <2>6. Sound(e, M)
    BY <1>1, <1>3, <2>1, <2>2, <2>3, <2>5 DEF Sound, SinksOwned, StreamAndMedia, Unused, NoLoss, SettingUp,
       LabelInStep, Bounded, Joined
  <2>7. \A X : UnderWay(d, ch, X) => UnderWay(e, ch, X) /\ UnderWay(e, ch, {})
    BY <1>1, <2>5 DEF UnderWay, NoOutput
  <2>8. d.media # "connected"
    BY <1>1, <1>3 DEF Sound, StreamAndMedia, SettingUp
  <2>9. Placed(e, ch)
    BY <1>1, <1>3, <2>2, <2>5, <2>7, <2>8 DEF Placed
  <2>10. ~Aborting(d)
    BY <1>3 DEF Aborting
  <2> QED BY <1>1, <2>5, <2>6, <2>9, <2>10 DEF Settles, Allowed, RecordOK, M, e
<1> QED BY <1>2, <1>3

(***************************************************************************)
(* Reading the source of a signalling channel.                             *)
(***************************************************************************)
LEMMA KeepsOK ==
  ASSUME NEW ch, NEW d, NEW e, RecordOK(d, ch), ~d.out.call, Sound(e, LiveOn(ch, d.addr)), Keeps(d, e)
  PROVE  RecordOK(e, ch) /\ e.addr = d.addr
<1>1. /\ e.addr = d.addr /\ e.inCid = d.inCid
      /\ e.sig = d.sig \/ {d.sig, e.sig} \subseteq Joined
      /\ "retry" \in d.timers => "retry" \in e.timers
      /\ e.media = "connected" => d.media = "connected" /\ e.mSink = d.mSink
  BY DEF Keeps
<1>2. \A X : UnderWay(d, ch, X) => UnderWay(e, ch, X)
  BY <1>1 DEF UnderWay
<1>3. Placed(e, ch)
  BY <1>1, <1>2 DEF RecordOK, Placed, Joined
<1> QED BY <1>1, <1>3 DEF RecordOK

LEMMA ReadOK ==
  ASSUME NEW ch, NEW d, RecordOK(d, ch), ~d.out.call, Len(d.rx) <= MaxRx
  PROVE  LET e == HandleSignalPacket(d)
         IN  /\ RecordOK(e, ch) /\ e.addr = d.addr /\ Len(e.rx) <= MaxRx
             /\ MaxRx <= 1 /\ d.stream = "local_aborting" => e.stream \in {"local_aborting", "idle"}
<1> DEFINE e == HandleSignalPacket(d)
<1>1. d \in Device /\ Sound(d, LiveOn(ch, d.addr))
  BY DEF RecordOK, Sound
<1>2. Reads(d, e, LiveOn(ch, d.addr))
  BY <1>1, SourceReads
<1> HIDE DEF e
<1>3. RecordOK(e, ch) /\ e.addr = d.addr /\ Len(e.rx) <= Len(d.rx) /\ e.rx \in Seq(Received)
  BY <1>2, ProcedureOK
<1>4. d.rx \in Seq(Received)
  BY <1>1 DEF Device
<1>5. Len(e.rx) <= MaxRx
  BY <1>3, <1>4, Within
<1>6. ASSUME MaxRx <= 1, d.stream = "local_aborting" PROVE e.stream \in {"local_aborting", "idle"}
  <2>1. Len(d.rx) \in Nat /\ MaxRx \in Nat
    BY <1>4, EnvironmentAssumption
  <2>2. Len(d.rx) <= 1
    BY <1>6, <2>1
  <2> QED BY <1>1, <1>6, <2>2, AbortedReads DEF e
<1> QED BY <1>3, <1>5, <1>6 DEF e

(* A packet arrives, at a record b that is d but for what was answered.    *)
LEMMA ArrivesOK ==
  ASSUME NEW ch, NEW d, RecordOK(d, ch), AtRest(d), NEW b, Outcome(d, b, LiveOn(ch, d.addr)),
         b.stream = d.stream, b.out = d.out, NEW p \in Received, Len(b.rx) < MaxRx
  PROVE  Settles(d, HandleSignalPacket([b EXCEPT !.rx = Append(@, p)]), ch)
<1> DEFINE q == Append(b.rx, p)
           r == [b EXCEPT !.rx = q]
           e == HandleSignalPacket(r)
           M == LiveOn(ch, d.addr)
<1>1. b \in Device /\ Sound(b, M) /\ Keeps(d, b) /\ ~d.out.call
  BY DEF Outcome, Sound, AtRest, NoOutput
<1>2. b.rx \in Seq(Received) /\ Len(b.rx) \in Nat /\ MaxRx \in Nat
  BY <1>1, EnvironmentAssumption DEF Device
<1>3. q \in Seq(Received) /\ Len(q) = Len(b.rx) + 1
  BY <1>2
<1>4. [b EXCEPT !.rx = Append(@, p)] = r
  OBVIOUS
<1> HIDE DEF q
<1>5. r.stream = b.stream /\ r.out = b.out /\ r.rx = q
  BY <1>1 DEF Device
<1>6. Sound(r, M) /\ Keeps(b, r)
  BY <1>1, <1>3, SourceSound
<1> HIDE DEF r
<1>7. Keeps(d, r)
  BY <1>1, <1>6, KeepsOn
<1>8. RecordOK(r, ch) /\ r.addr = d.addr
  BY <1>1, <1>6, <1>7, KeepsOK
<1>9. Len(r.rx) <= MaxRx /\ ~r.out.call
  BY <1>1, <1>2, <1>3, <1>5
<1>10. /\ RecordOK(e, ch) /\ e.addr = r.addr /\ Len(e.rx) <= MaxRx
       /\ MaxRx <= 1 /\ r.stream = "local_aborting" => e.stream \in {"local_aborting", "idle"}
  BY <1>8, <1>9, ReadOK
<1> HIDE DEF e
<1>11. Settles(d, e, ch)
  BY <1>5, <1>8, <1>10 DEF Settles, Allowed, Aborting
<1> QED BY <1>4, <1>11 DEF e

(* The version of the remote device becomes known.                         *)
LEMMA VersionFoundOK ==
  ASSUME NEW ch, NEW d, RecordOK(d, ch), AtRest(d), NEW v \in Version
  PROVE  Settles(d, VersionFound(d, v), ch)
<1> DEFINE r == [d EXCEPT !.version = v]
           M == LiveOn(ch, d.addr)
<1>1. d \in Device /\ d.out = NoOutput /\ ~NoOutput.call /\ Len(d.rx) <= MaxRx
  BY DEF RecordOK, Sound, AtRest, NoOutput
<1>2. Outcome(d, d, M)
  BY SelfOutcome
<1>3. r \in Device /\ Alike(d, r) /\ r.issued = d.issued /\ r.sent = d.sent /\ r.label = d.label /\ r.out = d.out
  BY ZenonT(60), <1>1 DEF Device, Alike
<1>4. VersionFound(d, v) = IF d.version # "not_requested" THEN d
                           ELSE IF d.sig = "connected" THEN SignallingUp(r) ELSE r
  BY DEF VersionFound
<1> HIDE DEF r, M
<1>5. Outcome(d, r, M) /\ r.stream = d.stream /\ r.rx = d.rx
  BY <1>2, <1>3, SameOutcome DEF Alike
<1>6. Settles(d, d, ch) /\ Settles(d, r, ch)
  BY <1>2, <1>5, OutcomeSettles DEF M, Aborting
<1> DEFINE q == SignallingConnectCfm(r)
           e == HandleSignalPacket(q)
<1>7. RecordOK(r, ch) /\ r.addr = d.addr /\ AtRest(r)
  BY <1>1, <1>3, <1>5, <1>6 DEF Settles, AtRest, Alike
<1>8. RecordOK(q, ch) /\ Len(q.rx) <= MaxRx /\ q.addr = r.addr /\ q.stream = r.stream
  BY <1>7, ConfirmOK DEF SignallingConnectCfm
<1>9. ~q.out.call
  BY <1>1, <1>3 DEF SignallingConnectCfm, Confirm, Device
<1>10. SignallingUp(r) \in {r, e}
  BY DEF SignallingUp
<1> HIDE DEF q
<1>11. /\ RecordOK(e, ch) /\ e.addr = q.addr /\ Len(e.rx) <= MaxRx
       /\ MaxRx <= 1 /\ q.stream = "local_aborting" => e.stream \in {"local_aborting", "idle"}
  BY <1>8, <1>9, ReadOK
<1> HIDE DEF e
<1>12. Settles(d, e, ch)
  BY <1>5, <1>7, <1>8, <1>11 DEF Settles, Allowed, Aborting
<1> QED BY <1>4, <1>6, <1>10, <1>12

(* a2dpHandleL2capConnectReq: the request that was put off is made.        *)
LEMMA RetryOK ==
  ASSUME NEW ch, NEW d, RecordOK(d, ch), AtRest(d)
  PROVE  Settles(d, RetryTimeout([d EXCEPT !.timers = @ \ {"retry"}]), ch)
<1> DEFINE o == [NoOutput EXCEPT !.call = TRUE]
           T == d.timers \ {"retry"}
           e == RetryTimeout([d EXCEPT !.timers = T])
           M == LiveOn(ch, d.addr)
<1>1. d \in Device /\ d.out = NoOutput /\ Len(d.rx) <= MaxRx /\ Sound(d, M) /\ Placed(d, ch)
  BY DEF RecordOK, Sound, AtRest
<1>2. o \in Output /\ o.drop = {} /\ ~o.sdp /\ o.call
  BY DEF NoOutput, Output
<1>3. T \in SUBSET Timer
  BY <1>1 DEF Device
<1>4. e = [d EXCEPT !.timers = T, !.out = o]
  BY <1>1 DEF RetryTimeout, Device
<1>5. [d EXCEPT !.timers = @ \ {"retry"}] = [d EXCEPT !.timers = T]
  OBVIOUS
<1> HIDE DEF o, T, e, M
<1>6. /\ e \in Device /\ e.addr = d.addr /\ e.sig = d.sig /\ e.sink = d.sink /\ e.inCid = d.inCid
      /\ e.media = d.media /\ e.mSink = d.mSink /\ e.stream = d.stream /\ e.linkloss = d.linkloss
      /\ e.issued = d.issued /\ e.sent = d.sent /\ e.label = d.label /\ e.rx = d.rx /\ e.out = o
  BY ZenonT(60), <1>1, <1>2, <1>3, <1>4 DEF Device
<1>7. Sound(e, M)
  BY <1>1, <1>2, <1>6 DEF Sound, SinksOwned, StreamAndMedia, Unused, NoLoss, SettingUp, LabelInStep, Bounded
<1>8. Placed(e, ch)
  BY <1>1, <1>2, <1>6 DEF Placed, UnderWay
<1>9. Settles(d, e, ch)
  BY <1>1, <1>6, <1>7, <1>8 DEF Settles, Allowed, Aborting, RecordOK, M
<1> QED BY <1>5, <1>9 DEF e

(***************************************************************************)
(* The steps keep the invariant, and do to every record what is allowed.   *)
(***************************************************************************)
Changes == \A s \in Slot : Allowed(dev[s], dev'[s])

LEMMA AllowedSelf == \A d : Allowed(d, d)
BY DEF Allowed, Aborting

LEMMA Parts ==
  ASSUME IInv
  PROVE  /\ dev \in [Slot -> Device] /\ Distinct(dev)
         /\ \A s \in Slot : dev[s] \in Device /\ RecordOK(dev[s], chan) /\ AtRest(dev[s])
         /\ \A s \in Slot : dev[s].out = NoOutput /\ Len(dev[s].rx) <= MaxRx
         /\ ChannelsOK(chan) /\ sdp \subseteq Addr /\ waiting \subseteq Slot \X Addr /\ panicked \in BOOLEAN
BY DEF IInv, Records, AtRest

LEMMA SameInv ==
  ASSUME IInv, UNCHANGED <<dev, chan>>, sdp' \subseteq Addr, waiting' \subseteq Slot \X Addr, panicked' \in BOOLEAN
  PROVE  IInv' /\ Changes
<1>1. Records(dev, chan)' /\ ChannelsOK(chan)'
  BY DEF IInv, Records, ChannelsOK, Distinct
<1>2. Changes
  BY AllowedSelf DEF Changes
<1> QED BY <1>1, <1>2 DEF IInv

(* A step that leaves record s with d.                                     *)
LEMMA Committed ==
  ASSUME IInv, NEW s \in Slot, NEW d, NEW ch, ChannelsOK(ch), Emit(s, d, ch),
         RecordOK(d, ch), Len(d.rx) <= MaxRx, Allowed(dev[s], d),
         \A t \in Slot \ {s} : RecordOK(dev[t], ch),
         \A t \in Slot \ {s} : d.addr # NoAddr => dev[t].addr # d.addr
  PROVE  Records(dev, chan)' /\ ChannelsOK(chan)' /\ Changes
<1>1. dev \in [Slot -> Device] /\ Distinct(dev) /\ \A t \in Slot : AtRest(dev[t])
  BY Parts
<1>2. /\ Records(dev', chan') /\ ChannelsOK(chan')
      /\ dev'[s] = [d EXCEPT !.out = NoOutput] /\ \A t \in Slot \ {s} : dev'[t] = dev[t]
  BY <1>1, EmitRecords
<1>3. d \in Device
  BY DEF RecordOK, Sound
<1>4. dev'[s].addr = d.addr /\ dev'[s].stream = d.stream
  BY <1>2, <1>3 DEF Device
<1>5. Allowed(dev[s], dev'[s])
  BY <1>4 DEF Allowed
<1>6. Changes
  BY <1>2, <1>5, AllowedSelf DEF Changes
<1> QED BY <1>2, <1>6

(* An SDP search is asked for a device with an address only.               *)
LEMMA SearchOK ==
  ASSUME IInv, NEW s, NEW d, NEW ch, RecordOK(d, ch), Commit(s, d, ch)
  PROVE  sdp' \subseteq Addr
<1>1. d.addr \in Addr \cup {NoAddr} /\ (d.addr = NoAddr => ~d.out.sdp)
  BY DEF RecordOK, Sound, Unused, Device
<1>2. sdp' = IF d.out.sdp THEN sdp \cup {d.addr} ELSE sdp
  BY DEF Commit
<1> QED BY <1>1, <1>2, Parts

LEMMA StepOK ==
  ASSUME IInv, NEW s \in Slot, NEW d, Commit(s, d, chan), UNCHANGED waiting, panicked' \in BOOLEAN,
         Settles(dev[s], d, chan)
  PROVE  IInv' /\ Changes
<1>1. RecordOK(d, chan) /\ Len(d.rx) <= MaxRx /\ d.addr \in {dev[s].addr, NoAddr} /\ Allowed(dev[s], d)
  BY DEF Settles
<1>2. \A t \in Slot \ {s} : d.addr # NoAddr => dev[t].addr # d.addr
  BY <1>1, Parts DEF Distinct
<1>3. Records(dev, chan)' /\ ChannelsOK(chan)' /\ Changes
  BY <1>1, <1>2, Parts, Committed DEF Commit
<1>4. sdp' \subseteq Addr
  BY <1>1, SearchOK
<1> QED BY <1>3, <1>4, Parts DEF IInv

(* The records that an event of channel c is not for.                      *)
LEMMA OthersOK ==
  ASSUME IInv, NEW c \in Chan, NEW ch, Differ(chan, ch, c), NEW t \in Slot,
         dev[t].addr = NoAddr \/ dev[t].addr # chan[c].addr
  PROVE  RecordOK(dev[t], ch)
<1>1. CASE dev[t].addr = NoAddr
  BY <1>1, Parts, UnusedOK DEF NoOutput
<1>2. CASE dev[t].addr # chan[c].addr
  <2>1. Follows(dev[t].addr, chan, ch)
    BY <1>2 DEF Follows, Differ
  <2> QED BY <2>1, Parts, FollowsOK
<1> QED BY <1>1, <1>2

LEMMA EventOK ==
  ASSUME IInv, NEW c \in Chan, NEW ch, ChannelsOK(ch), Differ(chan, ch, c),
         NEW s \in Slot, dev[s].addr = chan[c].addr, NEW d, Commit(s, d, ch), Settles(dev[s], d, ch),
         UNCHANGED <<waiting, panicked>>
  PROVE  IInv' /\ Changes
<1>1. RecordOK(d, ch) /\ Len(d.rx) <= MaxRx /\ d.addr \in {dev[s].addr, NoAddr} /\ Allowed(dev[s], d)
  BY DEF Settles
<1>2. \A t \in Slot \ {s} : d.addr # NoAddr => dev[t].addr # d.addr
  BY <1>1, Parts DEF Distinct
<1>3. \A t \in Slot \ {s} : dev[t].addr = NoAddr \/ dev[t].addr # chan[c].addr
  BY Parts DEF Distinct
<1>4. \A t \in Slot \ {s} : RecordOK(dev[t], ch)
  BY <1>3, OthersOK
<1>5. Records(dev, chan)' /\ ChannelsOK(chan)' /\ Changes
  BY <1>1, <1>2, <1>4, Committed DEF Commit
<1>6. sdp' \subseteq Addr
  BY <1>1, SearchOK
<1> QED BY <1>5, <1>6, Parts DEF IInv

(* The event of a channel whose device has no record.                      *)
LEMMA EventAlone ==
  ASSUME IInv, NEW c \in Chan, NEW ch, ChannelsOK(ch), Differ(chan, ch, c), SlotsOf(chan[c].addr) = {},
         chan' = ch, UNCHANGED <<dev, sdp, waiting, panicked>>
  PROVE  IInv' /\ Changes
<1>1. \A t \in Slot : RecordOK(dev[t], ch)
  BY OthersOK DEF SlotsOf
<1>2. Records(dev, chan)'
  BY <1>1, Parts DEF Records
<1>3. ChannelsOK(chan)' /\ Changes
  BY AllowedSelf DEF ChannelsOK, Changes
<1> QED BY <1>2, <1>3, Parts DEF IInv

(* What every record sees of a channel that was free.                      *)
LEMMA WasFree ==
  ASSUME IInv, NEW c \in Chan, NEW ch, Differ(chan, ch, c), chan[c].st = "free", NEW t \in Slot
  PROVE  RecordOK(dev[t], ch)
<1>1. Follows(dev[t].addr, chan, ch)
  BY DEF Follows, Differ
<1> QED BY <1>1, Parts, FollowsOK

-----------------------------------------------------------------------------
LEMMA PendingStep ==
  ASSUME IInv, NEW c \in Chan, L2capConnectPending(c)
  PROVE  IInv' /\ Changes
<1> DEFINE ch == [chan EXCEPT ![c] = IF "calling" = "free" THEN FreeChan ELSE [@ EXCEPT !.st = "calling"]]
           a == chan[c].addr
<1>1. /\ chan[c].st = "requested" /\ UNCHANGED <<waiting, panicked>>
      /\ \/ \E s \in SlotsOf(a) : Commit(s, ConnectPending(dev[s], c), ch)
         \/ SlotsOf(a) = {} /\ chan' = ch /\ UNCHANGED <<dev, sdp>>
  BY DEF L2capConnectPending, ChannelStep
<1>2. chan \in [Chan -> [st : ChanState, addr : Addr \cup {NoAddr}]]
  BY Parts DEF ChannelsOK
<1>3. /\ ch \in [Chan -> [st : ChanState, addr : Addr \cup {NoAddr}]]
      /\ ch[c].st = "calling" /\ ch[c].addr = a /\ Differ(chan, ch, c)
  BY <1>2 DEF ChanState, Differ
<1> HIDE DEF ch
<1>4. ChannelsOK(ch)
  BY <1>1, <1>3, Parts DEF ChannelsOK, Differ
<1>5. ASSUME NEW s \in SlotsOf(a), Commit(s, ConnectPending(dev[s], c), ch) PROVE IInv' /\ Changes
  <2>1. s \in Slot /\ dev[s].addr = a
    BY DEF SlotsOf
  <2>2. Follows(dev[s].addr, chan, ch)
    BY <1>1, <1>3 DEF Follows, Differ
  <2>3. Settles(dev[s], ConnectPending(dev[s], c), ch)
    BY <2>1, <2>2, Parts, FollowsOK, ConnectPendingOK
  <2> QED BY <1>1, <1>3, <1>4, <1>5, <2>1, <2>3, EventOK
<1>6. CASE SlotsOf(a) = {} /\ chan' = ch /\ UNCHANGED <<dev, sdp>>
  BY <1>1, <1>3, <1>4, <1>6, EventAlone
<1> QED BY <1>1, <1>5, <1>6

LEMMA SuccessStep ==
  ASSUME IInv, NEW c \in Chan, L2capConnectSuccess(c)
  PROVE  IInv' /\ Changes
<1> DEFINE ch == [chan EXCEPT ![c] = IF "up" = "free" THEN FreeChan ELSE [@ EXCEPT !.st = "up"]]
           a == chan[c].addr
<1>1. /\ chan[c].st \in {"calling", "accepted"} /\ a # NoAddr /\ LinkSettled(a) /\ UNCHANGED <<waiting, panicked>>
      /\ \/ \E s \in SlotsOf(a) : Commit(s, ConnectSuccess(dev[s], c), ch)
         \/ SlotsOf(a) = {} /\ chan' = ch /\ UNCHANGED <<dev, sdp>>
  BY DEF L2capConnectSuccess, ChannelStep
<1>2. chan \in [Chan -> [st : ChanState, addr : Addr \cup {NoAddr}]]
  BY Parts DEF ChannelsOK
<1>3. /\ ch \in [Chan -> [st : ChanState, addr : Addr \cup {NoAddr}]]
      /\ ch[c].st = "up" /\ ch[c].addr = a /\ Differ(chan, ch, c)
  BY <1>2 DEF ChanState, Differ
<1> HIDE DEF ch
<1>4. ChannelsOK(ch)
  BY <1>1, <1>3, Parts DEF ChannelsOK, Differ, LinkSettled
<1>5. ASSUME NEW s \in SlotsOf(a), Commit(s, ConnectSuccess(dev[s], c), ch) PROVE IInv' /\ Changes
  <2>1. s \in Slot /\ dev[s].addr = a
    BY DEF SlotsOf
  <2>2. Comes(dev[s], chan, ch, c)
    BY <1>1, <1>3, <2>1 DEF Comes
  <2>3. Settles(dev[s], ConnectSuccess(dev[s], c), ch)
    BY <2>1, <2>2, Parts, ConnectSuccessOK
  <2> QED BY <1>1, <1>3, <1>4, <1>5, <2>1, <2>3, EventOK
<1>6. CASE SlotsOf(a) = {} /\ chan' = ch /\ UNCHANGED <<dev, sdp>>
  BY <1>1, <1>3, <1>4, <1>6, EventAlone
<1> QED BY <1>1, <1>5, <1>6

(* The channels after one of them is gone.                                 *)
LEMMA GoneOK ==
  ASSUME IInv, NEW c \in Chan
  PROVE  LET ch == [chan EXCEPT ![c] = FreeChan]
         IN  ch[c] = FreeChan /\ Differ(chan, ch, c) /\ ChannelsOK(ch)
<1> DEFINE ch == [chan EXCEPT ![c] = FreeChan]
<1>1. chan \in [Chan -> [st : ChanState, addr : Addr \cup {NoAddr}]]
  BY Parts DEF ChannelsOK
<1>2. ch \in [Chan -> [st : ChanState, addr : Addr \cup {NoAddr}]] /\ ch[c] = FreeChan /\ Differ(chan, ch, c)
  BY <1>1 DEF ChanState, FreeChan, Differ
<1> HIDE DEF ch
<1>3. ChannelsOK(ch)
  BY <1>2, Parts DEF ChannelsOK, Differ, FreeChan
<1> QED BY <1>2, <1>3 DEF ch

LEMMA FailureStep ==
  ASSUME IInv, NEW c \in Chan, L2capConnectFailure(c)
  PROVE  IInv' /\ Changes
<1> DEFINE ch == [chan EXCEPT ![c] = FreeChan]
           a == chan[c].addr
<1>1. /\ chan[c].st \in {"refused", "calling", "ringing", "accepted"} /\ UNCHANGED <<waiting, panicked>>
      /\ \/ \E s \in SlotsOf(a) : Commit(s, ConnectFailure(dev[s], c), ch)
         \/ SlotsOf(a) = {} /\ chan' = ch /\ UNCHANGED <<dev, sdp>>
  BY DEF L2capConnectFailure, ChannelStep
<1>2. ch[c] = FreeChan /\ Differ(chan, ch, c) /\ ChannelsOK(ch)
  BY GoneOK
<1> HIDE DEF ch
<1>3. ASSUME NEW s \in SlotsOf(a), Commit(s, ConnectFailure(dev[s], c), ch) PROVE IInv' /\ Changes
  <2>1. s \in Slot /\ dev[s].addr = a
    BY DEF SlotsOf
  <2>2. Fails(dev[s], chan, ch, c)
    BY <1>1, <1>2, <2>1 DEF Fails
  <2>3. Settles(dev[s], ConnectFailure(dev[s], c), ch)
    BY <2>1, <2>2, Parts, ConnectFailureOK
  <2> QED BY <1>1, <1>2, <1>3, <2>1, <2>3, EventOK
<1>4. CASE SlotsOf(a) = {} /\ chan' = ch /\ UNCHANGED <<dev, sdp>>
  BY <1>1, <1>2, <1>4, EventAlone
<1> QED BY <1>1, <1>3, <1>4

LEMMA DisconnectSteps ==
  ASSUME IInv, NEW c \in Chan, L2capDisconnect(c) \/ L2capLinklossInd(c)
  PROVE  IInv' /\ Changes
<1> DEFINE ch == [chan EXCEPT ![c] = FreeChan]
           a == chan[c].addr
<1>1. PICK linkloss \in BOOLEAN :
        /\ chan[c].st \in (IF linkloss THEN {"lost"} ELSE {"up", "closing"}) /\ UNCHANGED <<waiting, panicked>>
        /\ \/ \E s \in SlotsOf(a) : Commit(s, Disconnected(dev[s], c, linkloss), ch)
           \/ SlotsOf(a) = {} /\ chan' = ch /\ UNCHANGED <<dev, sdp>>
  <2>1. CASE L2capDisconnect(c)
    BY <2>1 DEF L2capDisconnect, ChannelStep
  <2>2. CASE L2capLinklossInd(c)
    BY <2>2 DEF L2capLinklossInd, ChannelStep
  <2> QED BY <2>1, <2>2
<1>2. ch[c] = FreeChan /\ Differ(chan, ch, c) /\ ChannelsOK(ch)
  BY GoneOK
<1>3. a # NoAddr
  BY <1>1, Parts DEF ChannelsOK
<1> HIDE DEF ch
<1>4. ASSUME NEW s \in SlotsOf(a), Commit(s, Disconnected(dev[s], c, linkloss), ch) PROVE IInv' /\ Changes
  <2>1. s \in Slot /\ dev[s].addr = a
    BY DEF SlotsOf
  <2>2. Ended(dev[s], chan, ch, c, linkloss)
    BY <1>1, <1>2, <1>3, <2>1 DEF Ended
  <2>3. Settles(dev[s], Disconnected(dev[s], c, linkloss), ch)
    BY <2>1, <2>2, Parts, DisconnectedOK
  <2> QED BY <1>1, <1>2, <1>4, <2>1, <2>3, EventOK
<1>5. CASE SlotsOf(a) = {} /\ chan' = ch /\ UNCHANGED <<dev, sdp>>
  BY <1>1, <1>2, <1>5, EventAlone
<1> QED BY <1>1, <1>4, <1>5

LEMMA LinkLostStep ==
  ASSUME IInv, NEW a \in Addr, LinkLost(a)
  PROVE  IInv' /\ Changes
<1>1. /\ chan' = [c \in Chan |-> IF chan[c].addr = a /\ chan[c].st = "up"
                                 THEN [chan[c] EXCEPT !.st = "lost"] ELSE chan[c]]
      /\ UNCHANGED <<dev, sdp, waiting, panicked>>
  BY DEF LinkLost
<1>2. chan \in [Chan -> [st : ChanState, addr : Addr \cup {NoAddr}]]
  BY Parts DEF ChannelsOK
<1>3. \A c \in Chan : /\ chan'[c] \in [st : ChanState, addr : Addr \cup {NoAddr}] /\ chan'[c].addr = chan[c].addr
                      /\ chan'[c].st = IF chan[c].addr = a /\ chan[c].st = "up" THEN "lost" ELSE chan[c].st
  BY <1>1, <1>2 DEF ChanState
<1>4. chan' \in [Chan -> [st : ChanState, addr : Addr \cup {NoAddr}]]
  BY <1>1, <1>3
<1>5. ChannelsOK(chan)'
  BY <1>3, <1>4, Parts DEF ChannelsOK
<1>6. ASSUME NEW t \in Slot PROVE RecordOK(dev[t], chan')
  <2>1. Follows(dev[t].addr, chan, chan')
    BY <1>3 DEF Follows
  <2> QED BY <2>1, Parts, FollowsOK
<1>7. Records(dev, chan)'
  BY <1>1, <1>6, Parts DEF Records
<1>8. Changes
  BY <1>1, AllowedSelf DEF Changes
<1> QED BY <1>1, <1>5, <1>7, <1>8, Parts DEF IInv

(* The first record that is not in use.                                    *)
LEMMA FirstEmpty ==
  ASSUME EmptySlots # {}
  PROVE  FirstEmptySlot \in Slot /\ dev[FirstEmptySlot].addr = NoAddr
<1>1. EmptySlots \subseteq Nat
  BY SlotAssumption DEF EmptySlots, SlotsOf
<1>2. \E s \in EmptySlots : \A t \in EmptySlots : s <= t
  BY <1>1, LeastNatural
<1>3. FirstEmptySlot \in EmptySlots
  BY <1>2 DEF FirstEmptySlot
<1> QED BY <1>3 DEF EmptySlots, SlotsOf

(* A record that is not in use keeps nothing and has no abort under way.   *)
LEMMA UnusedAllows ==
  ASSUME IInv, NEW s \in Slot, dev[s].addr = NoAddr, NEW e
  PROVE  Allowed(dev[s], e)
<1>1. ~dev[s].linkloss /\ dev[s].sig = "idle"
  BY Parts DEF RecordOK, Sound, Unused, NoLoss
<1> QED BY <1>1 DEF Allowed, Kept, Aborting

(* A step that takes record s into use for address a.                      *)
LEMMA TakenOK ==
  ASSUME IInv, NEW s \in Slot, dev[s].addr = NoAddr, NEW a \in Addr, SlotsOf(a) = {},
         NEW d, NEW ch, ChannelsOK(ch), Commit(s, d, ch),
         RecordOK(d, ch), Len(d.rx) <= MaxRx, d.addr = a,
         \A t \in Slot \ {s} : RecordOK(dev[t], ch)
  PROVE  Records(dev, chan)' /\ ChannelsOK(chan)' /\ Changes /\ sdp' \subseteq Addr
<1>1. \A t \in Slot \ {s} : dev[t].addr # d.addr
  BY DEF SlotsOf
<1>2. Allowed(dev[s], d)
  BY UnusedAllows
<1>3. Records(dev, chan)' /\ ChannelsOK(chan)' /\ Changes
  BY <1>1, <1>2, Committed DEF Commit
<1> QED BY <1>3, SearchOK

LEMMA RequestStep ==
  ASSUME IInv, NEW a \in Addr, NEW queue, queue \subseteq Slot \X Addr, HandleSignallingConnectReq(a, queue),
         UNCHANGED panicked
  PROVE  IInv' /\ Changes
<1> DEFINE f == FirstEmptySlot
<1>1. CASE SlotsOf(a) = {} /\ EmptySlots # {} /\ Commit(f, ConnectOut(dev[f], a), chan) /\ waiting' = queue
  <2> DEFINE e == ConnectOut(dev[f], a)
  <2>1. f \in Slot /\ dev[f].addr = NoAddr
    BY <1>1, FirstEmpty
  <2> HIDE DEF f
  <2>2. RecordOK(e, chan) /\ Len(e.rx) <= MaxRx /\ e.addr = a
    BY <2>1, Parts, ConnectOutOK
  <2> HIDE DEF e
  <2>3. Records(dev, chan)' /\ ChannelsOK(chan)' /\ Changes /\ sdp' \subseteq Addr
    BY <1>1, <2>1, <2>2, Parts, TakenOK DEF e
  <2> QED BY <1>1, <2>3, Parts DEF IInv
<1>2. CASE ~(SlotsOf(a) = {} /\ EmptySlots # {} /\ Commit(f, ConnectOut(dev[f], a), chan) /\ waiting' = queue)
  <2> DEFINE s == CHOOSE s \in SlotsOf(a) : TRUE
  <2>1. /\ waiting' = IF SlotsOf(a) # {} /\ dev[s].sig \in {"disconnecting", "disconnect_pending"}
                      THEN queue \cup {<<s, a>>} ELSE queue
        /\ UNCHANGED <<dev, chan, sdp>>
    BY <1>2 DEF HandleSignallingConnectReq
  <2>2. SlotsOf(a) # {} => s \in Slot
    BY DEF SlotsOf
  <2> HIDE DEF s
  <2>3. waiting' \subseteq Slot \X Addr
    BY <2>1, <2>2
  <2> QED BY <2>1, <2>3, Parts, SameInv
<1> QED BY <1>1, <1>2

LEMMA IndStep ==
  ASSUME IInv, NEW a \in Addr, L2capConnectInd(a)
  PROVE  IInv' /\ Changes
<1>1. PICK c \in Free(chan) :
        LET ch == [chan EXCEPT ![c] = [st |-> "ringing", addr |-> a]]
        IN  CASE SlotsOf(a) # {} -> \E s \in SlotsOf(a) : Commit(s, ConnectInd(dev[s], c), ch)
              [] SlotsOf(a) = {} /\ EmptySlots # {} ->
                     Commit(FirstEmptySlot, ConnectIndNew(dev[FirstEmptySlot], a, c), ch)
              [] OTHER -> chan' = Applied(ch, [NoOutput EXCEPT !.no = {c}]) /\ UNCHANGED <<dev, sdp>>
  BY DEF L2capConnectInd
<1> DEFINE ch == [chan EXCEPT ![c] = [st |-> "ringing", addr |-> a]]
           f == FirstEmptySlot
           out == [NoOutput EXCEPT !.no = {c}]
<1>2. UNCHANGED <<waiting, panicked>> /\ LinkSettled(a) /\ c \in Chan /\ chan[c].st = "free" /\ a # NoAddr
  BY AddrAssumption DEF L2capConnectInd, Free
<1>3. chan \in [Chan -> [st : ChanState, addr : Addr \cup {NoAddr}]]
  BY Parts DEF ChannelsOK
<1>4. /\ ch \in [Chan -> [st : ChanState, addr : Addr \cup {NoAddr}]]
      /\ ch[c].st = "ringing" /\ ch[c].addr = a /\ Differ(chan, ch, c)
  BY <1>2, <1>3 DEF ChanState, Differ
<1>5. \/ \E s \in SlotsOf(a) : Commit(s, ConnectInd(dev[s], c), ch)
      \/ SlotsOf(a) = {} /\ EmptySlots # {} /\ Commit(f, ConnectIndNew(dev[f], a, c), ch)
      \/ chan' = Applied(ch, out) /\ UNCHANGED <<dev, sdp>>
  BY <1>1
<1> HIDE DEF ch, out
<1>6. ChannelsOK(ch)
  BY <1>2, <1>4, Parts DEF ChannelsOK, Differ
<1>7. \A t \in Slot : RecordOK(dev[t], ch)
  BY <1>2, <1>4, WasFree
<1>8. \A x \in Chan : chan[x].addr = a => chan[x].st # "lost"
  BY <1>2 DEF LinkSettled
<1>9. ASSUME NEW s \in SlotsOf(a), Commit(s, ConnectInd(dev[s], c), ch) PROVE IInv' /\ Changes
  <2> DEFINE d == dev[s]
             e == ConnectInd(d, c)
  <2>1. s \in Slot /\ d.addr = a
    BY DEF SlotsOf
  <2>2. Rings(d, chan, ch, c)
    BY <1>2, <1>4, <1>8, <2>1 DEF Rings
  <2>3. Settles(d, e, ch)
    BY <2>1, <2>2, Parts, ConnectIndOK
  <2> HIDE DEF e
  <2>4. RecordOK(e, ch) /\ Len(e.rx) <= MaxRx /\ e.addr \in {d.addr, NoAddr} /\ Allowed(d, e)
    BY <2>3 DEF Settles
  <2>5. \A t \in Slot \ {s} : e.addr # NoAddr => dev[t].addr # e.addr
    BY <2>1, <2>4, Parts DEF Distinct
  <2>6. Records(dev, chan)' /\ ChannelsOK(chan)' /\ Changes
    BY <1>6, <1>7, <1>9, <2>1, <2>4, <2>5, Committed DEF Commit, e
  <2>7. sdp' \subseteq Addr
    BY <1>9, <2>4, SearchOK DEF e
  <2> QED BY <1>2, <2>6, <2>7, Parts DEF IInv
<1>10. CASE SlotsOf(a) = {} /\ EmptySlots # {} /\ Commit(f, ConnectIndNew(dev[f], a, c), ch)
  <2> DEFINE e == ConnectIndNew(dev[f], a, c)
  <2>1. f \in Slot /\ dev[f].addr = NoAddr
    BY <1>10, FirstEmpty
  <2> HIDE DEF f
  <2>2. RecordOK(e, ch) /\ Len(e.rx) <= MaxRx /\ e.addr = a
    BY <1>2, <1>4, <1>8, <2>1, Parts, ConnectIndNewOK
  <2> HIDE DEF e
  <2>3. Records(dev, chan)' /\ ChannelsOK(chan)' /\ Changes /\ sdp' \subseteq Addr
    BY <1>6, <1>7, <1>10, <2>1, <2>2, TakenOK DEF e
  <2> QED BY <1>2, <2>3, Parts DEF IInv
<1>11. CASE chan' = Applied(ch, out) /\ UNCHANGED <<dev, sdp>>
  <2>1. out.drop = {}
    BY DEF out, NoOutput
  <2> HIDE DEF f
  <2>2. \A x \in Chan : /\ Applied(ch, out)[x] \in [st : ChanState, addr : Addr \cup {NoAddr}]
                        /\ Applied(ch, out)[x].addr = ch[x].addr
                        /\ \/ Applied(ch, out)[x].st = ch[x].st
                           \/ {ch[x].st, Applied(ch, out)[x].st} \subseteq Inbound
    BY <1>6, <2>1, AppliedChannel
  <2>3. chan' = [x \in Chan |-> chan'[x]]
    BY <1>11 DEF Applied
  <2>4. chan' \in [Chan -> [st : ChanState, addr : Addr \cup {NoAddr}]]
    BY <1>11, <2>2, <2>3
  <2>5. ChannelsOK(chan)'
    BY <1>6, <1>11, <2>2, <2>4 DEF ChannelsOK, Inbound
  <2>6. ASSUME NEW t \in Slot PROVE RecordOK(dev[t], chan')
    <3>1. Follows(dev[t].addr, ch, chan')
      BY <1>11, <2>2 DEF Follows
    <3> QED BY <1>7, <3>1, FollowsOK
  <2>7. Records(dev, chan)'
    BY <1>11, <2>6, Parts DEF Records
  <2>8. Changes
    BY <1>11, AllowedSelf DEF Changes
  <2> QED BY <1>2, <1>11, <2>5, <2>7, <2>8, Parts DEF IInv
<1> QED BY <1>5, <1>9, <1>10, <1>11

LEMMA SdpStep ==
  ASSUME IInv, NEW a \in Addr, NEW v \in Versions, SdpSearchCfm(a, v)
  PROVE  IInv' /\ Changes
<1>1. sdp' \subseteq Addr /\ UNCHANGED <<waiting, panicked>>
  BY Parts DEF SdpSearchCfm
<1>2. CASE UNCHANGED <<dev, chan>>
  BY <1>1, <1>2, Parts, SameInv
<1>3. ASSUME NEW s \in SlotsOf(a), Emit(s, VersionFound(dev[s], v), chan) PROVE IInv' /\ Changes
  <2> DEFINE d == dev[s]
             e == VersionFound(d, v)
  <2>1. s \in Slot /\ v \in Version
    BY EnvironmentAssumption DEF SlotsOf
  <2>2. Settles(d, e, chan)
    BY <2>1, Parts, VersionFoundOK
  <2> HIDE DEF e
  <2>3. RecordOK(e, chan) /\ Len(e.rx) <= MaxRx /\ e.addr \in {d.addr, NoAddr} /\ Allowed(d, e)
    BY <2>2 DEF Settles
  <2>4. \A t \in Slot \ {s} : e.addr # NoAddr => dev[t].addr # e.addr
    BY <2>1, <2>3, Parts DEF Distinct
  <2>5. Records(dev, chan)' /\ ChannelsOK(chan)' /\ Changes
    BY <1>3, <2>1, <2>3, <2>4, Parts, Committed DEF e
  <2> QED BY <1>1, <2>5, Parts DEF IInv
<1> QED BY <1>2, <1>3 DEF SdpSearchCfm

(* Steps on one record.                                                    *)
LEMMA OneRecord ==
  ASSUME IInv, NEW s \in Slot, NEW d, Step(s, d), Settles(dev[s], d, chan)
  PROVE  IInv' /\ Changes
BY Parts, StepOK DEF Step

(* The record without a question that was answered, and without a timer    *)
(* that fired.                                                             *)
LEMMA AnsweredFields ==
  ASSUME IInv, NEW s \in Slot, NEW A \in SUBSET dev[s].ask
  PROVE  LET d == dev[s]
             b == [d EXCEPT !.ask = A]
         IN  /\ b \in Device /\ Outcome(d, b, LiveOn(chan, d.addr)) /\ RecordOK(b, chan) /\ AtRest(b)
             /\ b.addr = d.addr /\ b.stream = d.stream /\ b.sig = d.sig /\ b.media = d.media
             /\ b.linkloss = d.linkloss /\ b.manage = d.manage /\ b.expired = d.expired
<1> DEFINE d == dev[s]
           b == [d EXCEPT !.ask = A]
<1>1. d \in Device /\ RecordOK(d, chan) /\ AtRest(d)
  BY Parts
<1>2. Outcome(d, d, LiveOn(chan, d.addr))
  BY <1>1, SelfOutcome
<1>3. Outcome(d, b, LiveOn(chan, d.addr))
  BY <1>2, AskedOutcome
<1>4. /\ b.addr = d.addr /\ b.stream = d.stream /\ b.sig = d.sig /\ b.media = d.media
      /\ b.linkloss = d.linkloss /\ b.manage = d.manage /\ b.expired = d.expired
      /\ b.out = d.out /\ b.rx = d.rx
  BY <1>1 DEF Device
<1> HIDE DEF d, b
<1>5. Settles(d, b, chan)
  BY <1>1, <1>3, <1>4, OutcomeSettles DEF Aborting
<1> QED BY <1>1, <1>3, <1>4, <1>5 DEF Settles, RecordOK, Sound, AtRest, d, b

LEMMA TimerFields ==
  ASSUME IInv, NEW s \in Slot, NEW t \in Timer \ {"retry"}
  PROVE  LET d == dev[s]
             b == Expired(s, t)
         IN  b \in Device /\ Outcome(d, b, LiveOn(chan, d.addr)) /\ b.stream = d.stream /\ b.sig = d.sig
<1> DEFINE d == dev[s]
           b == [d EXCEPT !.timers = @ \ {t}]
<1>1. d \in Device /\ RecordOK(d, chan) /\ Expired(s, t) = b
  BY Parts DEF Expired
<1>2. Outcome(d, d, LiveOn(chan, d.addr))
  BY <1>1, SelfOutcome
<1>3. Outcome(d, b, LiveOn(chan, d.addr))
  BY <1>2, ExpiredOutcome
<1>4. b.stream = d.stream /\ b.sig = d.sig
  BY <1>1 DEF Device
<1> QED BY <1>1, <1>3, <1>4, OutcomeType

LEMMA ClientSteps ==
  ASSUME IInv, NEW s \in Slot,
         \/ SignallingDisconnectRequest(s)
         \/ \E enable \in BOOLEAN : DeviceManageLinkloss(s, enable)
         \/ StreamRequest(s)
  PROVE  IInv' /\ Changes
<1> DEFINE d == dev[s]
           M == LiveOn(chan, d.addr)
<1>1. d \in Device /\ RecordOK(d, chan) /\ AtRest(d)
  BY Parts
<1>2. Outcome(d, d, M)
  BY <1>1, SelfOutcome
<1>3. CASE SignallingDisconnectRequest(s)
  <2>1. Step(s, SignallingDisconnectReq(d))
    BY <1>3 DEF SignallingDisconnectRequest
  <2>2. Outcome(d, SignallingDisconnectReq(d), M)
    BY <1>2, DisconnectReqOutcome
  <2>3. Aborting(d) => SignallingDisconnectReq(d).stream = "local_aborting"
    BY <1>1, AbortedDisconnectReq
  <2>4. Settles(d, SignallingDisconnectReq(d), chan)
    BY <1>1, <2>2, <2>3, OutcomeSettles
  <2> QED BY <2>1, <2>4, OneRecord
<1>4. ASSUME NEW enable \in BOOLEAN, DeviceManageLinkloss(s, enable) PROVE IInv' /\ Changes
  <2> DEFINE e == [d EXCEPT !.manage = enable]
  <2>1. Step(s, e)
    BY <1>4 DEF DeviceManageLinkloss
  <2>2. Outcome(d, e, M) /\ e.stream = d.stream
    BY <1>1, <1>2, ManageOutcome DEF Device
  <2> HIDE DEF e
  <2>3. Settles(d, e, chan)
    BY <1>1, <2>2, OutcomeSettles DEF Aborting
  <2> QED BY <2>1, <2>3, OneRecord
<1>5. CASE StreamRequest(s)
  <2>1. PICK e : Step(s, e) /\ \/ \E known \in BOOLEAN : e = StreamEstablish(d, known)
                               \/ e \in {StreamStart(d), StreamSuspend(d), StreamReconfigure(d), StreamRelease(d),
                                         StreamDelayReport(d)}
    BY <1>5 DEF StreamRequest
  <2>2. Outcome(d, e, M)
    BY <1>2, <2>1, EstablishOutcome, RequestsOutcome, DelayReportOutcome
  <2>3. d.stream = "local_aborting" => e = d
    BY <1>1, <2>1, AbortedRequests
  <2>4. Settles(d, e, chan)
    BY <1>1, <2>2, <2>3, OutcomeSettles DEF Aborting
  <2> QED BY <2>1, <2>4, OneRecord
<1> QED BY <1>3, <1>4, <1>5

(* The answers of the client.                                              *)
LEMMA AnswerSteps ==
  ASSUME IInv, NEW s \in Slot, NEW accept \in BOOLEAN,
         \/ \E a \in Addr : SignallingConnectResponse(s, a, accept)
         \/ MediaOpenResponse(s, accept)
         \/ MediaStartResponse(s, accept)
         \/ \E pick \in EndpointPick : CodecResponse(s, accept, pick)
  PROVE  IInv' /\ Changes
<1> DEFINE d == dev[s]
           M == LiveOn(chan, d.addr)
<1>1. d \in Device /\ RecordOK(d, chan) /\ AtRest(d)
  BY Parts
<1>2. ASSUME NEW a \in Addr, SignallingConnectResponse(s, a, accept) PROVE IInv' /\ Changes
  <2> DEFINE A == d.ask \ {<<"connect", a>>}
             b == [d EXCEPT !.ask = A]
             e == SignallingConnectRes(b, accept)
  <2>1. Step(s, e)
    BY <1>2 DEF SignallingConnectResponse
  <2>2. A \in SUBSET d.ask
    OBVIOUS
  <2> HIDE DEF A
  <2>3. /\ RecordOK(b, chan) /\ AtRest(b)
        /\ b.addr = d.addr /\ b.stream = d.stream /\ b.sig = d.sig /\ b.media = d.media
        /\ b.linkloss = d.linkloss /\ b.manage = d.manage /\ b.expired = d.expired
    BY <2>2, AnsweredFields
  <2> HIDE DEF b
  <2>4. Settles(b, e, chan)
    BY <2>3, ConnectResOK
  <2> HIDE DEF e
  <2>5. Settles(d, e, chan)
    BY <2>3, <2>4 DEF Settles, Allowed, Kept, Aborting
  <2> QED BY <2>1, <2>5, OneRecord
<1>3. ASSUME NEW e, NEW q \in Question, NEW pick,
             e \in {StreamOpenResponse(Answered(s, q), accept), StreamStartResponse(Answered(s, q), accept),
                    CodecConfigureResponse(Answered(s, q), accept, pick)}
      PROVE  Settles(d, e, chan)
  <2> DEFINE A == {x \in d.ask : x[1] # q}
             b == [d EXCEPT !.ask = A]
  <2>1. A \in SUBSET d.ask /\ Answered(s, q) = b
    BY DEF Answered
  <2> HIDE DEF A
  <2>2. b \in Device /\ Outcome(d, b, M) /\ b.stream = d.stream /\ b.sig = d.sig
    BY <2>1, AnsweredFields
  <2> HIDE DEF b
  <2>3. Outcome(d, e, M)
    BY <1>3, <2>1, <2>2, AnswersOutcome
  <2>4. d.stream = "local_aborting" => e \in {b, Reject(b)}
    BY <1>3, <2>1, <2>2, AbortedRequests
  <2>5. d.stream = "local_aborting" => e.stream = "local_aborting"
    BY <2>2, <2>4, AbortStays
  <2> QED BY <1>1, <2>3, <2>5, OutcomeSettles DEF Aborting
<1>4. {"open", "start", "configure"} \subseteq Question
  BY DEF Question
<1>5. CASE MediaOpenResponse(s, accept)
  <2> DEFINE e == StreamOpenResponse(Answered(s, "open"), accept)
  <2>1. Step(s, e)
    BY <1>5 DEF MediaOpenResponse
  <2>2. Settles(d, e, chan)
    BY <1>3, <1>4
  <2> HIDE DEF e
  <2> QED BY <2>1, <2>2, OneRecord
<1>6. CASE MediaStartResponse(s, accept)
  <2> DEFINE e == StreamStartResponse(Answered(s, "start"), accept)
  <2>1. Commit(s, e, chan) /\ panicked' \in BOOLEAN /\ UNCHANGED waiting
    BY <1>6 DEF MediaStartResponse, StartResponsePanics
  <2>2. Settles(d, e, chan)
    BY <1>3, <1>4
  <2> HIDE DEF e
  <2> QED BY <2>1, <2>2, StepOK
<1>7. ASSUME NEW pick \in EndpointPick, CodecResponse(s, accept, pick) PROVE IInv' /\ Changes
  <2> DEFINE e == CodecConfigureResponse(Answered(s, "configure"), accept, pick)
  <2>1. Step(s, e)
    BY <1>7 DEF CodecResponse
  <2>2. Settles(d, e, chan)
    BY <1>3, <1>4
  <2> HIDE DEF e
  <2> QED BY <2>1, <2>2, OneRecord
<1> QED BY <1>2, <1>5, <1>6, <1>7

(* The packets of remote devices.                                          *)
LEMMA AnswersReceived ==
  ASSUME NEW version, NEW m \in SentCommand, NEW p \in Answers(version, m)
  PROVE  p \in Received
<1>1. m.cmd \in Issued /\ m.label \in 0..MaxLabel
  BY LabelAssumption DEF SentCommand
<1>2. p = GeneralReject(version, m)
      \/ \E t \in {"accept", "reject"} : \E k \in ResponsePicks(t, m.cmd) :
            p = [type |-> t, sig |-> m.cmd, label |-> m.label, pick |-> k]
  BY DEF Answers
<1>3. GeneralReject(version, m) \in Received
  BY <1>1 DEF GeneralReject, Received, Packet, EndpointPick
<1>4. ASSUME NEW t \in {"accept", "reject"}, NEW k \in ResponsePicks(t, m.cmd)
      PROVE  [type |-> t, sig |-> m.cmd, label |-> m.label, pick |-> k] \in Received
  <2>1. k \in EndpointPick \cup ConfiguredPick
    BY DEF ResponsePicks, EndpointPick
  <2> QED BY <1>1, <2>1 DEF Received, Packet
<1> QED BY <1>2, <1>3, <1>4

LEMMA RemoteSteps ==
  ASSUME IInv, NEW s \in Slot,
         \/ \E p \in CommandPacket : RemoteCommand(s, p)
         \/ RemoteCorruptPacket(s)
         \/ RemoteAnswer(s)
  PROVE  IInv' /\ Changes
<1> DEFINE d == dev[s]
           M == LiveOn(chan, d.addr)
<1>1. d \in Device /\ RecordOK(d, chan) /\ AtRest(d)
  BY Parts
<1>2. Outcome(d, d, M)
  BY <1>1, SelfOutcome
<1>3. ASSUME NEW p \in Received, NEW b, Outcome(d, b, M), b.stream = d.stream, b.out = d.out, Arrives(s, p, b)
      PROVE  IInv' /\ Changes
  <2>1. Step(s, HandleSignalPacket([b EXCEPT !.rx = Append(@, p)])) /\ Len(b.rx) < MaxRx
    BY <1>3 DEF Arrives
  <2>2. Settles(d, HandleSignalPacket([b EXCEPT !.rx = Append(@, p)]), chan)
    BY <1>1, <1>3, <2>1, ArrivesOK
  <2> QED BY <2>1, <2>2, OneRecord
<1>4. ASSUME NEW p \in CommandPacket, RemoteCommand(s, p) PROVE IInv' /\ Changes
  <2>1. p \in Received
    BY LabelAssumption DEF CommandPacket, Received, Packet
  <2> QED BY <1>2, <1>3, <1>4, <2>1 DEF RemoteCommand
<1>5. CASE RemoteCorruptPacket(s)
  <2>1. CorruptPacket \in Received
    BY LabelAssumption DEF CorruptPacket, Received, Packet, Command, EndpointPick
  <2> QED BY <1>2, <1>3, <1>5, <2>1 DEF RemoteCorruptPacket
<1>6. CASE RemoteAnswer(s)
  <2>1. PICK i \in 1..Len(d.sent) : \E p \in Answers(d.version, d.sent[i]) :
           Arrives(s, p, [d EXCEPT !.sent = SubSeq(@, i + 1, Len(@))])
    BY <1>6 DEF RemoteAnswer
  <2>2. PICK p \in Answers(d.version, d.sent[i]) : Arrives(s, p, [d EXCEPT !.sent = SubSeq(@, i + 1, Len(@))])
    BY <2>1
  <2> DEFINE b == [d EXCEPT !.sent = SubSeq(@, i + 1, Len(@))]
  <2>3. d.sent[i] \in SentCommand
    BY <1>1 DEF Device
  <2>4. p \in Received
    BY <2>3, AnswersReceived
  <2>5. Outcome(d, b, M)
    BY <1>2, SentOutcome
  <2>6. b.stream = d.stream /\ b.out = d.out
    BY <1>1 DEF Device
  <2> HIDE DEF b
  <2> QED BY <1>3, <2>2, <2>4, <2>5, <2>6 DEF b
<1> QED BY <1>4, <1>5, <1>6

LEMMA TimeoutStep ==
  ASSUME IInv, NEW s \in Slot, Timeout(s)
  PROVE  IInv' /\ Changes
<1> DEFINE d == dev[s]
           M == LiveOn(chan, d.addr)
<1>1. d \in Device /\ RecordOK(d, chan) /\ AtRest(d)
  BY Parts
<1>2. CASE Fires(s, "retry", RetryTimeout)
  <2>1. Step(s, RetryTimeout([d EXCEPT !.timers = @ \ {"retry"}]))
    BY <1>2 DEF Fires, Expired
  <2> QED BY <1>1, <2>1, RetryOK, OneRecord
<1>3. ASSUME NEW t \in Timer \ {"retry"}, NEW e,
             e \in {LinklossTimeout(Expired(s, t)), WatchdogTimeout(Expired(s, t)), ClientRspTimeout(Expired(s, t)),
                    RemoteCmdTimeout(Expired(s, t))}
      PROVE  Settles(d, e, chan)
  <2> DEFINE b == Expired(s, t)
  <2>1. b \in Device /\ Outcome(d, b, M) /\ b.stream = d.stream /\ b.sig = d.sig
    BY TimerFields
  <2> HIDE DEF b
  <2>2. Outcome(d, e, M)
    BY <1>3, <2>1, TimeoutOutcome DEF b
  <2>3. d.stream = "local_aborting" => e.stream \in {"local_aborting", "idle"}
    BY <1>3, <2>1, AbortedTimeouts DEF b
  <2> QED BY <1>1, <2>2, <2>3, OutcomeSettles DEF Aborting
<1>4. {"linkloss", "watchdog", "clientRsp", "remoteCmd"} \subseteq Timer \ {"retry"}
  BY DEF Timer
<1>5. CASE Fires(s, "linkloss", LinklossTimeout)
  <2>1. Step(s, LinklossTimeout(Expired(s, "linkloss")))
    BY <1>5 DEF Fires
  <2> QED BY <1>3, <1>4, <2>1, OneRecord
<1>6. CASE Fires(s, "watchdog", WatchdogTimeout)
  <2>1. Step(s, WatchdogTimeout(Expired(s, "watchdog")))
    BY <1>6 DEF Fires
  <2> QED BY <1>3, <1>4, <2>1, OneRecord
<1>7. CASE Fires(s, "clientRsp", ClientRspTimeout)
  <2>1. Step(s, ClientRspTimeout(Expired(s, "clientRsp")))
    BY <1>7 DEF Fires
  <2> QED BY <1>3, <1>4, <2>1, OneRecord
<1>8. CASE Fires(s, "remoteCmd", RemoteCmdTimeout)
  <2>1. Step(s, RemoteCmdTimeout(Expired(s, "remoteCmd")))
    BY <1>8 DEF Fires
  <2> QED BY <1>3, <1>4, <2>1, OneRecord
<1> QED BY <1>2, <1>5, <1>6, <1>7, <1>8 DEF Timeout

-----------------------------------------------------------------------------
LEMMA InitOK ==
  ASSUME Init
  PROVE  IInv
<1> DEFINE f == FreshDevice
<1>1. /\ dev = [s \in Slot |-> f] /\ chan = [c \in Chan |-> FreeChan]
      /\ sdp = {} /\ waiting = {} /\ panicked = FALSE
  BY DEF Init
<1>2. /\ f \in Device /\ f.addr = NoAddr /\ f.sig = "idle" /\ f.media = "idle" /\ f.stream = "idle"
      /\ f.linkloss = FALSE /\ f.issued = FALSE /\ f.sent = << >> /\ f.rx = << >> /\ f.out = NoOutput
  BY FreshFields
<1> HIDE DEF f
<1>3. Len(<< >>) = 0 /\ NoOutput.drop = {} /\ ~NoOutput.sdp
  BY DEF NoOutput
<1>4. RecordOK(f, chan)
  BY <1>2, <1>3, LabelAssumption DEF RecordOK, Placed, Sound, SinksOwned, StreamAndMedia, Unused, NoLoss, SettingUp,
     LabelInStep, Bounded, Joined, MediaKept, MediaStreams
<1>5. AtRest(f)
  BY <1>2, <1>3, EnvironmentAssumption DEF AtRest
<1>6. Records(dev, chan)
  BY <1>1, <1>2, <1>4, <1>5 DEF Records, Distinct
<1>7. ChannelsOK(chan)
  BY <1>1 DEF ChannelsOK, FreeChan, ChanState
<1> QED BY <1>1, <1>6, <1>7 DEF IInv

(* Every step keeps the invariant and does to the records what is allowed. *)
LEMMA NextOK ==
  ASSUME IInv, [Next]_vars
  PROVE  IInv' /\ Changes
<1>1. CASE UNCHANGED vars
  BY <1>1, Parts, SameInv DEF vars
<1>2. CASE Next
  <2>1. Running
    BY <1>2 DEF Next
  <2>2. ASSUME NEW a \in Addr,
               \/ SignallingConnectRequest(a) \/ L2capConnectInd(a) \/ LinkLost(a)
               \/ \E v \in Versions : SdpSearchCfm(a, v)
        PROVE  IInv' /\ Changes
    <3>1. CASE SignallingConnectRequest(a)
      <4>1. HandleSignallingConnectReq(a, waiting) /\ UNCHANGED panicked
        BY <3>1 DEF SignallingConnectRequest
      <4> QED BY <4>1, Parts, RequestStep
    <3> QED BY <2>2, <3>1, IndStep, LinkLostStep, SdpStep
  <2>3. ASSUME NEW w \in waiting, ConnectRequestAgain(w) PROVE IInv' /\ Changes
    <3>1. waiting \subseteq Slot \X Addr
      BY Parts
    <3>2. w[2] \in Addr /\ waiting \ {w} \subseteq Slot \X Addr
      BY <3>1
    <3>3. HandleSignallingConnectReq(w[2], waiting \ {w}) /\ UNCHANGED panicked
      BY <2>3 DEF ConnectRequestAgain
    <3> QED BY <3>2, <3>3, RequestStep
  <2>4. ASSUME NEW c \in Chan,
               \/ L2capConnectPending(c) \/ L2capConnectSuccess(c) \/ L2capConnectFailure(c)
               \/ L2capDisconnect(c) \/ L2capLinklossInd(c)
        PROVE  IInv' /\ Changes
    BY <2>4, PendingStep, SuccessStep, FailureStep, DisconnectSteps
  <2>5. ASSUME NEW s \in Slot,
               \/ SignallingDisconnectRequest(s)
               \/ \E enable \in BOOLEAN : DeviceManageLinkloss(s, enable)
               \/ \E p \in CommandPacket : RemoteCommand(s, p)
               \/ RemoteCorruptPacket(s)
               \/ RemoteAnswer(s)
               \/ StreamRequest(s)
               \/ \E accept \in BOOLEAN :
                     \/ \E a \in Addr : SignallingConnectResponse(s, a, accept)
                     \/ MediaOpenResponse(s, accept)
                     \/ MediaStartResponse(s, accept)
                     \/ \E pick \in EndpointPick : CodecResponse(s, accept, pick)
               \/ Timeout(s)
        PROVE  IInv' /\ Changes
    BY <2>5, ClientSteps, RemoteSteps, AnswerSteps, TimeoutStep
  <2> QED BY <2>1, <2>2, <2>3, <2>4, <2>5 DEF Running
<1> QED BY <1>1, <1>2

(* The invariant holds in every reachable state.                           *)
THEOREM Invariance == Spec => []IInv
<1>1. Init => IInv
  BY InitOK
<1>2. IInv /\ [Next]_vars => IInv'
  BY NextOK
<1> QED BY <1>1, <1>2, PTL DEF Spec

-----------------------------------------------------------------------------
(* What the invariant says of one record.                                  *)
LEMMA RecordFacts ==
  ASSUME IInv, NEW s \in Slot
  PROVE  LET d == dev[s]
         IN  /\ d \in Device /\ Sound(d, LiveOn(chan, d.addr)) /\ Placed(d, chan)
             /\ d.out = NoOutput /\ Len(d.rx) <= MaxRx
BY Parts DEF RecordOK

(* Every field of every record, and every channel, holds a value of its    *)
(* type: labels stay within their 4 bits, the media channel is never in    *)
(* crossover, and what a step asks of the connection library is done       *)
(* within the step (a2dp_private.h, a2dpHandleL2capConnectCfm).            *)
THEOREM TypeCorrect == Spec => []TypeOK
<1>1. ASSUME IInv PROVE TypeOK
  <2>1. ASSUME NEW s \in Slot PROVE DeviceRecord(dev[s])
    <3> DEFINE d == dev[s]
    <3>1. d \in Device /\ Len(d.sent) <= MaxSent /\ d.out = NoOutput /\ Len(d.rx) <= MaxRx
      BY <1>1, RecordFacts DEF Sound, Bounded
    <3> HIDE DEF d
    <3>2. d.rx \in Seq(Packet) /\ d.sent \in Seq([cmd : Issued, label : 1..MaxLabel])
      <4>1. d.rx \in Seq(Received) /\ Received \subseteq Packet
        BY <3>1 DEF Device, Received
      <4> QED BY <3>1, <4>1 DEF Device, SentCommand
    <3>3. /\ d.addr \in Addr \cup {NoAddr} /\ d.version \in Version
          /\ d.sig \in LinkState /\ d.media \in LinkState \ {"crossover"} /\ d.stream \in StreamState
          /\ {d.sink, d.outCid, d.inCid, d.mSink, d.mOutCid, d.mInCid} \subseteq Chan \cup {NoChan}
          /\ {d.inId, d.issued, d.received, d.localSep, d.manage, d.linkloss, d.expired, d.delayPending} \subseteq BOOLEAN
          /\ d.timers \subseteq Timer
          /\ d.ask \subseteq Question \X (Addr \cup {NoAddr})
          /\ d.owed \subseteq {"connect", "open"}
          /\ d.label \in 0..MaxLabel
      BY <3>1 DEF Device, Ends
    <3> QED BY <3>1, <3>2, <3>3 DEF DeviceRecord, d
  <2> QED BY <1>1, <2>1, Parts DEF TypeOK, ChannelsOK
<1> QED BY <1>1, Invariance, PTL

(* No two records are ever for the same remote device: a2dp.h promises one *)
(* signalling channel per device, however requests of both sides cross and *)
(* are sent again (addDevice, a2dpHandleSignallingConnectReq).             *)
THEOREM OneRecordPerDevice == Spec => []AddressesUnique
<1>1. ASSUME IInv PROVE AddressesUnique
  BY <1>1, Parts DEF AddressesUnique, Distinct
<1> QED BY <1>1, Invariance, PTL

(* The sinks a record counts as connected are two different channels to    *)
(* its own device which are not yet gone (completeSignalling,              *)
(* a2dpHandleL2capConnectCfm, removeDevice).                               *)
THEOREM SinksOfItsOwn == Spec => []ChannelsMatch
<1>1. ASSUME IInv PROVE ChannelsMatch
  BY <1>1, RecordFacts DEF ChannelsMatch, Live, LiveOn, Sound, SinksOwned, MediaKept
<1> QED BY <1>1, Invariance, PTL

(* A record that waits for a signalling channel waits for something that   *)
(* comes: the connection library or the retry timer (initiateSignalling,   *)
(* a2dpHandleL2capConnectCfm, a2dpHandleSignallingConnectRes).             *)
THEOREM NeverWaitsForNothing == Spec => []SetupUnderWay
<1>1. ASSUME IInv PROVE SetupUnderWay
  <2>1. ASSUME NEW s \in Slot, SettingUp(dev[s])
        PROVE  \/ "retry" \in dev[s].timers
               \/ \E c \in Chan : chan[c].addr = dev[s].addr
                                  /\ chan[c].st \in {"requested", "calling", "ringing", "accepted", "refused"}
    <3>1. Placed(dev[s], chan) /\ ~dev[s].out.call
      BY <1>1, RecordFacts DEF NoOutput
    <3>2. CASE dev[s].sig \in {"paged", "crossover"}
      BY <3>1, <3>2 DEF Placed, Inbound
    <3>3. CASE dev[s].sig = "paging"
      BY <3>1, <3>3 DEF Placed, UnderWay, Pending, Inbound
    <3> QED BY <2>1, <3>2, <3>3 DEF SettingUp
  <2> QED BY <2>1 DEF SetupUnderWay
<1> QED BY <1>1, Invariance, PTL

(* An open or streaming stream has its media channel, whatever the order   *)
(* of responses, confirmations, losses and resets (a2dpSetStreamState,     *)
(* completeMedia, a2dpHandleL2capDisconnect).                              *)
THEOREM StreamsHaveMedia == Spec => []StreamHasMedia
<1>1. ASSUME IInv PROVE StreamHasMedia
  BY <1>1, RecordFacts DEF StreamHasMedia, Sound, StreamAndMedia
<1> QED BY <1>1, Invariance, PTL

(* A stream that was reset takes its media channel down with it            *)
(* (a2dpHandleAbortResponse, a2dpHandleAbortCommand, the watchdog).        *)
THEOREM NoMediaBehindIdle == Spec => []IdleHasNoMedia
<1>1. ASSUME IInv PROVE IdleHasNoMedia
  BY <1>1, RecordFacts, StreamNames DEF IdleHasNoMedia, Sound, StreamAndMedia
<1> QED BY <1>1, Invariance, PTL

(* While a command is pending, the answer to the latest command sent       *)
(* carries the label that is expected (a2dpSendCommand, a2dpStreamReset).  *)
THEOREM LabelsInStep == Spec => []LatestAnswerMatches
<1>1. ASSUME IInv PROVE LatestAnswerMatches
  BY <1>1, RecordFacts DEF LatestAnswerMatches, Sound, LabelInStep, Last
<1> QED BY <1>1, Invariance, PTL

(* A device under link loss management keeps its record until the link     *)
(* loss timer has expired, however the attempts of both sides to reconnect *)
(* cross and fail (a2dpHandleL2capConnectCfm, a2dpHandleL2capDisconnect).  *)
THEOREM LossIsManaged == Spec => ManagedLossKept
<1>1. ASSUME IInv, [Next]_vars
      PROVE  [ \A s \in Slot : dev[s].linkloss /\ dev[s].manage /\ ~dev[s].expired /\ dev[s].media \notin Joined
                                  => dev'[s].addr = dev[s].addr ]_vars
  <2>1. Changes
    BY <1>1, NextOK
  <2> QED BY <2>1 DEF Changes, Allowed, Kept
<1> QED BY <1>1, Invariance, PTL DEF Spec, ManagedLossKept

(* An abort ends in idle, whatever arrives meanwhile, where the source     *)
(* holds one packet at most when it is read (a2dpHandleSignalPacket reads  *)
(* on: of several packets, the first may end the abort and the next begin  *)
(* a stream within one step).                                              *)
THEOREM AbortIsFinal ==
  ASSUME MaxRx <= 1
  PROVE  Spec => AbortEndsInIdle
<1>1. ASSUME IInv, [Next]_vars
      PROVE  [ \A s \in Slot : dev[s].stream = "local_aborting" /\ dev[s].sig = "connected"
                                  => dev'[s].stream \in {"local_aborting", "idle"} ]_vars
  <2>1. Changes
    BY <1>1, NextOK
  <2> QED BY <2>1 DEF Changes, Allowed, Aborting
<1> QED BY <1>1, Invariance, PTL DEF Spec, AbortEndsInIdle
=============================================================================
